--------------------------- MODULE NativeEntities ---------------------------
(***************************************************************************)
(* The native entity port (entity/bombay.rs, entity/family.rs): what       *)
(* EntityRuntime calls activate and retire is here the acquisition of two  *)
(* semaphores, the application's hydration, the launch of an actor, and    *)
(* its retirement around three application callbacks that may panic.       *)
(***************************************************************************)
EXTENDS EntityRuntime

VARIABLES
    stage,              \* per activation: the await its port call is suspended at
    residents,          \* activations that hold a permit of the residents semaphore
    hydrations,         \* activations that hold a permit of the hydrations semaphore
    queue,              \* activations waiting for one, in the semaphore's order
    metrics,            \* EntityMetricState
    faults,             \* what went wrong in each retirement
    receipts,           \* per activation: the EntityRetirementFailure its owner received
    notified            \* commands whose refusal the family's definition was told of

nativeVars == <<stage, residents, hydrations, queue, metrics, faults, receipts, notified>>

\* EntityCapacity, chosen with the family.
Residents == scenario.capacity.residents
ConcurrentHydrations == scenario.capacity.concurrentHydrations

\* try_acquire_owned refuses only a family that its activations can fill, and a refusal is
\* an error of port.activate.
ASSUME CapacityAssumption ==
    \A s \in Scenarios :
        /\ s.capacity.residents \in Nat
        /\ s.capacity.residents > MaxActivation \/ "activate" \in s.fallible

NoFailure == [kind |-> "None", kept |-> {}]

\* EntityMetricState::default
NewMetrics ==
    [activations |-> 0, hydrationFailures |-> 0, launchFailures |-> 0, capacityRefusals |-> 0,
     forcedRetirements |-> 0, activeHydrations |-> 0, peakHydrations |-> 0, residents |-> 0]

\* bombay_entity_runtime
NativeInit ==
    /\ Init
    /\ stage = [a \in Activations |-> "idle"]
    /\ residents = {} /\ hydrations = {} /\ queue = <<>>
    /\ metrics = NewMetrics
    /\ faults = [a \in Activations |-> {}]
    /\ receipts = [a \in Activations |-> NoFailure]
    /\ notified = {}

-----------------------------------------------------------------------------
(* EntityMetricState *)

CapacityRefused == [metrics EXCEPT !.capacityRefusals = @ + 1]
HydrationStarted ==
    LET active == metrics.activeHydrations + 1
    IN  [metrics EXCEPT !.activeHydrations = active,
                        !.peakHydrations = IF active > @ THEN active ELSE @]
HydrationFinished == [metrics EXCEPT !.activeHydrations = @ - 1]
HydrationFailed(m) == [m EXCEPT !.hydrationFailures = @ + 1]
LaunchFailed == [metrics EXCEPT !.launchFailures = @ + 1]
ActivationCounted == [metrics EXCEPT !.activations = @ + 1, !.residents = @ + 1]
ForcedRetirement == [metrics EXCEPT !.forcedRetirements = @ + 1]
RetirementCounted == [metrics EXCEPT !.residents = @ - 1]

-----------------------------------------------------------------------------
(* activate *)

Suspended(t, kind, at) == t.kind \in kind /\ work[t].pc \in {"run", "retire"} /\ stage[t.slot] = at
Suspend(a, at) == stage' = [stage EXCEPT ![a] = at]

\* Mutant: a refused activation ends without being reported.
AcquireResidentSilent(t) ==
    LET a == t.slot
    IN  /\ Suspended(t, {"activate"}, "idle")
        /\ IF Cardinality(residents) < Residents
           THEN /\ residents' = residents \cup {a} /\ queue' = Append(queue, a) /\ Suspend(a, "queued")
                /\ UNCHANGED <<vars, metrics>>
           ELSE /\ metrics' = CapacityRefused
                /\ Goto(t, "done") /\ UNCHANGED <<stage, residents, queue, admission, publication, caller, future,
                   answer, observer, incarnation, mode, group, closing, result, panics, scenario, directoryVars>>
        /\ UNCHANGED <<hydrations, faults, receipts, notified>>

\* try_acquire_owned of a resident permit; then the activation waits for a hydration permit.
AcquireResident(t) ==
    LET a == t.slot
    IN  /\ Suspended(t, {"activate"}, "idle")
        /\ IF Cardinality(residents) < Residents
           THEN /\ residents' = residents \cup {a} /\ queue' = Append(queue, a) /\ Suspend(a, "queued")
                /\ UNCHANGED <<vars, metrics>>
           ELSE /\ metrics' = CapacityRefused
                /\ ActivateFails(t) /\ UNCHANGED <<stage, residents, queue>>
        /\ UNCHANGED <<hydrations, faults, receipts, notified>>

\* acquire_owned of a hydration permit, in turn, and HydrationMeasurement::begin.
AcquireHydration(t) ==
    LET a == t.slot
    IN  /\ Suspended(t, {"activate"}, "queued")
        /\ Head(queue) = a /\ Cardinality(hydrations) < ConcurrentHydrations
        /\ queue' = Tail(queue) /\ hydrations' = hydrations \cup {a}
        /\ metrics' = HydrationStarted
        /\ Suspend(a, "hydrating")
        /\ UNCHANGED <<vars, residents, faults, receipts, notified>>

\* The application's hydrate returns; HydrationMeasurement::drop comes before the permit's.
Hydrate(t, ok) ==
    /\ Suspended(t, {"activate"}, "hydrating")
    /\ ok \/ PortFails("activate")
    /\ metrics' = IF ok THEN HydrationFinished ELSE HydrationFailed(HydrationFinished)
    /\ Suspend(t.slot, IF ok THEN "hydrated" ELSE "unhydrated")
    /\ UNCHANGED <<vars, residents, hydrations, queue, faults, receipts, notified>>

\* An activation that fails drops what it holds before its error is submitted.
FailNatively(t) ==
    /\ residents' = residents \ {t.slot}
    /\ Suspend(t.slot, "idle")
    /\ ActivateFails(t)

\* The hydration permit is dropped: after an error with the resident permit, otherwise
\* before the address is allocated, which may be rejected.
ReleaseHydration(t) ==
    LET a == t.slot
    IN  /\ hydrations' = hydrations \ {a}
        /\ \/ Suspended(t, {"activate"}, "unhydrated") /\ FailNatively(t) /\ UNCHANGED metrics
           \/ /\ Suspended(t, {"activate"}, "hydrated") /\ Suspend(a, "launching")
              /\ UNCHANGED <<vars, residents, metrics>>
           \/ /\ Suspended(t, {"activate"}, "hydrated") /\ PortFails("activate")
              /\ FailNatively(t) /\ metrics' = LaunchFailed
        /\ UNCHANGED <<queue, faults, receipts, notified>>

\* launch_entity returns the actor: its binding is acknowledged and its lease owns the permit.
Launch(t) ==
    /\ Suspended(t, {"activate"}, "launching")
    /\ ActivateSucceeds(t)
    /\ metrics' = ActivationCounted
    /\ Suspend(t.slot, "idle")
    /\ UNCHANGED <<residents, hydrations, queue, faults, receipts, notified>>

\* launch_entity returns a spawn error, which from_launch retains.
LaunchRefused(t) ==
    /\ Suspended(t, {"activate"}, "launching")
    /\ PortFails("activate")
    /\ FailNatively(t) /\ metrics' = LaunchFailed
    /\ UNCHANGED <<hydrations, queue, faults, receipts, notified>>

-----------------------------------------------------------------------------
(* retire *)

\* What a retirement meets: callbacks and the shutdown conversion may panic, the actor task
\* may end without a result, its termination notification may fail.
Meets(a, fault) ==
    faults' = [faults EXCEPT ![a] = @ \cup (IF PortFails("retire") THEN fault ELSE {})]

\* Mutant: a retirement that panicked in its callbacks keeps the first of them only.
RetirementFailureFirst(found) ==
    IF "unavailable" \in found THEN [kind |-> "ActorRetirementUnavailable", kept |-> found]
    ELSE IF "request" \in found THEN [kind |-> "ShutdownRequestPanicked", kept |-> {"request"}]
    ELSE IF "forced" \in found THEN [kind |-> "ForcedRetirementPanicked", kept |-> {"forced"}]
    ELSE IF "retired" \in found THEN [kind |-> "RetirementPanicked", kept |-> {"retired"}]
    ELSE IF "notification" \in found THEN [kind |-> "TerminationNotificationFailed", kept |-> {"notification"}]
    ELSE NoFailure

\* EntityRetirementFailure: the first failure names the variant, whose fields keep the others.
RetirementFailure(found) ==
    LET keeps(kind, fields) == [kind |-> kind, kept |-> found \cap fields]
    IN  IF "unavailable" \in found
        THEN keeps("ActorRetirementUnavailable", {"unavailable", "notification", "request", "forced", "retired"})
        ELSE IF "request" \in found
        THEN keeps("ShutdownRequestPanicked", {"notification", "request", "forced", "retired"})
        ELSE IF "forced" \in found
        THEN keeps("ForcedRetirementPanicked", {"notification", "forced", "retired"})
        ELSE IF "retired" \in found
        THEN keeps("RetirementPanicked", {"notification", "retired"})
        ELSE IF "notification" \in found
        THEN keeps("TerminationNotificationFailed", {"notification"})
        ELSE NoFailure

\* retire up to the join of the actor task: forced_retirement only of a forced mode, then
\* the shutdown request, both caught.
BeginRetire(t) ==
    LET a == t.slot
        forced == mode[a] # Graceful
    IN  /\ Suspended(t, {"retire", "family"}, "idle") /\ work[t].pc = "retire"
        /\ metrics' = IF forced THEN ForcedRetirement ELSE metrics
        /\ \E fault \in SUBSET ({"request"} \cup (IF forced THEN {"forced"} ELSE {})) : Meets(a, fault)
        /\ Suspend(a, "joining")
        /\ UNCHANGED <<vars, residents, hydrations, queue, receipts, notified>>

\* The actor task was joined and the application's retired callback caught; the metrics
\* learn of the retirement before the permit is dropped.
JoinRetired(t) ==
    LET a == t.slot
    IN  /\ Suspended(t, {"retire", "family"}, "joining")
        /\ \E fault \in SUBSET {"unavailable", "notification", "retired"} : Meets(a, fault)
        /\ metrics' = RetirementCounted
        /\ Suspend(a, "joined")
        /\ UNCHANGED <<vars, residents, hydrations, queue, receipts, notified>>

\* The permit is dropped and retire_owned gets the outcome.
ReleaseResident(t) ==
    LET a == t.slot
        failure == RetirementFailure(faults[a])
    IN  /\ Suspended(t, {"retire", "family"}, "joined")
        /\ residents' = residents \ {a}
        /\ receipts' = [receipts EXCEPT ![a] = failure]
        /\ RetireOwned(t, failure # NoFailure)
        /\ Suspend(a, "idle")
        /\ UNCHANGED <<hydrations, queue, metrics, faults, notified>>
-----------------------------------------------------------------------------
(* Admission by actors *)

\* The admission of a command returned an error to the actor that emitted it.
Turned(c) ==
    /\ answer[c] \notin {"None", "Ok"} /\ caller.command # c
    /\ future[c].state \in {"waiting", "returned"}

\* EntityAdmission::interpret: the definition consumes a refusal, once the admission returned.
AdmissionRefused(c) ==
    /\ Turned(c) /\ c \notin notified
    /\ notified' = notified \cup {c}
    /\ UNCHANGED <<vars, stage, residents, hydrations, queue, metrics, faults, receipts>>

-----------------------------------------------------------------------------
(* Panics that nothing catches *)

\* Tasks that call what may panic: hydrate and the actor's launch, activation_failed, and the
\* waker of an answered caller.  retire catches every such call.
CallsApplication(t) ==
    \/ t.kind = "activate" /\ (work[t].pc = "run" => stage[t.slot] \in {"hydrating", "launching"})
    \/ t.kind = "deliver" /\ work[t].pc = "resolve"

\* Mutant: the permit of a hydration that panics is not returned.
NativePanicsLeak(t) ==
    LET a == t.slot
        activating == t.kind = "activate" /\ work[t].pc = "run"
    IN  /\ CallsApplication(t)
        /\ TaskPanics(t)
        /\ metrics' = IF stage[a] = "hydrating" THEN HydrationFinished ELSE metrics
        /\ hydrations' = IF activating THEN hydrations \ {a} ELSE hydrations
        /\ stage' = IF activating THEN [stage EXCEPT ![a] = "idle"] ELSE stage
        /\ UNCHANGED <<residents, queue, faults, receipts, notified>>

\* hydrate, launch or activation_failed panics: unwinding drops the measurement and both
\* permits.
NativePanics(t) ==
    LET a == t.slot
        activating == t.kind = "activate" /\ work[t].pc = "run"
    IN  /\ CallsApplication(t)
        /\ TaskPanics(t)
        /\ metrics' = IF stage[a] = "hydrating" THEN HydrationFinished ELSE metrics
        /\ hydrations' = IF activating THEN hydrations \ {a} ELSE hydrations
        /\ residents' = IF activating THEN residents \ {a} ELSE residents
        /\ stage' = IF activating THEN [stage EXCEPT ![a] = "idle"] ELSE stage
        /\ UNCHANGED <<queue, faults, receipts, notified>>

\* A shutdown call that unwinds drops the lease it holds, and the permit in it.
InterpreterPanics(p) ==
    /\ RejectPanics(p)
    /\ residents' = IF p \in Closers THEN residents \ {closing.retirement.activation} ELSE residents
    /\ UNCHANGED <<stage, hydrations, queue, metrics, faults, receipts, notified>>

-----------------------------------------------------------------------------
(* Specification *)

NativeStep(t) ==
    \/ AcquireResident(t) \/ AcquireHydration(t) \/ ReleaseHydration(t) \/ Launch(t) \/ LaunchRefused(t)
    \/ \E ok \in BOOLEAN : Hydrate(t, ok)
    \/ BeginRetire(t) \/ JoinRetired(t) \/ ReleaseResident(t)

NativeNext ==
    \/ RuntimeNext /\ UNCHANGED nativeVars
    \/ \E t \in Tasks : NativeStep(t) \/ NativePanics(t)
    \/ \E p \in Processes : InterpreterPanics(p)
    \/ \E c \in Commands : AdmissionRefused(c)

allVars == <<vars, nativeVars>>

\* Threads and the executor run every process that can run; hydrations, launches, mailboxes
\* and joins of actors that are being stopped return.
NativeFairness ==
    /\ WF_allVars(CallerStep /\ UNCHANGED nativeVars)
    /\ \A t \in Tasks : WF_allVars((OwnedStep(t) /\ UNCHANGED nativeVars) \/ NativeStep(t))
    /\ \A s \in Closers : WF_allVars(CloserStep(s) /\ UNCHANGED nativeVars)

NativeSpec == NativeInit /\ [][NativeNext]_allVars /\ NativeFairness

-----------------------------------------------------------------------------
(* Properties *)

Hydrating == {a \in Activations : stage[a] \in {"hydrating", "hydrated", "unhydrated"}}
Activation(a) == stage[a] \in {"queued", "hydrating", "hydrated", "unhydrated", "launching"}

\* Whatever fails, panics or retires, no permit leaks and none is given twice: a resident
\* permit is held exactly by the activations in progress and by the leases of living
\* incarnations, a hydration permit by the hydrations under way.  The metrics never show
\* more residents or more concurrent hydrations than the capacity allows, although they are
\* counted beside the semaphores.
CapacityExact ==
    /\ residents = {a \in Activations : Activation(a) \/ LesseeCount(a) = 1}
    /\ Cardinality(residents) <= Residents
    /\ hydrations = Hydrating
    /\ metrics.peakHydrations <= ConcurrentHydrations
    /\ metrics.residents = Cardinality({a \in Activations : Alive(a) /\ stage[a] # "joined"})
    /\ metrics.activations + metrics.hydrationFailures + metrics.launchFailures + metrics.capacityRefusals
          <= next - 1

\* Once an incarnation is retired its owner holds every fault the retirement met, each of
\* the panics included that were caught on the way, and the family is told of a failure
\* exactly when there was one.  A command whose refusal the definition consumed is nobody's
\* any more: it was not accepted and no slot, effect or task holds it.
FailuresRetained ==
    /\ \A a \in Activations : incarnation[a] = "Retired" =>
          /\ receipts[a].kept = faults[a]
          /\ (faults[a] # {}) <=> (a \in group.retirements)
    /\ \A c \in notified : answer[c] # "Ok" /\ OwnerCount(c) = 0

\* The native port is one that EntityRuntime allows: every step is a step of the runtime
\* over the abstract port, so what its invariants say holds of native families.
ImplementsPort == Spec

\* A caller that keeps waiting for its command, or for a retirement it began, is answered,
\* unless a panic took its publisher away; and a shutdown call that is not dropped returns,
\* whatever panicked before it: no wait for a permit, a hydration or an interpreter
\* outlives the family.
CallersAnswered ==
    /\ \A c \in Commands :
        future[c].state \in {"admitting", "waiting"} ~>
            answer[c] # "None" \/ future[c].state = "dropped" \/ panics > 0
    /\ \A o \in Observers : observer[o].state = "waiting" ~> observer[o].state = "done" \/ panics > 0
    /\ \A s \in Closers : work[s].pc = "claim" ~> work[s].pc \in Finished
=============================================================================
