------------------------ MODULE NativeEntitiesProofs ------------------------
(***************************************************************************)
(* The native entity port refines the port of EntityRuntime: whatever the  *)
(* semaphores, hydrations, launches and caught panics of entity/bombay.rs  *)
(* do, the runtime sees calls that succeed, fail where the port may fail,  *)
(* or panic where it may panic.                                            *)
(***************************************************************************)
EXTENDS NativeEntities, FiniteSetTheorems, TLAPS

\* A leaf that names no prover is tried with SMT, then Zenon, then SMT twice more with more time.
USE SMTT(20), Zenon, SMTT(40), SMTT(60)

\* What retire catches.
Caught == {"request", "forced", "unavailable", "notification", "retired"}

Stages ==
    {"idle", "queued", "hydrating", "hydrated", "unhydrated", "launching", "joining", "joined"}

\* A refusal needs a full family, a failed hydration or retirement a port whose activate or
\* retire may fail: the permits belong to activations, and what went wrong was allowed to.
PortInv ==
    /\ scenario \in Scenarios
    /\ residents \subseteq Activations
    /\ stage \in [Activations -> Stages]
    /\ \A a \in Activations : stage[a] = "unhydrated" => PortFails("activate")
    /\ faults \in [Activations -> SUBSET Caught]
    /\ \A a \in Activations : faults[a] # {} => PortFails("retire")

-----------------------------------------------------------------------------
(* Facts about tasks, capacity and failures *)

LEMMA TaskSlot == \A t \in Tasks : t.slot \in Activations
  BY DEF Tasks, Task

\* Permits of a family that cannot be filled are never exhausted.
LEMMA PermitsLeft ==
    ASSUME NEW held, held \subseteq Activations, NEW limit \in Nat, limit > MaxActivation
    PROVE  Cardinality(held) < limit
  <1>1. /\ IsFiniteSet(Activations) /\ Cardinality(Activations) = MaxActivation
    BY MaxActivationAssumption, FS_Interval DEF Activations
  <1>2. /\ Cardinality(held) \in Nat /\ Cardinality(held) <= Cardinality(Activations)
    BY <1>1, FS_Subset, FS_CardinalityType
  <1>3. MaxActivation \in Nat
    BY MaxActivationAssumption
  <1>4. PICK n : n = Cardinality(held)
    OBVIOUS
  <1> QED
    BY <1>1, <1>2, <1>3, <1>4

\* A retirement that met nothing reports nothing.
LEMMA NothingMet == RetirementFailure({}) = NoFailure
  BY DEF RetirementFailure

-----------------------------------------------------------------------------
(* The scenario is chosen once *)

LEMMA InterpretScenario == ASSUME NEW p, InterpretStep(p) PROVE scenario' = scenario
  BY Zenon DEF InterpretStep, Acquire, Drained, InterpretSpawn, Track, InterpretReject, InterpretRemove

LEMMA OwnedScenario == ASSUME NEW t, OwnedStep(t) PROVE scenario' = scenario
  BY InterpretScenario, Zenon
     DEF OwnedStep, NotifyFailure, DeliverAccepted, DeliverResolves, FenceEnqueue, FenceAcknowledge,
         CompleteRetirement

LEMMA CloserScenario == ASSUME NEW s, CloserStep(s) PROVE scenario' = scenario
  BY InterpretScenario, Zenon
     DEF CloserStep, Claim, Settle, JoinOwned, RecordDrain, NextRow, RetireRow, RowsVisited, CheckPending,
         Complete

LEMMA EnvironmentScenario == ASSUME Environment PROVE scenario' = scenario
  BY Zenon DEF Environment, Receptionist, Admit, Passivate, RetireEntity, DropFuture, CloseAdmission, DropShutdown

LEMMA RuntimeScenario == ASSUME RuntimeNext PROVE scenario' = scenario
  <1>1. CASE CallerStep
    BY <1>1, InterpretScenario, Zenon DEF CallerStep, DispatchSubmit
  <1>2. CASE \E t \in Tasks : OwnedStep(t)
    BY <1>2, OwnedScenario
  <1>3. CASE \E s \in Closers : CloserStep(s)
    BY <1>3, CloserScenario
  <1>4. CASE Environment
    BY <1>4, EnvironmentScenario
  <1> QED
    BY <1>1, <1>2, <1>3, <1>4 DEF RuntimeNext

LEMMA VarsScenario == ASSUME UNCHANGED vars PROVE scenario' = scenario
  BY DEF vars, runtimeVars

-----------------------------------------------------------------------------
(* Every native step is one of the runtime over its abstract port *)

LEMMA AcquireMapped ==
    ASSUME PortInv, NEW t \in Tasks, AcquireResident(t) PROVE UNCHANGED vars \/ PortStep(t)
  <1>1. CASE Cardinality(residents) < Residents
    BY <1>1, Zenon DEF AcquireResident
  <1>2. CASE ~(Cardinality(residents) < Residents)
    <2>1. PortFails("activate")
      BY <1>2, PermitsLeft, CapacityAssumption DEF PortInv, Residents, PortFails
    <2>2. ActivateFails(t)
      BY <1>2, Zenon DEF AcquireResident
    <2> QED
      BY <2>1, <2>2 DEF PortStep
  <1> QED
    BY <1>1, <1>2

LEMMA ReleaseMapped ==
    ASSUME PortInv, NEW t \in Tasks, ReleaseResident(t) PROVE PortStep(t)
  <1> DEFINE failed == RetirementFailure(faults[t.slot]) # NoFailure
  <1>1. RetireOwned(t, failed)
    BY Zenon DEF ReleaseResident
  <1>2. CASE failed
    <2>1. PortFails("retire")
      BY <1>2, NothingMet, TaskSlot DEF PortInv
    <2>2. RetireOwned(t, TRUE)
      BY <1>1, <1>2, Zenon DEF RetireOwned
    <2> QED
      BY <2>1, <2>2 DEF PortStep
  <1>3. CASE ~failed
    <2>1. RetireOwned(t, FALSE)
      BY <1>1, <1>3, Zenon DEF RetireOwned
    <2> QED
      BY <2>1 DEF PortStep
  <1> QED
    BY <1>2, <1>3

LEMMA StepMapped ==
    ASSUME PortInv, NEW t \in Tasks, NativeStep(t) PROVE UNCHANGED vars \/ PortStep(t)
  <1>1. CASE AcquireResident(t)
    BY <1>1, AcquireMapped
  <1>2. CASE AcquireHydration(t)
    BY <1>2, Zenon DEF AcquireHydration
  <1>3. CASE ReleaseHydration(t)
    <2>1. \/ FailNatively(t) /\ PortFails("activate")
          \/ Suspended(t, {"activate"}, "unhydrated") /\ FailNatively(t)
          \/ UNCHANGED vars
      BY <1>3, Zenon DEF ReleaseHydration
    <2>2. Suspended(t, {"activate"}, "unhydrated") => PortFails("activate")
      BY TaskSlot, Zenon DEF Suspended, PortInv
    <2> QED
      BY <2>1, <2>2, Zenon DEF FailNatively, PortStep
  <1>4. CASE Launch(t)
    BY <1>4, Zenon DEF Launch, PortStep
  <1>5. CASE LaunchRefused(t)
    BY <1>5, Zenon DEF LaunchRefused, FailNatively, PortStep
  <1>6. CASE \E ok \in BOOLEAN : Hydrate(t, ok)
    BY <1>6, Zenon DEF Hydrate
  <1>7. CASE BeginRetire(t)
    BY <1>7, Zenon DEF BeginRetire
  <1>8. CASE JoinRetired(t)
    BY <1>8, Zenon DEF JoinRetired
  <1>9. CASE ReleaseResident(t)
    BY <1>9, ReleaseMapped
  <1> QED
    BY <1>1, <1>2, <1>3, <1>4, <1>5, <1>6, <1>7, <1>8, <1>9 DEF NativeStep

\* One step of the native family is one step of the runtime, or none.
LEMMA NextMapped == ASSUME PortInv, [NativeNext]_allVars PROVE [Next]_vars
  <1>1. CASE RuntimeNext /\ UNCHANGED nativeVars
    BY <1>1, Zenon DEF Next
  <1>2. CASE \E t \in Tasks : NativeStep(t)
    BY <1>2, StepMapped, Zenon DEF Next
  <1>3. CASE \E t \in Tasks : NativePanics(t)
    BY <1>3, Zenon DEF NativePanics, Next, Panics
  <1>4. CASE \E p \in Processes : InterpreterPanics(p)
    BY <1>4, Zenon DEF InterpreterPanics, Next, Panics
  <1>5. CASE \E c \in Commands : AdmissionRefused(c)
    BY <1>5, Zenon DEF AdmissionRefused
  <1>6. CASE UNCHANGED allVars
    BY <1>6 DEF allVars
  <1> QED
    BY <1>1, <1>2, <1>3, <1>4, <1>5, <1>6, Zenon DEF NativeNext

LEMMA NextScenario == ASSUME [Next]_vars PROVE scenario' = scenario
  <1>1. CASE RuntimeNext
    BY <1>1, RuntimeScenario
  <1>2. CASE Panics
    BY <1>2, Zenon DEF Panics, TaskPanics, RejectPanics
  <1>3. CASE \E t \in Tasks : PortStep(t)
    BY <1>3, Zenon DEF PortStep, ActivateSucceeds, ActivateFails, RetireOwned
  <1>4. CASE UNCHANGED vars
    BY <1>4, VarsScenario
  <1> QED
    BY <1>1, <1>2, <1>3, <1>4, Zenon DEF Next

-----------------------------------------------------------------------------
(* The invariant *)

\* What a step does to the permits, stages and faults, for the invariant.
PortStates ==
    /\ residents' \subseteq Activations
    /\ stage' \in [Activations -> Stages]
    /\ \A a \in Activations : stage'[a] = "unhydrated" => PortFails("activate")
    /\ faults' \in [Activations -> SUBSET Caught]
    /\ \A a \in Activations : faults'[a] # {} => PortFails("retire")

\* Moving one activation to another await.
LEMMA Suspends ==
    ASSUME PortInv, NEW a \in Activations, NEW at \in Stages, Suspend(a, at),
           at = "unhydrated" => PortFails("activate")
    PROVE  /\ stage' \in [Activations -> Stages]
           /\ \A b \in Activations : stage'[b] = "unhydrated" => PortFails("activate")
  BY DEF PortInv, Suspend

LEMMA SameStage ==
    ASSUME PortInv, UNCHANGED stage
    PROVE  /\ stage' \in [Activations -> Stages]
           /\ \A b \in Activations : stage'[b] = "unhydrated" => PortFails("activate")
  BY DEF PortInv

LEMMA SameFaults ==
    ASSUME PortInv, UNCHANGED faults
    PROVE  /\ faults' \in [Activations -> SUBSET Caught]
           /\ \A a \in Activations : faults'[a] # {} => PortFails("retire")
  BY DEF PortInv

\* Only a port whose retire may fail meets faults.
LEMMA MeetsFaults ==
    ASSUME PortInv, NEW a \in Activations, NEW fault \in SUBSET Caught, Meets(a, fault)
    PROVE  /\ faults' \in [Activations -> SUBSET Caught]
           /\ \A b \in Activations : faults'[b] # {} => PortFails("retire")
  <1>1. CASE PortFails("retire")
    BY <1>1 DEF PortInv, Meets
  <1>2. CASE ~PortFails("retire")
    <2>1. faults' = [faults EXCEPT ![a] = faults[a]]
      BY <1>2 DEF PortInv, Meets
    <2> QED
      BY <2>1 DEF PortInv
  <1> QED
    BY <1>1, <1>2

LEMMA StepStates == ASSUME PortInv, NEW t \in Tasks, NativeStep(t) PROVE PortStates
  <1> DEFINE a == t.slot
  <1>0. a \in Activations /\ residents \subseteq Activations
    BY TaskSlot DEF PortInv
  <1> HIDE DEF a
  <1>1. CASE AcquireResident(t)
    <2>1. CASE residents' = residents \cup {a} /\ Suspend(a, "queued") /\ UNCHANGED faults
      BY <1>0, <2>1, Suspends, SameFaults DEF PortStates, Stages
    <2>2. CASE UNCHANGED <<residents, stage, faults>>
      BY <1>0, <2>2, SameStage, SameFaults DEF PortStates
    <2> QED
      BY <1>1, <2>1, <2>2, Zenon DEF AcquireResident, a
  <1>2. CASE AcquireHydration(t)
    <2>1. Suspend(a, "hydrating") /\ UNCHANGED <<residents, faults>>
      BY <1>2, Zenon DEF AcquireHydration, a
    <2> QED
      BY <1>0, <2>1, Suspends, SameFaults DEF PortStates, Stages
  <1>3. CASE ReleaseHydration(t)
    <2>1. \/ Suspend(a, "idle") /\ residents' = residents \ {a}
          \/ Suspend(a, "launching") /\ UNCHANGED residents
      BY <1>3, Zenon DEF ReleaseHydration, FailNatively, a
    <2>2. UNCHANGED faults
      BY <1>3, Zenon DEF ReleaseHydration
    <2> QED
      BY <1>0, <2>1, <2>2, Suspends, SameFaults DEF PortStates, Stages
  <1>4. CASE Launch(t) \/ LaunchRefused(t)
    <2>1. /\ Suspend(a, "idle") /\ UNCHANGED faults
          /\ residents' = residents \/ residents' = residents \ {a}
      BY <1>4, Zenon DEF Launch, LaunchRefused, FailNatively, a
    <2> QED
      BY <1>0, <2>1, Suspends, SameFaults DEF PortStates, Stages
  <1>5. CASE \E ok \in BOOLEAN : Hydrate(t, ok)
    <2>1. \/ Suspend(a, "hydrated")
          \/ Suspend(a, "unhydrated") /\ PortFails("activate")
      BY <1>5 DEF Hydrate, a
    <2>2. UNCHANGED <<residents, faults>>
      BY <1>5, Zenon DEF Hydrate
    <2> QED
      BY <1>0, <2>1, <2>2, Suspends, SameFaults DEF PortStates, Stages
  <1>6. CASE BeginRetire(t)
    <2>1. Suspend(a, "joining") /\ UNCHANGED residents
      BY <1>6, Zenon DEF BeginRetire, a
    <2>2. \E fault \in SUBSET Caught : Meets(a, fault)
      BY <1>6 DEF BeginRetire, Caught, a
    <2> QED
      BY <1>0, <2>1, <2>2, Suspends, MeetsFaults DEF PortStates, Stages
  <1>7. CASE JoinRetired(t)
    <2>1. Suspend(a, "joined") /\ UNCHANGED residents
      BY <1>7, Zenon DEF JoinRetired, a
    <2>2. \E fault \in SUBSET Caught : Meets(a, fault)
      BY <1>7 DEF JoinRetired, Caught, a
    <2> QED
      BY <1>0, <2>1, <2>2, Suspends, MeetsFaults DEF PortStates, Stages
  <1>8. CASE ReleaseResident(t)
    <2>1. Suspend(a, "idle") /\ UNCHANGED faults /\ residents' = residents \ {a}
      BY <1>8, Zenon DEF ReleaseResident, a
    <2> QED
      BY <1>0, <2>1, Suspends, SameFaults DEF PortStates, Stages
  <1> QED
    BY <1>1, <1>2, <1>3, <1>4, <1>5, <1>6, <1>7, <1>8, Zenon DEF NativeStep

LEMMA PanicStates == ASSUME PortInv, NEW t \in Tasks, NativePanics(t) PROVE PortStates
  <1> DEFINE a == t.slot
  <1>1. a \in Activations /\ residents \subseteq Activations
    BY TaskSlot DEF PortInv
  <1>2. \/ Suspend(a, "idle") /\ residents' = residents \ {a}
        \/ UNCHANGED <<stage, residents>>
    BY Zenon DEF NativePanics, Suspend
  <1>3. UNCHANGED faults
    BY Zenon DEF NativePanics
  <1> HIDE DEF a
  <1> QED
    BY <1>1, <1>2, <1>3, Suspends, SameStage, SameFaults DEF PortStates, Stages

LEMMA PortInvStep == ASSUME PortInv, [NativeNext]_allVars PROVE PortInv'
  <1>1. scenario' = scenario
    BY NextMapped, NextScenario
  <1>2. PortStates
    <2>0. residents \subseteq Activations
      BY DEF PortInv
    <2>1. CASE UNCHANGED nativeVars
      <3>1. UNCHANGED <<stage, residents, faults>>
        BY <2>1 DEF nativeVars
      <3> QED
        BY <2>0, <3>1, SameStage, SameFaults DEF PortStates
    <2>2. CASE \E t \in Tasks : NativeStep(t)
      BY <2>2, StepStates
    <2>3. CASE \E t \in Tasks : NativePanics(t)
      BY <2>3, PanicStates
    <2>4. CASE \E p \in Processes : InterpreterPanics(p)
      <3>1. UNCHANGED <<stage, faults>> /\ residents' \subseteq residents
        BY <2>4 DEF InterpreterPanics
      <3> QED
        BY <2>0, <3>1, SameStage, SameFaults DEF PortStates
    <2>5. CASE \E c \in Commands : AdmissionRefused(c)
      <3>1. UNCHANGED <<stage, residents, faults>>
        BY <2>5, Zenon DEF AdmissionRefused
      <3> QED
        BY <2>0, <3>1, SameStage, SameFaults DEF PortStates
    <2>6. CASE UNCHANGED allVars
      BY <2>1, <2>6 DEF allVars
    <2> QED
      BY <2>1, <2>2, <2>3, <2>4, <2>5, <2>6, Zenon DEF NativeNext
  <1> QED
    BY <1>1, <1>2 DEF PortInv, PortStates, PortFails

LEMMA PortInvInit == ASSUME NativeInit PROVE PortInv
  BY DEF NativeInit, Init, PortInv, Stages

-----------------------------------------------------------------------------
(* The refinement *)

\* entity/bombay.rs implements the LocalEntityRuntime port as the runtime understands it, for
\* every number of entities, callers and activations and every capacity: each step of a
\* native family is a step of EntityRuntime over the abstract port or leaves its state alone.
\* A full residents semaphore shows as a failed activation, the callbacks retire catches show
\* as a failed retirement only where one is allowed, and a panic of hydrate or launch is the
\* task's.  What holds of the runtime over the abstract port holds of native families.
THEOREM PortImplemented == NativeSpec => ImplementsPort
  <1>1. NativeInit => PortInv /\ Init
    BY PortInvInit DEF NativeInit
  <1>2. PortInv /\ [NativeNext]_allVars => PortInv'
    BY PortInvStep
  <1>3. PortInv /\ [NativeNext]_allVars => [Next]_vars
    BY NextMapped
  <1> QED
    BY <1>1, <1>2, <1>3, PTL DEF NativeSpec, ImplementsPort, Spec
=============================================================================
