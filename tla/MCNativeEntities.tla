-------------------------- MODULE MCNativeEntities --------------------------
(* Small instances of NativeEntities for TLC. *)
EXTENDS NativeEntities, TLC

CONSTANTS c1, c2, e1, e2, o1, s1

TwoEntities == {e1, e2}
TwoCommands == {c1, c2}
OneObserver == {o1}
OneCloser == {s1}

Capacity(r, h) == [residents |-> r, concurrentHydrations |-> h]

\* Callers that nobody drops, of every entity; a scenario changes what it is about.
Quiet ==
    [entities |-> Entities, passivated |-> {}, commands |-> Commands, droppable |-> {},
     observers |-> {}, closers |-> {}, fallible |-> {}, panics |-> 0, activations |-> MaxActivation,
     capacity |-> Capacity(MaxActivation + 1, 1)]

\* Two entities compete for the only resident permit, or for the only hydration permit, one
\* of them failing or panicking.
CapacityScenarios ==
    {[Quiet EXCEPT !.capacity = Capacity(1, 1), !.fallible = {"activate"}],
     [Quiet EXCEPT !.panics = 1]}

\* A retirement that somebody observes and that meets any faults, forced or not.
RetirementScenarios ==
    {[Quiet EXCEPT !.entities = {e1}, !.commands = {c1}, !.observers = Observers, !.activations = 1,
                   !.fallible = {"fence", "retire"}]}

\* The shutdown of a family whose activation fails or panics.
ShutdownScenarios ==
    {[Quiet EXCEPT !.entities = {e1}, !.commands = {c1}, !.closers = Closers, !.activations = 1,
                   !.panics = 1, !.fallible = {"activate", "deliver"}]}

AllScenarios == CapacityScenarios \cup RetirementScenarios \cup ShutdownScenarios
=============================================================================
