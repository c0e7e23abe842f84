-------------------------- MODULE MCEntityRuntime --------------------------
(* Small instances of EntityRuntime, and of another user of its directory, for TLC. *)
EXTENDS EntityRuntime, DirectoryUser, TLC

CONSTANTS c1, c2, e1, e2, o1, s1, s2, u1, u2, l1, l2, d1, d2

TwoEntities == {e1, e2}
TwoCommands == {c1, c2}
OneObserver == {o1}
TwoClosers == {s1, s2}
TwoOrders == {d1, d2}
TwoUsers == {u1, u2}
TwoLeases == {l1, l2}

\* Callers that nobody drops, of every entity; a scenario changes what it is about.
Quiet ==
    [entities |-> Entities, passivated |-> {}, commands |-> Commands, droppable |-> {},
     observers |-> {}, closers |-> {}, fallible |-> {}, panics |-> 0, users |-> {}, activations |-> MaxActivation]

\* Two entities whose activations fail and are claimed again, one of which is passivated.
FamilyScenarios == {[Quiet EXCEPT !.passivated = {e}, !.fallible = {"activate"}] : e \in Entities}

\* The shutdown of two entities.
ClosingScenarios == {[Quiet EXCEPT !.closers = {s}, !.fallible = {"activate", "fence"}] : s \in Closers}

\* One incarnation: a caller leaves while its command waits, is delivered or comes back.
DepartureScenarios ==
    {[Quiet EXCEPT !.entities = {e}, !.passivated = {e}, !.droppable = {c}, !.closers = {s}, !.activations = 1,
                   !.fallible = {"activate", "deliver", "fence"}] :
        e \in Entities, c \in Commands, s \in Closers}

\* One incarnation that retire_entity observes: every call of its drain fails or not.
RetirementScenarios ==
    {[Quiet EXCEPT !.entities = {e}, !.observers = Observers, !.closers = {s}, !.activations = 1,
                   !.fallible = {"deliver", "fence", "acknowledge", "retire"}] :
        e \in Entities, s \in Closers}

\* One incarnation and two shutdown calls: two panics, or one of a drain under way.
ShutdownScenarios ==
    {[Quiet EXCEPT !.entities = {e}, !.passivated = drains \cap {e}, !.closers = Closers, !.activations = 1,
                   !.panics = IF e \notin drains THEN 2 ELSE 1,
                   !.fallible = {"activate", "deliver"}] : <<e, drains>> \in Entities \X SUBSET Entities}

\* One entity of a directory whose user interprets the effects itself.
DirectScenarios == {[Quiet EXCEPT !.entities = {e}, !.commands = {}, !.users = Users] : e \in Entities}

AllScenarios ==
    FamilyScenarios \cup ClosingScenarios \cup DepartureScenarios \cup RetirementScenarios
        \cup ShutdownScenarios \cup DirectScenarios

\* Callers, entities and shutdown calls are interchangeable, and so are the scenarios.
Symmetry == Permutations(Commands) \cup Permutations(Closers) \cup Permutations(Entities)
                \cup Permutations(Users)

\* SlotDispatch lends a slot's queue to one thread at a time, whoever uses the directory, and
\* loses no effect of a thread that found the slot already dispatching (InterpreterExact).
SoleInterpreter ==
    \A a \in Activations :
        InterpreterExact(a, Interpreting(a) \cup Using(a, "drain"),
                            Acquiring(a) \cup Using(a, "interpret"))

\* The directory is exact whoever uses it: its entries route (RoutingExact), its queues have
\* one interpreter (SoleInterpreter), and it holds what its users gave it (FactsExact).
DirectoryExact == RoutingExact /\ SoleInterpreter /\ FactsExact

MCInit == Init /\ UserInit
MCNext ==
    \/ Next /\ UNCHANGED userVars
    \/ UserNext(scenario.users, scenario.entities) /\ UNCHANGED runtimeVars
MCSpec == MCInit /\ [][MCNext]_<<vars, userVars>>
=============================================================================
