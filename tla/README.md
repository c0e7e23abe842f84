# Verification of the Bombay actor runtime

TLA+ specifications of Bombay, model-checked with TLC and, where a result matters for
every size of the system, proved with TLAPS. Paths are relative to the repository;
`bombay/` stands for `crates/bombay/src/`. `PROJECT.json` maps every definition to the
lines it models and lists runs, hazards, findings and theorems.

## 1. The system

| Part | Source | Modules |
| --- | --- | --- |
| Driver: one causal loop over loaned slots | `crates/bombay-engine/src/driver.rs`, `environment.rs` | `Driver`, `CausalTurns` |
| One actor: ingress, event sources, interpretation, retirement, the join its owner gets | `bombay/local/` (`environment.rs`, `ingress.rs`, `launch.rs`, `termination.rs`, `terminal.rs`) | `LocalHost`, `TerminalProjection` |
| What an actor's actions do: children, deliveries, observations, timers, reports, workers | `bombay/local/effects/`, `children.rs` | `Capabilities`, `Children` |
| Entities: decisions of one slot, directory, runtime, native port | `bombay/entity/` | `EntityLifecycle`, `EntityDirectory`, `DirectoryUser`, `EntityRuntime`, `NativeEntities` |
| Observation: one completion slot, the keyed namespace of recycled slots | `bombay/observe/mod.rs` | `ObserveSlot`, `ObservationSpace` |
| Application: building, execution, outside callers | `bombay/application/` | `ApplicationBuilder`, `Application`, `ExternalActors` |
| Network: opening a node, exports, clients, the JSON profile | `bombay/application/node.rs`, `bombay/remote/` | `NodeStartup`, `RemoteExport`, `RemoteClient`, `ProtectedJson` |
| Macros | `crates/bombay-macros/src/` | `Topology`, `Derives` |

An actor is a Driver loaned by its task; the host behind the Driver's port is the local
environment, which reads the actor's mailbox and interprets its actions. Actors create
children and own them until they have joined. An entity is an actor activated on demand:
callers go through the entity runtime, which routes each command through the directory
slot of its identity, and the native port launches and retires the actors. An application
owns a root actor, the entity families and, on a node, exports (network requests become
commands of a local actor) and clients (messages of a local actor become network requests).
Outcomes travel through observation slots.

What makes it hard: futures may be dropped at every await; port calls, callbacks, wakers
and destructors may panic; several processes interpret the effects of one slot;
publication races registration; recycled slots, vacated rows and reactivated entities give
old references a second life; and nothing may be lost, duplicated or answered twice on any
of these paths.

Conventions. A step is what one task does between two awaits, or one critical section, or
one atomic operation where several threads meet. Code of users and of libraries is
external: it may take any result its type allows, bounded by a constant named `Faults`,
`Fallible` or the like. An operator whose comment starts with "Mutant:" is a plausible bug
that the property named in `PROJECT.json` catches; it is used by no specification.

## 2. Models and runs

Every run but three passes. Deadlock is checked for `tasks`; the other systems may
legitimately stop (everyone idle, every handle dropped, the application ended). Where one
run covers several independent parts, a variable `part` says which of them a behaviour
exercises; the others keep their initial state.

### Driver (`tasks`, `driver_cancelled_apply`)

`d` is a record with the slots of `struct Driver`, `pc` where the borrowing future stands;
`host`, `spent` and `lost` follow the product of every fold. A turn number stands for its
Actions, then for its Interpretation, then for its settlement. Each port call is a Call, the
host's Takes and Replies, and a Return, so that it can be cancelled or panic in between.
The host is any host, and a malformed one with `Malformed`. `CausalTurns` is the abstract
promise: a decision is committed before the next event is folded.

`tasks` checks `Custody` (no product of a fold disappears), `CausalOrder` (settlements wait
in causal order and a row taken out for its source still fits), `BarriersOnce`,
`FusedTerminal`, the refinement `OneCausalTurn`, and under weak fairness of the loaned
future and of the host `Replies`. Three turns suffice for a settlement to be retained, a
newer one to progress and a third decision to be taken. Loans are dropped at every await
except `apply`. `driver_cancelled_apply` drops them there too, and `OneCausalTurn` is
violated: a renewed loan finds an active phase without interpretation and asks for another
event (first finding).

### One actor (`local_host`, `capabilities`)

`LocalHost` has the actor's task, its owner, senders, a shutdown requester, capability tasks
and time. Launches as root, child and entity choose what is supplied and who calls.
`IngressConserved`: every accepted message is served, queued, or in the retirement the owner
is given, once and in order, and a fence is answered after what precedes it.
`AssertionsHold`: the code's `expect`s and `unreachable!` arms. `HonestReport`: what owners
and observers are told is what happened. `HostReturns`, under weak fairness of the actor, its
owner and the end of capability tasks: a requested retirement ends, and no queued item starves
behind recurring deadlines, task events and controls. Capacity 2 and two admissions fill a
lane and race the drain.

`Capabilities` runs scripts of action items, one per family of handlers, over the registry
of `Children`. `ChildrenExact`: after retirement every child ever spawned has joined and is
accounted for. `SignalsExact`: relationships are exact, reports come before the end.
`MessageCustody`: a message is in one place. `RetirementReturns`, under weak fairness of the
actor, of each child and of observation tasks; a user's worker, a report or a drop need not
happen. Scripts name two children, three routes, one observation id used twice and a mailbox
of one slot.

### Entities (`entity`, `entity_native`)

`EntityLifecycle` is the pure decision function: next slot, ordered effects, evidence.
`EntityDirectory` holds the slots, their effect queues and the one dispatcher of each.
`EntityRuntime` runs it with the thread that holds the admission mutex (`Caller`), the
shutdown calls (`Closers`) and the owned tasks; `DirectoryUser` is a less disciplined user of
the public directory, who submits late and repeated facts. A scenario, chosen in `Init`, says
who calls for which entities, which port calls may fail and how many panics happen.

`Custody`: a command has one owner until it is answered and none afterwards, and a living
lease one owner. `DirectoryExact`: exact routing, one interpreter per queue. `HonestRetirement`:
reservations count unresolved deliveries, so a fence is the last message, and a retirement is
called graceful only if it was. `ShutdownExact`: a closed family is quiescent and its result
exact. Two entities, commands, activations and closers; a waiter limit of 1 puts the queue at
its limit; two panics are the smallest number that leaves effects behind after the first pass
over the rows. Symmetry is over commands, entities, closers and users, and the set of
scenarios is closed under it.

`NativeEntities` refines the port: resident and hydration permits, hydration, launch, and
retirement around callbacks that may panic. `CapacityExact`: no permit leaks or is given
twice. `FailuresRetained`: every fault a retirement met is in its receipt. `ImplementsPort`:
the native port is one `EntityRuntime` allows. `CallersAnswered`, under weak fairness of every
process and port call: callers and observers are answered unless a panic took their publisher,
and shutdown returns.

### Observation (`observation`)

`ObserveSlot` takes one step per atomic operation on the state word or critical section of
the waiter mutex, for blocked threads, polled futures, affine futures and adapters; wakers are
compared by `will_wake` and may panic. `WaitersExact`: no lost wakeup, exact registry.
`OutcomeOnce`: the outcome is read only while it is in its cell and leaves it once.
`WaitersServed`, with woken tasks scheduled again. Observers meet only in the registry, so the
run has every pair of kinds; one spurious wakeup bounds the adversary, not the code.
`ObservationSpace` has the key table (inline and promoted), the pool and every Arc;
`GenerationsExact` says that no generation reaches another's row, outcome, waker or disposal.
Three generations let a slot be used, recycled and used again while another is live; `Hostile`
generations have destructors that panic inside `reset`. Memory is sequentially consistent.

### Application and outside callers (`application`)

`Application` has four tasks that meet through oneshot channels: the execution (dropped or
unwound at every await), the root actor, the cleanup task and the receiving future, through
every entry point and the runs of a Node. `HonestOutcome`: the received outcome says what
happened. `WorkBarrier`: the root and the families are released only when no work can still
use them; a node closes only once nothing serves its exports. `ExternalActors` has callers
with an address and a bounded reply mailbox; `CallersExact` says that addresses are never
shared or reissued and letters are in one place. `ApplicationBuilder` assembles scopes,
members and families; `BuildExact` says that one address source serves them all and mailboxes
have the selected sizes. The three parts are disjoint behaviours of one run. Fairness
(`ApplicationReturns`): tasks are polled, an actor whose owner cancels it retires, and a server
whose root has terminated returns; nothing else is forced.

### Remote (`remote_export`, `remote_export_withdrawal`, `tasks`)

`RemoteExport` has the native callback that charges and queues queries, the rows of `serving`
with their request futures, the target's mailbox, `publish`, `discharge` and the withdrawal.
Three of four queries arrive, a request, its repetition, a conflicting one and another
request, over two rows, two retained queries and one queue slot, so rows are vacated and
reused. `OneExecution`, `QueryCustody`; `ServeReturns` under weak fairness of the serving task
only. `remote_export_withdrawal` violates `WithdrawalPreserved` (second finding): a policy that
panics while serving finishes its last requests loses the result of a withdrawal already made.

`RemoteClient` has the source of messages, the rows with their operations, the native callback
on its own thread and the delivery of replies to a mailbox of one slot: three messages over two
rows and one permit, three replies, every fault. `RepliesOnce`: no reply is delivered twice,
and only verified and decoded ones are. `ClientCustody`: messages, replies and charges are
accounted for. `ClientReturns` also needs the network to drop its callbacks in the end, as its
queries time out. The client shares `tasks` with the Driver: both are state machines that one
task carries from await to await; no client is stuck before its parts are taken.

### Declarations (`declarations`, `declarations_names`)

Pure algorithms on their own small inputs, each against a reference definition.
`ExpansionExact`: `topology!` accepts exactly the closed graphs and expands them into a closed
module, in which every occurrence of a class is checked against its type but for the one that
defines it, and the derives generate what an item declares. Topologies have up to three classes
and three edges, cold products of three members, hydrated classes, clashing labels, roles and
hosts, and classes named after another's custody. `declarations_names` violates `NamesDistinct`
(third finding): the failure enum of a class is named after its label without trailing
`retirements`, and the macro compares the labels themselves, so two accepted classes with two
rows each can generate one name twice. `ExpansionExact` claims distinct names for everything but
the failure enums. `StartupExact`: `open_node` configures a session by exactly what the caller
supplied and the fixed settings of the closed profile, and each of its eight refusals hands the
Application and the Network back; they are lost only with an opening that the caller drops.
Two openings let a caller amend what was handed back. `ProfileExact`: the JSON check accepts
exactly its profile.

## 3. Proofs

Each theorem holds for every value of the constants that satisfies the named assumptions of
its module; the runs check the same definition on a small instance.

| Theorem | Statement | Inductive invariant |
| --- | --- | --- |
| `DriverProofs`: `TypeCorrect`, `BarrierOnce`, `RunningOwner`, `TerminalFused` | `TypeOK`, `BarriersOnce`, a running phase owns its environment, `FusedTerminal` | `IInv` |
| `DriverCustodyProofs`: `TurnsRefined`, `CustodyKept` | `OneCausalTurn`, `Custody`, if `"apply" \notin CancelPoints` | `TurnInv`; `SlotsInv`, `Covered` |
| `DriverOrderProofs`: `OrderKept` | `CausalOrder`, under the same hypothesis | `OrderInv` |
| `ObserveSlotProofs`: `OutcomeKept`, `WaitersKept` | `OutcomeOnce`, `WaitersExact` | `CellInv`; `WaitInv` |
| `ObservationSpaceProofs`: `GenerationsKept` | `GenerationsExact` | `SpaceInv` |
| `RemoteExportProofs`: `ExecutionOnce`, `QueriesKept` | `OneExecution`, `QueryCustody` | `ExportInv` |
| `RemoteClientProofs`: `DeliveredOnce`, `ClientKept` | `RepliesOnce`, `ClientCustody` | `ClientInv` |
| `NativeEntitiesProofs`: `PortImplemented` | `ImplementsPort` | `PortInv` |

**Driver.** Whether `publish` may be called again depends on the phase, on the program counter
and on who holds the environment, so `IInv` says per phase what the slots and call counters
must be. `DriverProofs` ends with an *effect* lemma per action, which the other two modules use
instead of the action. `TurnInv` says that a decision is outstanding from its fold until its
interpretation is classified, and that no event is requested meanwhile; with it every step is a
step or a stutter of `CausalTurns`. Custody follows every turn through slots, host, residual,
`spent` and `lost` (`Covered`), for which `SlotsInv` says which slots are empty when they are
about to be filled. Order adds that all rows before an offered or awaiting one are retained and
that rows are older than the turn being applied. The hypothesis that no loan is dropped inside
`apply` is needed: `driver_cancelled_apply` is the counterexample without it.

**Observation slot.** `CellInv` ties the cell to how far the publisher came and who still holds
an Arc. `WaitInv` says where every observer is registered, that an entry counts exactly the
futures that own it, and who will wake an observer whose entry was taken: the list being
notified, or its token. Registries are sequences from which positions are retained; the lemmas
describe them by the view of one waker.

**Observation space.** `SpaceInv` says that the table has exactly the rows of the live
generations, that a slot has at most one current generation, that pooled slots are pristine and
unreferenced, and that a generation's outcome is disposed of only after it lost its slot.

**Remote export.** `ExportInv`: at most one canonical row per request, admissions counted by its
stage, replies made by completed canonical rows (`Executions`); charged queries are queued or
owned by one row and unanswered (`Queried`); nothing is queued outside serving (`Closed`).
`RowContinues` reduces every step of a request future to what it does to one row.

**Remote client.** `ClientInv`: the rows are the accepted messages in order, each consistent with
its stage, its charges and its callback (`RowOK`), deliveries are of rows that have issued their
Get, and the phase says which rows may still run.

**Native port.** Every native step is a step of `EntityRuntime` over the abstract port or leaves its
state alone. `PortInv` is what this needs from earlier steps: permits belong to activations, a
failed hydration or a fault met by a retirement was allowed by the scenario. `CapacityAssumption`
says that a family that can be filled has a port whose `activate` may fail: a refused permit is
such a failure. So invariants of `EntityRuntime` are invariants of native families.

**Only model-checked.** All liveness and everything with fairness: the prover has no ENABLED.
The macros, `NodeStartup` and `ProtectedJson`, where the result is what a recursion over the
input computes, which the installed provers cannot induct over. The invariants of `LocalHost`,
`Capabilities`, `Application`, `ExternalActors`, `ApplicationBuilder` and `EntityRuntime`, and
`CapacityExact` and `FailuresRetained` of `NativeEntities`: they relate most of the variables
of the largest modules, and an inductive invariant for them has not been attempted. `Children`,
`LocalHost` and the macros use the sequence library, whose definitions slow every proof step.

## 4. Observations

Made while modelling, without a run of their own:

- In `topology!` the rejection "actor class requires a birth occurrence" is never reached, and
  type inference depends on the order of clauses.
- In the entity runtime, `retire_stale`, the branches of `interpret_effect` for a slot without
  state and the superseded result of `passivate` cannot be reached: the admission mutex and the
  removal of an entry before its successor rule them out. `retire_entity` may return before the
  removal of its entry is interpreted; its observation still reports the right mode.
- A publisher that a panicking deliver or retire task drops (`bombay/entity/runtime.rs`, around
  1170) leaves its observation pending, as the contract allows; effects a panic leaves behind
  wait for the next process that interprets the slot. Liveness properties therefore except panics.

## 5. Not modelled

- Weak memory: the orderings of the state word are left to the repository's loom and Miri tests.
- `SlotState::Poisoned`, exhausted dispatch identities, the returned value of passivation, the
  non-atomic snapshot of the metrics, and the visibility of outside callers.
- Bounds in the where-clauses that `topology!` generates; what Rust itself checks of an expansion.
- Typed builders, the wire encoding of metadata, the routing of action items by type, the
  benchmark and the mutation gate: types, pure data or tooling without state of the system.
- Two actors that wait for each other's full mailbox (parent and child, client and root): each
  model has one of them, the other being external.

## 6. Running the checks

    tlc -config MCTasks.cfg MCTasks            # and the other pairs of PROJECT.json
    tlapm DriverProofs.tla                     # and the other *Proofs modules

Each run takes between a few seconds and four minutes on two cores, each proof module between
one and twenty minutes.
