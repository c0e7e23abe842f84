---------------------------- MODULE EntityRuntime ----------------------------
(***************************************************************************)
(* The local entity runtime (entity/runtime.rs over entity/directory.rs):  *)
(* callers admit commands under one admission mutex, the sharded directory *)
(* routes them to stable slots, every slot queues the effects of its       *)
(* decisions and lends the queue to one interpreter at a time, effects     *)
(* become owned tasks, and an affine shutdown joins the tasks and drains   *)
(* the family.                                                             *)
(*                                                                         *)
(* What lies behind the LocalEntityRuntime port is abstract here: its      *)
(* calls succeed, fail, or panic.                                          *)
(***************************************************************************)
EXTENDS EntityDirectory

CONSTANTS
    Commands,           \* each command is admitted by its own caller
    Observers,          \* callers of retire_entity
    Closers,            \* callers of shutdown
    Scenarios,          \* what one run's callers and port may do, see scenario
    Caller,             \* the thread that holds the admission mutex
    NoTask, NoCommand, NoEntity, NoCloser

VARIABLES
    scenario,           \* [entities, passivated, commands, droppable, observers, closers,
                        \*  fallible, panics, activations]: who calls and for which entities,
                        \* which futures are dropped, which port calls fail, and the bounds
    admission,          \* EntityAdmission
    publication,        \* SlotExecution.retirement is Some
    work,               \* program counter, slot and untracked child of every process
    caller,             \* what the holder of the admission mutex came for
    future,             \* the DispatchWait of every command
    answer,             \* what the publisher of every command completed with
    observer,           \* the slot every retire_entity call waits for, and its result
    incarnation,        \* external: what the port's incarnation of a slot has done
    mode,               \* the mode the retirement task of a slot owns (Graceful when none)
    group,              \* EntityTaskGroup
    closing,            \* locals of the claimed shutdown call
    result,             \* EntityShutdown of every closer
    panics              \* panics so far

runtimeVars ==
    <<scenario, admission, publication, work, caller, future, answer, observer, incarnation, mode,
      group, closing, result, panics>>
vars == <<runtimeVars, directoryVars>>

\* The LocalEntityRuntime port: a call may return its error, and any call may panic.
PortFails(call) == call \in scenario.fallible
MayPanic == panics < scenario.panics

\* The futures given to spawn_owned.
Task(kind, a, c) == [kind |-> kind, slot |-> a, command |-> c]
Tasks ==
    {Task(kind, a, NoCommand) : kind \in {"activate", "fence", "retire", "family"}, a \in Activations}
        \cup {Task("deliver", a, c) : a \in Activations, c \in Commands}
Processes == {Caller} \cup Closers \cup Tasks

Idle == [pc |-> "idle", slot |-> NoActivation, child |-> NoTask]
Failed == {"failed", "unwound"}         \* panicked in a port call or waker, or while interpreting
Finished == {"done"} \cup Failed

\* Tasks whose guard is alive: EntityTaskState.active counts them.
Live == {t \in Tasks : work[t].pc \notin {"idle"} \cup Finished}

\* EntityTaskGroup::new
NewGroup ==
    [open |-> TRUE, claim |-> NoCloser, tracked |-> {}, claimed |-> {}, joined |-> {},
     drained |-> FALSE, rows |-> {}, retired |-> {}, retirements |-> {}]

\* A DispatchWait, or its caller before it has one.
Wait(state, e, a) == [state |-> state, entity |-> e, activation |-> a]

\* EntityRuntime::new
Init ==
    /\ scenario \in Scenarios
    /\ DirectoryInit
    /\ admission = "Open"
    /\ publication = [a \in Activations |-> FALSE]
    /\ work = [p \in Processes |-> Idle]
    /\ caller = [command |-> NoCommand, entity |-> NoEntity]
    /\ future = [c \in Commands |-> Wait("new", NoEntity, NoActivation)]
    /\ answer = [c \in Commands |-> "None"]
    /\ observer = [o \in Observers |-> [slot |-> NoActivation, state |-> "new", mode |-> Graceful]]
    /\ incarnation = [a \in Activations |-> "None"]
    /\ mode = [a \in Activations |-> Graceful]
    /\ group = NewGroup
    /\ closing = [pass |-> 1, todo |-> {}, retirement |-> NoIncarnation]
    /\ result = [s \in Closers |-> "None"]
    /\ panics = 0

-----------------------------------------------------------------------------
(* Interpreters of slots *)

Goto(p, pc) == work' = [work EXCEPT ![p].pc = pc]
Interpret(p, a) == work' = [work EXCEPT ![p] = [@ EXCEPT !.pc = "interpret", !.slot = a]]

\* Where a process continues once it has interpreted a slot.
AfterInterpretation(p) ==
    CASE p = Caller -> "idle"
      [] p \in Closers -> IF closing.retirement = NoIncarnation THEN "nextRow" ELSE "row"
      [] p \in Tasks /\ p.kind = "activate" ->
            IF incarnation[p.slot] = "None" THEN "notify" ELSE "done"
      [] p \in Tasks /\ p.kind \in {"deliver", "fence"} -> "done"
      [] p \in Tasks /\ p.kind \in {"retire", "family"} -> "publish"

\* The holder of the admission mutex is done: a command it admitted now waits.
Release(p) ==
    IF p = Caller THEN caller' = [command |-> NoCommand, entity |-> NoEntity]
    ELSE UNCHANGED caller

Leave(p) == Goto(p, AfterInterpretation(p)) /\ Release(p)

\* Mutant: every interpreter takes the queue.
AcquireAlways(p) ==
    /\ work[p].pc = "interpret"
    /\ dispatching' = [dispatching EXCEPT ![work[p].slot] = TRUE]
    /\ Goto(p, "drain")
    /\ UNCHANGED <<scenario, admission, directory, next, slots, pending, publication, caller, future, answer,
                   observer, incarnation, mode, group, closing, result, panics>>

\* Slot::dispatch_pending: who does not get the queue leaves it to its interpreter.
Acquire(p) ==
    LET a == work[p].slot
    IN  /\ work[p].pc = "interpret"
        /\ IF dispatching[a]
           THEN Leave(p) /\ UNCHANGED dispatching
           ELSE AcquireDispatch(a) /\ Goto(p, "drain") /\ UNCHANGED caller
        /\ UNCHANGED <<scenario, admission, directory, next, slots, pending, publication, future, answer,
                       observer, incarnation, mode, group, closing, result, panics>>

\* Mutant: the interpreter leaves the slot marked as dispatching.
DrainedDispatching(p) ==
    /\ work[p].pc = "drain"
    /\ pending[work[p].slot] = <<>>
    /\ Leave(p)
    /\ UNCHANGED <<scenario, admission, directory, next, slots, pending, dispatching, publication, future,
                   answer, observer, incarnation, mode, group, closing, result, panics>>

\* Slot::dispatch_pending finds the queue empty.
Drained(p) ==
    LET a == work[p].slot
    IN  /\ work[p].pc = "drain"
        /\ ~HasPending(a)
        /\ ReleaseDispatch(a)
        /\ Leave(p)
        /\ UNCHANGED <<scenario, admission, directory, next, slots, pending, publication, future, answer,
                       observer, incarnation, mode, group, closing, result, panics>>

\* Slot::dispatch_pending hands the next effect to interpret_effect.
Pop(p, effects) == work[p].pc = "drain" /\ PopEffect(work[p].slot, effects)

\* The task an effect becomes, and where it starts.
ChildOf(e) ==
    CASE e.effect = "StartActivation" -> Task("activate", e.activation, NoCommand)
      [] e.effect = "Deliver" -> Task("deliver", e.activation, e.command)
      [] e.effect = "EnqueueFence" -> Task("fence", e.activation, NoCommand)
      [] e.effect = "Retire" -> Task("retire", e.activation, NoCommand)

\* spawn_owned up to the registration of the handle: the child runs, untracked.
Spawn(p, child, pc, start) ==
    work' = [work EXCEPT ![p] = [@ EXCEPT !.pc = pc, !.child = child],
                         ![child] = [@ EXCEPT !.pc = start, !.slot = child.slot]]

\* interpret_effect of an effect that becomes a task; a closed slot drops StartActivation.
InterpretSpawn(p) ==
    LET e == Head(pending[work[p].slot])
        child == ChildOf(e)
    IN  /\ Pop(p, {"StartActivation", "Deliver", "EnqueueFence", "Retire"})
        /\ IF p \in Closers /\ e.effect = "StartActivation"
           THEN UNCHANGED <<work, mode>>
           ELSE /\ Spawn(p, child, "track", IF e.effect = "Retire" THEN "retire" ELSE "run")
                /\ mode' = IF e.effect = "Retire" THEN [mode EXCEPT ![e.activation] = e.mode] ELSE mode
        /\ UNCHANGED <<scenario, admission, directory, next, slots, dispatching, publication, caller, future,
                       answer, observer, incarnation, group, closing, result, panics>>

\* EntityTaskGroup::track
Track(p) ==
    /\ work[p].pc \in {"track", "trackRow"}
    /\ group' = [group EXCEPT !.tracked = @ \cup {work[p].child}]
    /\ work' = [work EXCEPT ![p] = [@ EXCEPT !.child = NoTask,
                                             !.pc = IF @ = "track" THEN "drain" ELSE "nextRow"]]
    /\ UNCHANGED <<scenario, admission, directory, next, slots, pending, dispatching, publication, caller,
                   future, answer, observer, incarnation, mode, closing, result, panics>>

\* interpret_effect of Reject: the publisher completes with the returned command.
InterpretReject(p) ==
    LET e == Head(pending[work[p].slot])
    IN  /\ Pop(p, {"Reject"})
        /\ answer' = [answer EXCEPT ![e.command] = e.reason]
        /\ UNCHANGED <<scenario, admission, directory, next, slots, dispatching, publication, work, caller,
                       future, observer, incarnation, mode, group, closing, result, panics>>

\* EntityTaskGroup::retain_retired: only a slot that owns a retirement failure keeps its row.
RetainRetired(a) ==
    IF a \in group.retirements THEN [group EXCEPT !.retired = @ \cup {a}] ELSE group

\* interpret_effect of Remove
InterpretRemove(p) ==
    LET a == work[p].slot
    IN  /\ Pop(p, {"Remove"})
        /\ directory' = TakeSlot(a)
        /\ group' = IF a \in Represented THEN RetainRetired(a) ELSE group
        /\ UNCHANGED <<scenario, admission, next, slots, dispatching, publication, work, caller, future,
                       answer, observer, incarnation, mode, closing, result, panics>>

\* EntityShutdownClaim::drop: the handles go back, joined or not.
Unclaimed ==
    [group EXCEPT !.tracked = @ \cup group.claimed, !.claimed = {}, !.claim = NoCloser]

\* SlotDispatch::drop while unwinding: the rest of the queue stays, without interpreter.
\* A caller drops its future, a task fails, a shutdown call drops its claim.
Unwind(p) ==
    /\ ReleaseDispatch(work[p].slot)
    /\ Goto(p, IF p = Caller THEN "idle" ELSE "unwound")
    /\ Release(p)
    /\ future' = IF p = Caller /\ caller.command # NoCommand
                 THEN [future EXCEPT ![caller.command].state = "dropped"] ELSE future
    /\ group' = IF p \in Closers THEN Unclaimed ELSE group
    /\ result' = IF p \in Closers THEN [result EXCEPT ![p] = "Panicked"] ELSE result

\* The waker of a rejected caller panics after the answer is published.
RejectPanics(p) ==
    LET e == Head(pending[work[p].slot])
    IN  /\ MayPanic
        /\ Pop(p, {"Reject"})
        /\ answer' = [answer EXCEPT ![e.command] = e.reason]
        /\ panics' = panics + 1
        /\ Unwind(p)
        /\ UNCHANGED <<scenario, admission, directory, next, slots, publication, observer, incarnation, mode,
                       closing>>

-----------------------------------------------------------------------------
(* Callers: all of them hold the admission mutex until they leave the interpreter *)

AdmissionFree == work[Caller].pc = "idle"

\* An event a caller submits matters when its slot does not ignore it, or when the caller
\* would interpret effects that are queued without interpreter.
Matters(a, ev) == Decide(slots[a], ev).evidence # "Ignored" \/ (HasPending(a) /\ ~dispatching[a])

\* A command handed back before any slot owns it.
ReturnAtOnce(c, reason) ==
    /\ answer' = [answer EXCEPT ![c] = reason]
    /\ future' = [future EXCEPT ![c].state = "returned"]
    /\ UNCHANGED <<directory, next, slots, pending, work, caller>>

\* The first caller of an entity installs its slot, or is told that no identity is left.
InstallSlot(c, e) ==
    IF Exhausted(scenario.activations) THEN ReturnAtOnce(c, "ActivationIdsExhausted")
    ELSE /\ Install(e, c)
         /\ future' = [future EXCEPT ![c] = Wait("waiting", e, next)]
         /\ caller' = [command |-> c, entity |-> e]
         /\ Interpret(Caller, next)
         /\ UNCHANGED answer

\* LocalDirectory::dispatch on a mapped entry: the shard lock is dropped before the slot
\* decides.
Select(c, e) ==
    /\ caller' = [command |-> c, entity |-> e]
    /\ future' = [future EXCEPT ![c].state = "admitting"]
    /\ work' = [work EXCEPT ![Caller] = [@ EXCEPT !.pc = "submit", !.slot = directory[e]]]
    /\ UNCHANGED <<directory, next, slots, pending, answer>>

\* EntityRuntime::admit up to the slot it selects.
Admit(c, e) ==
    /\ AdmissionFree
    /\ future[c].state = "new"
    /\ IF admission = "Closed" THEN ReturnAtOnce(c, "Shutdown")
       ELSE IF ~Mapped(e) THEN InstallSlot(c, e)
       ELSE Select(c, e)
    /\ UNCHANGED <<scenario, admission, dispatching, publication, observer, incarnation, mode, group, closing,
                   result, panics>>

\* Slot::submit of the dispatch, and the DispatchWait built from its decision.
DispatchSubmit ==
    LET a == work[Caller].slot
        c == caller.command
        ev == Dispatch(c)
    IN  /\ work[Caller].pc = "submit"
        /\ Submit(a, ev)
        /\ future' = [future EXCEPT ![c] =
                       Wait("waiting", caller.entity, Decide(slots[a], ev).state.activation)]
        /\ Interpret(Caller, a)
        /\ UNCHANGED <<scenario, admission, directory, next, dispatching, publication, caller, answer,
                       observer, incarnation, mode, group, closing, result, panics>>

\* DispatchWait::drop of an unanswered future: the waiter is cancelled unless the family
\* is closing.  (Once answered, no slot holds the command and the cancellation is ignored.)
DropFuture(c) ==
    LET f == future[c]
        a == directory[f.entity]
        ev == CancelWaiter(f.activation, c)
    IN  /\ AdmissionFree
        /\ f.state = "waiting" /\ answer[c] = "None"
        /\ future' = [future EXCEPT ![c].state = "dropped"]
        /\ IF /\ admission = "Open" /\ f.activation # NoActivation
              /\ Mapped(f.entity) /\ Matters(a, ev)
           THEN Submit(a, ev) /\ Interpret(Caller, a)
           ELSE UNCHANGED <<slots, pending, work>>
        /\ UNCHANGED <<scenario, admission, directory, next, dispatching, publication, caller, answer,
                       observer, incarnation, mode, group, closing, result, panics>>

\* EntityRuntime::passivate.  current_activation and begin_drain read the entry twice, but
\* under the admission mutex the entry can only disappear in between.
Passivate(e) ==
    LET a == directory[e]
        ev == BeginDrain(CurrentActivation(e))
    IN  /\ AdmissionFree
        /\ admission = "Open"
        /\ CurrentActivation(e) # NoActivation
        /\ Matters(a, ev)
        /\ Submit(a, ev)
        /\ Interpret(Caller, a)
        /\ UNCHANGED <<scenario, admission, directory, next, dispatching, publication, caller, future, answer,
                       observer, incarnation, mode, group, closing, result, panics>>

\* EntityRuntime::retire_entity, refused or with one observation per slot.
RetireEntity(o, e) ==
    LET a == directory[e]
    IN  /\ AdmissionFree
        /\ observer[o].state = "new"
        /\ IF admission = "Closed" \/ ~Mapped(e) \/ ~Retirable(a)
           THEN /\ observer' = [observer EXCEPT ![o].state = "refused"]
                /\ UNCHANGED <<slots, pending, publication, work>>
           ELSE /\ observer' = [observer EXCEPT ![o] = [@ EXCEPT !.state = "waiting", !.slot = a]]
                /\ publication' = [publication EXCEPT ![a] = TRUE]
                /\ Submit(a, BeginDrain(slots[a].activation))
                /\ Interpret(Caller, a)
        /\ UNCHANGED <<scenario, admission, directory, next, dispatching, caller, future, answer, incarnation,
                       mode, group, closing, result, panics>>
-----------------------------------------------------------------------------
(* Owned tasks *)

\* A task submits a fact to its slot and becomes one of the slot's interpreters.
SubmitAndInterpret(t, ev) == Submit(t.slot, ev) /\ Interpret(t, t.slot)

\* StartActivation's task after port.activate: an incarnation and its lease, or an error.
ActivateSucceeds(t) ==
    LET a == t.slot
    IN  /\ t.kind = "activate" /\ work[t].pc = "run"
        /\ incarnation' = [incarnation EXCEPT ![a] = "Live"]
        /\ SubmitAndInterpret(t, ActivationSucceeded(a, a))
        /\ UNCHANGED <<scenario, admission, directory, next, dispatching, publication, caller, future, answer,
                       observer, mode, group, closing, result, panics>>

ActivateFails(t) ==
    /\ t.kind = "activate" /\ work[t].pc = "run"
    /\ SubmitAndInterpret(t, ActivationFailed(t.slot))
    /\ UNCHANGED <<scenario, admission, directory, next, dispatching, publication, caller, future, answer,
                   observer, incarnation, mode, group, closing, result, panics>>

\* port.activation_failed, after every command was returned.
NotifyFailure(t) ==
    /\ work[t].pc = "notify"
    /\ Goto(t, "done")
    /\ UNCHANGED <<scenario, admission, directory, next, slots, pending, dispatching, publication, caller,
                   future, answer, observer, incarnation, mode, group, closing, result, panics>>

\* Deliver's task after port.deliver: the caller is answered before the slot learns of it.
DeliverAccepted(t) ==
    /\ t.kind = "deliver" /\ work[t].pc = "run"
    /\ incarnation[t.slot] # "Retired"
    /\ answer' = [answer EXCEPT ![t.command] = "Ok"]
    /\ Goto(t, "resolve")
    /\ UNCHANGED <<scenario, admission, directory, next, slots, pending, dispatching, publication, caller,
                   future, observer, incarnation, mode, group, closing, result, panics>>

\* The delivery's outcome reaches the slot.
DeliverResolves(t) ==
    /\ t.kind = "deliver"
    /\ \/ /\ work[t].pc = "run"
          /\ PortFails("deliver") \/ incarnation[t.slot] = "Retired"
          /\ SubmitAndInterpret(t, DeliveryResolved(t.slot, TRUE, t.command))
       \/ work[t].pc = "resolve" /\ SubmitAndInterpret(t, DeliveryResolved(t.slot, FALSE, t.command))
    /\ UNCHANGED <<scenario, admission, directory, next, dispatching, publication, caller, future, answer,
                   observer, incarnation, mode, group, closing, result, panics>>

\* Mutant: a failed fence counts as an acknowledged one.
FenceOutcomeGraceful(t, outcome) ==
    IF t.kind = "family"
    THEN mode' = [mode EXCEPT ![t.slot] = outcome] /\ Goto(t, "retire") /\ UNCHANGED <<slots, pending>>
    ELSE /\ SubmitAndInterpret(t, FenceAcknowledged(t.slot))
         /\ UNCHANGED mode

\* What a fence's outcome leads to: an event of a draining slot, the mode of a family task.
FenceOutcome(t, outcome) ==
    IF t.kind = "family"
    THEN mode' = [mode EXCEPT ![t.slot] = outcome] /\ Goto(t, "retire") /\ UNCHANGED <<slots, pending>>
    ELSE /\ SubmitAndInterpret(t, IF outcome = Graceful
                                  THEN FenceAcknowledged(t.slot)
                                  ELSE ForceDrain(t.slot, outcome))
         /\ UNCHANGED mode

\* port.fence: the fence enters the mailbox, or the task learns that it could not.
FenceEnqueue(t) ==
    /\ t.kind \in {"fence", "family"} /\ work[t].pc = "run"
    /\ \/ /\ incarnation[t.slot] # "Retired"
          /\ incarnation' = [incarnation EXCEPT ![t.slot] = "Fenced"]
          /\ Goto(t, "acknowledge")
          /\ UNCHANGED <<slots, pending, mode>>
       \/ /\ PortFails("fence") \/ incarnation[t.slot] = "Retired"
          /\ FenceOutcome(t, Failure("FenceEnqueue", 0))
          /\ UNCHANGED incarnation
    /\ UNCHANGED <<scenario, admission, directory, next, dispatching, publication, caller, future, answer,
                   observer, group, closing, result, panics>>

\* port.fence: every message before the fence was processed, or the answer was lost.
FenceAcknowledge(t) ==
    /\ work[t].pc = "acknowledge"
    /\ \/ /\ incarnation[t.slot] = "Fenced"
          /\ incarnation' = [incarnation EXCEPT ![t.slot] = "Drained"]
          /\ FenceOutcome(t, Graceful)
       \/ /\ PortFails("acknowledge") \/ incarnation[t.slot] = "Retired"
          /\ FenceOutcome(t, Failure("FenceAcknowledgement", 0))
          /\ UNCHANGED incarnation
    /\ UNCHANGED <<scenario, admission, directory, next, dispatching, publication, caller, future, answer,
                   observer, group, closing, result, panics>>

\* EntityTaskGroup::retirement_failed
RetirementFailed(a) == [group EXCEPT !.retirements = @ \cup {a}]

\* retire_owned up to the submitted termination: a native failure is retained first.
RetireOwned(t, failed) ==
    LET a == t.slot
    IN  /\ work[t].pc = "retire"
        /\ incarnation' = [incarnation EXCEPT ![a] = "Retired"]
        /\ group' = IF failed THEN RetirementFailed(a) ELSE group
        /\ SubmitAndInterpret(t, Terminated(a))
        /\ UNCHANGED <<scenario, admission, directory, next, dispatching, publication, caller, future, answer,
                       observer, mode, closing, result, panics>>

\* Slot::complete_retirement, the last thing retire_owned does.
CompleteRetirement(t) ==
    LET a == t.slot
    IN  /\ work[t].pc = "publish"
        /\ observer' = [o \in Observers |->
                           IF publication[a] /\ observer[o].slot = a
                           THEN [slot |-> a, state |-> "done", mode |-> mode[a]] ELSE observer[o]]
        /\ publication' = [publication EXCEPT ![a] = FALSE]
        /\ mode' = [mode EXCEPT ![a] = Graceful]
        /\ Goto(t, "done")
        /\ UNCHANGED <<scenario, admission, directory, next, slots, pending, dispatching, caller, future,
                       answer, incarnation, group, closing, result, panics>>

\* A port call or the waker of an accepted caller panics: the guard and the handle see
\* the task end, nobody else does.
TaskPanics(t) ==
    /\ MayPanic
    /\ work[t].pc \in {"run", "resolve", "acknowledge", "retire", "notify"}
    /\ panics' = panics + 1
    /\ Goto(t, "failed")
    /\ UNCHANGED <<scenario, admission, directory, next, slots, pending, dispatching, publication, caller,
                   future, answer, observer, incarnation, mode, group, closing, result>>
-----------------------------------------------------------------------------
(* Shutdown *)

\* shutdown closes admission under its mutex.
CloseAdmission(s) ==
    /\ work[s].pc = "idle"
    /\ AdmissionFree
    /\ admission' = "Closed"
    /\ Goto(s, "claim")
    /\ UNCHANGED <<scenario, directory, next, slots, pending, dispatching, publication, caller, future, answer,
                   observer, incarnation, mode, group, closing, result, panics>>

\* EntityTaskGroup::claim
Claim(s) ==
    /\ work[s].pc = "claim"
    /\ IF group.open /\ group.claim = NoCloser
       THEN /\ group' = [group EXCEPT !.claim = s]
            /\ closing' = [pass |-> 1, todo |-> {}, retirement |-> NoIncarnation]
            /\ Goto(s, "settle")
            /\ UNCHANGED result
       ELSE /\ result' = [result EXCEPT ![s] = "AlreadyClaimed"]
            /\ Goto(s, "done")
            /\ UNCHANGED <<group, closing>>
    /\ UNCHANGED <<scenario, admission, directory, next, slots, pending, dispatching, publication, caller,
                   future, answer, observer, incarnation, mode, panics>>

\* EntityShutdownClaim::take_tasks
TakeTasks == [group EXCEPT !.claimed = @ \cup group.tracked, !.tracked = {}]

\* wait_idle, then take_tasks.
Settle(s) ==
    /\ work[s].pc = "settle"
    /\ Live = {}
    /\ group' = TakeTasks
    /\ Goto(s, "join")
    /\ UNCHANGED <<scenario, admission, directory, next, slots, pending, dispatching, publication, caller,
                   future, answer, observer, incarnation, mode, closing, result, panics>>

\* join_owned over the taken handles.
JoinOwned(s) ==
    /\ work[s].pc = "join"
    /\ \A t \in group.claimed : work[t].pc \in Finished
    /\ group' = [group EXCEPT !.joined = @ \cup group.claimed]
    /\ Goto(s, IF closing.pass = 1 THEN "family" ELSE "check")
    /\ UNCHANGED <<scenario, admission, directory, next, slots, pending, dispatching, publication, caller,
                   future, answer, observer, incarnation, mode, closing, result, panics>>

\* record_drain: the rows are taken from the directory once, whoever holds the claim.
RecordDrain(s) ==
    LET rows == IF group.drained THEN group.rows ELSE Represented
    IN  /\ work[s].pc = "family"
        /\ group' = [group EXCEPT !.drained = TRUE, !.rows = rows]
        /\ directory' = IF group.drained THEN directory ELSE Emptied
        /\ closing' = [closing EXCEPT !.todo = rows]
        /\ Goto(s, "nextRow")
        /\ UNCHANGED <<scenario, admission, next, slots, pending, dispatching, publication, caller, future,
                       answer, observer, incarnation, mode, result, panics>>

\* Slot::close_family and interpret_closed_slot of one row; the later passes only interpret.
NextRow(s) ==
    /\ work[s].pc = "nextRow"
    /\ \E a \in closing.todo :
          LET closed == CloseFamily(slots[a])
          IN  /\ IF closing.pass = 1
                 THEN /\ slots' = [slots EXCEPT ![a] = closed.state]
                      /\ pending' = [pending EXCEPT ![a] = @ \o closed.effects]
                      /\ closing' = [closing EXCEPT !.todo = @ \ {a}, !.retirement = closed.retirement]
                 ELSE closing' = [closing EXCEPT !.todo = @ \ {a}] /\ UNCHANGED <<slots, pending>>
              /\ Interpret(s, a)
    /\ UNCHANGED <<scenario, admission, directory, next, dispatching, publication, caller, future, answer,
                   observer, incarnation, mode, group, result, panics>>

\* The family task of a row whose lease was available.
RetireRow(s) ==
    LET r == closing.retirement
    IN  /\ work[s].pc = "row"
        /\ Spawn(s, Task("family", r.activation, NoCommand), "trackRow",
                 IF r.admission = Graceful THEN "run" ELSE "retire")
        /\ mode' = [mode EXCEPT ![r.activation] = r.admission]
        /\ closing' = [closing EXCEPT !.retirement = NoIncarnation]
        /\ UNCHANGED <<scenario, admission, directory, next, slots, pending, dispatching, publication, caller,
                       future, answer, observer, incarnation, group, result, panics>>

\* Every row was visited: wait for the tasks they started.
RowsVisited(s) ==
    /\ work[s].pc = "nextRow"
    /\ closing.todo = {}
    /\ closing' = [closing EXCEPT !.pass = 2]
    /\ Goto(s, "settle")
    /\ UNCHANGED <<scenario, admission, directory, next, slots, pending, dispatching, publication, caller,
                   future, answer, observer, incarnation, mode, group, result, panics>>

\* Mutant: one pass over the rows is taken to be enough.
CheckPendingNever(s) ==
    /\ work[s].pc = "check"
    /\ Goto(s, "complete")
    /\ UNCHANGED <<scenario, admission, directory, next, slots, pending, dispatching, publication, caller,
                   future, answer, observer, incarnation, mode, group, closing, result, panics>>

\* has_pending of any row starts another pass.
CheckPending(s) ==
    LET stranded == \E a \in group.rows : HasPending(a)
    IN  /\ work[s].pc = "check"
        /\ closing' = IF stranded THEN [closing EXCEPT !.todo = group.rows] ELSE closing
        /\ Goto(s, IF stranded THEN "nextRow" ELSE "complete")
        /\ UNCHANGED <<scenario, admission, directory, next, slots, pending, dispatching, publication, caller,
                       future, answer, observer, incarnation, mode, group, result, panics>>

\* EntityShutdownClaim::complete: the family's rows and the failures of its joined tasks.
FamilyRows == group.rows \cup group.retired
TaskFailures == {t \in group.claimed : work[t].pc \in Failed}

\* EntityTaskGroup::close
ClosedGroup == [group EXCEPT !.open = FALSE]

\* EntityShutdown, classified by Slot::retirement_disposition and the receipts of every row.
Disposition ==
    IF TaskFailures = {} /\ group.retirements = {} /\ \A a \in FamilyRows : slots[a].phase = "Inactive"
    THEN "Settled" ELSE "Unsettled"

\* The end of EntityRuntime::shutdown.
Complete(s) ==
    /\ work[s].pc = "complete"
    /\ result' = [result EXCEPT ![s] = Disposition]
    /\ group' = ClosedGroup
    /\ Goto(s, "done")
    /\ UNCHANGED <<scenario, admission, directory, next, slots, pending, dispatching, publication, caller,
                   future, answer, observer, incarnation, mode, closing, panics>>

\* A shutdown future dropped at one of its awaits releases the claim.
DropShutdown(s) ==
    /\ work[s].pc \in {"settle", "join"}
    /\ group' = Unclaimed
    /\ result' = [result EXCEPT ![s] = "Dropped"]
    /\ Goto(s, "done")
    /\ UNCHANGED <<scenario, admission, directory, next, slots, pending, dispatching, publication, caller,
                   future, answer, observer, incarnation, mode, closing, panics>>

-----------------------------------------------------------------------------
(* Specification *)

\* What a process does by itself once it runs.
InterpretStep(p) ==
    Acquire(p) \/ Drained(p) \/ InterpretSpawn(p) \/ Track(p) \/ InterpretReject(p) \/ InterpretRemove(p)

\* What a task does besides the port calls that own an incarnation's life.
OwnedStep(t) ==
    \/ InterpretStep(t)
    \/ NotifyFailure(t)
    \/ DeliverAccepted(t) \/ DeliverResolves(t)
    \/ FenceEnqueue(t) \/ FenceAcknowledge(t)
    \/ CompleteRetirement(t)

\* port.activate and port.retire return.
PortStep(t) ==
    \/ ActivateSucceeds(t)
    \/ PortFails("activate") /\ ActivateFails(t)
    \/ RetireOwned(t, FALSE)
    \/ PortFails("retire") /\ RetireOwned(t, TRUE)

CallerStep == InterpretStep(Caller) \/ DispatchSubmit

CloserStep(s) ==
    \/ InterpretStep(s)
    \/ Claim(s) \/ Settle(s) \/ JoinOwned(s) \/ RecordDrain(s) \/ NextRow(s) \/ RetireRow(s)
    \/ RowsVisited(s) \/ CheckPending(s) \/ Complete(s)

\* EntityReceptionist: what callers ask of the family.
Receptionist ==
    \/ \E c \in scenario.commands, e \in scenario.entities : Admit(c, e)
    \/ \E e \in scenario.passivated : Passivate(e)
    \/ \E o \in scenario.observers, e \in scenario.entities : RetireEntity(o, e)

\* What the environment chooses to do.
Environment ==
    \/ Receptionist
    \/ \E c \in scenario.droppable : DropFuture(c)
    \/ \E s \in scenario.closers : CloseAdmission(s) \/ DropShutdown(s)

Panics ==
    \/ \E t \in Tasks : TaskPanics(t)
    \/ \E p \in Processes : RejectPanics(p)

\* Everything but the port's own steps.
RuntimeNext ==
    \/ CallerStep
    \/ \E t \in Tasks : OwnedStep(t)
    \/ \E s \in Closers : CloserStep(s)
    \/ Environment

Next == RuntimeNext \/ Panics \/ \E t \in Tasks : PortStep(t)

Spec == Init /\ [][Next]_vars

-----------------------------------------------------------------------------
(* Properties *)

Holds(e, c) == e.effect \in {"Deliver", "Reject"} /\ e.command = c

\* How many owners an unanswered command has: waiter lists, queued effects, delivery tasks
\* (panicked ones included), and the caller between its lookup and its submission.
OwnerCount(c) ==
    LET waiting == UNION {{<<a, i>> : i \in {j \in DOMAIN slots[a].waiters : slots[a].waiters[j] = c}} :
                             a \in Activations}
        queued == UNION {{<<a, i>> : i \in {j \in DOMAIN pending[a] : Holds(pending[a][j], c)}} : a \in Activations}
        carried == {t \in Tasks : t.kind = "deliver" /\ t.command = c
                                     /\ work[t].pc \in {"run", "failed"} /\ answer[c] = "None"}
        selecting == {p \in {Caller} : work[p].pc = "submit" /\ caller.command = c}
    IN  Cardinality(waiting) + Cardinality(queued) + Cardinality(carried) + Cardinality(selecting)

\* Deliveries a slot has granted and not yet heard of: queued, running, or dead.
Outstanding(a) ==
    Cardinality({j \in DOMAIN pending[a] : pending[a][j].effect = "Deliver"})
        + Cardinality({t \in Tasks : t.kind = "deliver" /\ t.slot = a
                                        /\ work[t].pc \in {"run", "resolve", "failed"}})

Alive(a) == incarnation[a] \in {"Live", "Fenced", "Drained"}

\* One entity never has two living incarnations, though it is removed from the directory
\* and activated again while tasks of its earlier slots still run.
SingleIncarnation ==
    \A c, d \in Commands :
        LET a == future[c].activation
            b == future[d].activation
        IN  future[c].entity = future[d].entity /\ a # b /\ NoActivation \notin {a, b}
            => ~(Alive(a) /\ Alive(b))

\* How many owners the retirement lease of an incarnation has.
LesseeCount(a) ==
    LET queued == {j \in DOMAIN pending[a] : pending[a][j].effect = "Retire" /\ pending[a][j].lease = a}
        retiring == {t \in Tasks : t.slot = a /\ t.kind \in {"retire", "family"}
                                     /\ work[t].pc \in {"run", "acknowledge", "retire", "failed"}}
        closed == {s \in Closers : group.claim = s /\ closing.retirement.lease = a}
    IN  (IF slots[a].lease = a THEN 1 ELSE 0)
            + Cardinality(queued) + Cardinality(retiring) + Cardinality(closed)

\* A command whose caller still waits has exactly one owner until it is answered, and none
\* afterwards, so none is duplicated, lost, or answered by two of the races between
\* cancellation, activation, delivery and shutdown.  A living incarnation's lease has
\* exactly one owner; only a shutdown call that panics between close_family and
\* spawn_owned drops one.
Custody ==
    /\ \A c \in Commands :
        /\ OwnerCount(c) <= 1
        /\ future[c].state \in {"admitting", "waiting"} /\ answer[c] = "None" => OwnerCount(c) = 1
        /\ answer[c] # "None" => OwnerCount(c) = 0
    /\ \A a \in Activations :
        /\ LesseeCount(a) <= 1
        /\ Alive(a) /\ LesseeCount(a) = 0 => \E s \in Closers : result[s] = "Panicked"

\* The directory's entries stay exact (EntriesExact) while callers, tasks and shutdown
\* install, interpret and remove slots; only the rows a shutdown took are unmapped and alive.
RoutingExact == EntriesExact(group.rows)

\* Processes that interpret a slot's queue, and those about to; without panics none is lost.
Interpreting(a) == {p \in Processes : work[p].slot = a /\ work[p].pc \in {"drain", "track"}}
Acquiring(a) == {p \in Processes : (work[p].slot = a /\ work[p].pc = "interpret") \/ panics > 0}

\* The reservation count of an open or draining slot is exactly the number of deliveries
\* still to resolve, whatever the order in which tasks resolve and interpret; so the fence
\* is the last message: once it is in the mailbox of an incarnation, no command is on its
\* way there.  Graceful is never claimed for an incarnation whose fence was not
\* acknowledged, and retire_entity returns only when its incarnation has ended and its slot
\* is Inactive.  An entity never has two living incarnations (SingleIncarnation).
HonestRetirement ==
    /\ SingleIncarnation
    /\ \A a \in Activations :
        /\ slots[a].lease = a => slots[a].reservations = Outstanding(a)
        /\ incarnation[a] \in {"Fenced", "Drained"} =>
            /\ \A j \in DOMAIN pending[a] : pending[a][j].effect # "Deliver"
            /\ \A t \in Tasks : t.kind = "deliver" /\ t.slot = a => work[t].pc # "run"
    /\ \A t \in Tasks : work[t].pc = "retire" /\ mode[t.slot] = Graceful => incarnation[t.slot] = "Drained"
    /\ \A o \in Observers : observer[o].state = "done" =>
          incarnation[observer[o].slot] = "Retired" /\ slots[observer[o].slot].phase = "Inactive"

\* What close and complete assert: at that point no task runs, every handle was joined, the
\* queues are empty, and every retirement failure still has its family row.  Settled means
\* settled: no incarnation lives, every admitted command was answered unless its caller
\* left; and only one shutdown call receives a family result.
ShutdownExact ==
    /\ (\E s \in Closers : work[s].pc = "complete") \/ ~group.open =>
        /\ Live = {} /\ AdmissionFree
        /\ group.tracked = {} /\ group.claimed \subseteq group.joined
        /\ \A a \in Activations : pending[a] = <<>>
        /\ group.retirements \subseteq group.rows \cup group.retired
    /\ \A s \in Closers : result[s] = "Settled" =>
          /\ \A a \in Activations : ~Alive(a)
          /\ \A c \in Commands : future[c].state = "waiting" => answer[c] # "None"
    /\ \A s, r \in Closers : {result[s], result[r]} \subseteq {"Settled", "Unsettled"} => s = r
=============================================================================
