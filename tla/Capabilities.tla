---------------------------- MODULE Capabilities ----------------------------
(***************************************************************************)
(* ApplicationCapabilities: the interpreter of one actor's action items.   *)
(* Its script is a sequence of action batches; each item is settled by the *)
(* handler of its type (creation, delivery, observation, shutdown, timers, *)
(* reports, workers), a "Commit" or "Stop" ends the batch.  Between two    *)
(* batches the actor receives its control lane and its local events.  The  *)
(* children, the activation tasks and the timers are the other processes.  *)
(*                                                                         *)
(* An item is [op, ids, arg]: the request's type, the child it names and   *)
(* its payload.  An event is [kind, id, n]; the relationship number n of   *)
(* an exact observation stands for the identity of its Arc.                *)
(***************************************************************************)
EXTENDS Children

CONSTANTS Observations,   \* exact observation ids
          Timers          \* timer keys, named or owned by an occurrence

VARIABLES inbox, watch, tasks, timers

vars == <<plan, parent, registry, child, ending, inbox, watch, tasks, timers>>

Event(kind, id, n) == [kind |-> kind, id |-> id, n |-> n]

Init ==
  /\ plan \in Plans
  /\ parent = [phase |-> "Live", next |-> 1, births |-> <<>>, waiting |-> None,
               replies |-> <<>>, lost |-> {}]
  /\ registry = NewBindings
  /\ child = [id \in Ids |-> AbsentChild]
  /\ ending = RetirementLanes
  /\ inbox = [open |-> TRUE, queue |-> <<>>, seen |-> <<>>, returned |-> <<>>, refused |-> {}]
  /\ watch = [pending |-> <<>>, exact |-> [obs \in Observations |-> 0], open |-> TRUE,
              issued |-> <<>>, source |-> "Observation"]
  /\ tasks = {}
  /\ timers = [key \in Timers |-> 0]

(* A batch is interpreted item by item; the actor receives between batches. *)
AtBoundary == parent.next > Len(plan.script)
              \/ (parent.next > 1 /\ plan.script[parent.next - 1].op = "Commit")
Idle == parent.phase = "Live" /\ parent.waiting = None /\ parent.births = <<>>
Interpreting(ops) == Idle /\ parent.next <= Len(plan.script) /\ Item.op \in ops
Target == Item.ids[1]

Accepted(reason) == Settles(Reply("Accepted", reason, NoItem))
Rejected(reason) == Settles(Reply("Rejected", reason, Item))

(* inject_control_event: the own lane is open while effects commit *)
Inject(event) == inbox' = [inbox EXCEPT !.queue = Append(@, event)]

(* What an item that needs an established child settles as without one *)
WithoutAuthority(missing) ==
  \/ /\ CreationAt(Target) = "Unavailable"
     /\ Settles(Reply("Blocked", "Creation", Item))
  \/ /\ CreationAt(Target) = None
     /\ Settles(missing)

CorruptItem == Reply("Corrupt", "MissingCapability", Item)

(* A behaviour holds an endpoint only of a child it was told about. *)
Withheld == CreationAt(Target) # "Established" /\ Settles(Reply("Withheld", None, Item))

(***************************************************************************)
(* Deliveries                                                              *)
(***************************************************************************)
(* ActorSpace::resolve: hosted from publication to the end of the lease *)
Resolves(id) == child[id].state = "Live"

(* reunite_customer_delivery: the leaf's refusal under the wrapper's reason *)
ReuniteCustomerDelivery(op, reason) ==
  CASE op \in {"CustomerLogical", "CustomerRejectedLogical"} -> <<"Logical", reason>>
    [] op \in {"CustomerEstablished", "CustomerRejectedEstablished"} -> <<"Established", reason>>
    [] OTHER -> <<reason>>

(* Variant: the refusal keeps the reason and forgets the message. *)
DropRefused(reason) == Reply("Rejected", ReuniteCustomerDelivery(Item.op, reason), NoItem)

RefusedDelivery(reason) == Reply("Rejected", ReuniteCustomerDelivery(Item.op, reason), Item)

(* The message leaves the item for the await on the recipient's mailbox. *)
Sends == parent' = [parent EXCEPT !.waiting = "Sending"]

LogicalLeaf == IF Resolves(Target) THEN Sends ELSE Settles(RefusedDelivery("UnknownAddress"))
EstablishedLeaf == Withheld \/ (CreationAt(Target) = "Established" /\ Sends)

Delivery == Interpreting({"Delivery"}) /\ LogicalLeaf
EstablishedDelivery == Interpreting({"EstablishedDelivery"}) /\ EstablishedLeaf

CustomerDelivery ==
  \/ Interpreting({"CustomerLogical", "CustomerRejectedLogical"}) /\ LogicalLeaf
  \/ Interpreting({"CustomerEstablished", "CustomerRejectedEstablished"}) /\ EstablishedLeaf

(* A terminal diagnostic has no recipient. *)
DiagnosticTerminal == Interpreting({"DiagnosticTerminal"}) /\ Accepted("Terminal")
DiagnosticLogical == Interpreting({"DiagnosticLogical"}) /\ LogicalLeaf
DiagnosticEstablished == Interpreting({"DiagnosticEstablished"}) /\ EstablishedLeaf
AssignWorker == Interpreting({"AssignWorker"}) /\ EstablishedLeaf

ChildDelivery ==
  /\ Interpreting({"ChildDelivery"})
  /\ \/ WithoutAuthority(Reply("Rejected", "MissingBinding", Item))
     \/ CreationAt(Target) = "Established" /\ Sends

Deliver ==
  /\ \/ Delivery \/ EstablishedDelivery \/ CustomerDelivery \/ DiagnosticTerminal
     \/ DiagnosticLogical \/ DiagnosticEstablished \/ AssignWorker \/ ChildDelivery
  /\ UNCHANGED <<plan, registry, child, ending, inbox, watch, tasks, timers>>

Unwaited(p) == [p EXCEPT !.waiting = None, !.next = @ + 1]

(* send_from: room in the mailbox, or the recipient closed while waiting *)
SendFrom ==
  /\ parent.waiting = "Sending"
  /\ \/ /\ ~child[Target].admission
        /\ parent' = Unwaited(Replied(RefusedDelivery("ClosedRecipient")))
        /\ UNCHANGED child
     \/ /\ child[Target].admission
        /\ Len(child[Target].user) < Capacity
        /\ child' = [child EXCEPT ![Target].user = Append(@, Item.arg)]
        /\ parent' = Unwaited(Replied(Reply("Accepted", None, NoItem)))
  /\ UNCHANGED <<plan, registry, ending, inbox, watch, tasks, timers>>

(* The child's unbounded control lane *)
ControlOpen(id) == child[id].state \in {"Spawned", "Offered", "Live"}

SendControl ==
  /\ CreationAt(Target) = "Established"
  /\ IF ControlOpen(Target)
       THEN /\ child' = [child EXCEPT ![Target].control = Append(@, Item.arg)]
            /\ Accepted(None)
       ELSE Rejected("ClosedControlLane") /\ UNCHANGED child

ChildInput ==
  /\ Interpreting({"ChildInput"})
  /\ SendControl \/ (WithoutAuthority(Reply("Rejected", "MissingBinding", Item))
                     /\ UNCHANGED child)

AdmitProxyControl ==
  SendControl \/ (CreationAt(Target) # "Established" /\ Rejected("MissingBinding")
                  /\ UNCHANGED child)

ProxyOperation == Interpreting({"ProxyOperation"}) /\ AdmitProxyControl

Control == (ChildInput \/ ProxyOperation)
           /\ UNCHANGED <<plan, registry, ending, inbox, watch, tasks, timers>>

(***************************************************************************)
(* Facts told through the own control lane                                 *)
(***************************************************************************)
Resolved(kind) == Inject(Event(kind, Target, 0)) /\ Accepted(None)

(* Whether the worker already stopped is read when the item is interpreted. *)
InitializeWorker ==
  /\ Interpreting({"InitializeWorker"})
  /\ \/ Withheld /\ UNCHANGED inbox
     \/ /\ CreationAt(Target) = "Established"
        /\ Resolved(IF Published(Target) THEN "WorkerStopped" ELSE "ReadyForStartup")

ReportShutdownPlan ==
  /\ Interpreting({"ReportShutdownPlan"})
  /\ Inject(Event("InstallShutdownPlan", None, 0))
  /\ Accepted(None)

AnnounceCreation(kind) ==
  \/ CreationAt(Target) = "Established" /\ Resolved(kind)
  \/ WithoutAuthority(CorruptItem) /\ UNCHANGED inbox

ObserveCreation == Interpreting({"ObserveCreation"}) /\ AnnounceCreation("CreationResolved")
ObserveEstablishedCreation ==
  Interpreting({"ObserveEstablishedCreation"}) /\ AnnounceCreation("EstablishedCreation")

Announce ==
  /\ InitializeWorker \/ ReportShutdownPlan \/ ObserveCreation \/ ObserveEstablishedCreation
  /\ UNCHANGED <<plan, registry, child, ending, watch, tasks, timers>>

(***************************************************************************)
(* Observation and shutdown of children                                    *)
(***************************************************************************)
(* TerminationObservations::insert: registration order is delivery order. *)
Registered(source, id) ==
  watch' = [watch EXCEPT !.pending = Append(@, [source |-> source, id |-> id])]

ObservePeer ==
  /\ Interpreting({"ObservePeer"})
  /\ IF Resolves(Target) THEN Registered("Peer", Target) /\ Accepted(None)
     ELSE Rejected("UnknownAddress") /\ UNCHANGED watch

ObserveChild ==
  /\ Interpreting({"ObserveChild"})
  /\ \/ CreationAt(Target) = "Established" /\ Registered("Child", Target) /\ Accepted(None)
     \/ WithoutAuthority(CorruptItem) /\ UNCHANGED watch

ObserveTermination == (ObservePeer \/ ObserveChild)
                      /\ UNCHANGED <<plan, registry, child, ending, inbox, tasks, timers>>

(* shutdown_rejection *)
ShutdownRejection == IF Published(Target) THEN "AlreadyStopped" ELSE "AlreadyStopping"

(* close_admission, before the request enters the control lane: the child may
   stop in between. *)
CloseAdmission(refused) ==
  /\ CreationAt(Target) = "Established"
  /\ \/ /\ child[Target].admission
        /\ child' = [child EXCEPT ![Target].admission = FALSE]
        /\ parent' = [parent EXCEPT !.waiting = "Shutdown"]
        /\ UNCHANGED inbox
     \/ /\ ~child[Target].admission
        /\ refused
        /\ UNCHANGED child

RefusedShutdown(reason) ==
  parent' = Unwaited(Replied(Reply("Rejected", reason, Item)))

RefuseChild ==
  /\ RefusedShutdown(IF Published(Target) THEN "NotEstablished" ELSE "AlreadyStopping")
  /\ UNCHANGED inbox

(* The resolution of an exact request is also an event. *)
RefuseEstablished ==
  /\ RefusedShutdown(ShutdownRejection)
  /\ Inject(Event("ShutdownRejected", Target, 0))

ShutdownChild ==
  /\ Interpreting({"ShutdownChild"})
  /\ CloseAdmission(RefuseChild) \/ (WithoutAuthority(CorruptItem) /\ UNCHANGED <<child, inbox>>)

ShutdownEstablished ==
  /\ Interpreting({"ShutdownEstablished"})
  /\ CloseAdmission(RefuseEstablished) \/ (Withheld /\ UNCHANGED <<child, inbox>>)

Shutdown == (ShutdownChild \/ ShutdownEstablished)
            /\ UNCHANGED <<plan, registry, ending, watch, tasks, timers>>

RequestActorShutdown ==
  /\ parent.waiting = "Shutdown"
  /\ IF ControlOpen(Target)
       THEN /\ child' = [child EXCEPT ![Target].control = Append(@, "Shutdown")]
            /\ parent' = Unwaited(Replied(Reply("Accepted", None, NoItem)))
            /\ IF Item.op = "ShutdownChild" THEN Registered("Child", Target) /\ UNCHANGED inbox
               ELSE Inject(Event("ShutdownAccepted", Target, 0)) /\ UNCHANGED watch
       ELSE /\ IF Item.op = "ShutdownChild" THEN RefuseChild ELSE RefuseEstablished
            /\ UNCHANGED <<child, watch>>
  /\ UNCHANGED <<plan, registry, ending, tasks, timers>>

(***************************************************************************)
(* Exact observations and worker activations: the activation tasks         *)
(***************************************************************************)
Task(kind, n, left) == [kind |-> kind, n |-> n, left |-> left, state |-> "Waiting"]
Issue(obs, id) == Append(watch.issued, [obs |-> obs, id |-> id])

(* observe: Started is in the lane before its task can complete. *)
ObserveEstablished ==
  LET obs == Item.arg
      n == Len(watch.issued) + 1
  IN /\ Interpreting({"ObserveEstablished"})
     /\ \/ Withheld /\ UNCHANGED <<inbox, watch, tasks>>
        \/ /\ CreationAt(Target) = "Established"
           /\ watch.exact[obs] # 0
           /\ Resolved("IdAlreadyBound")
           /\ UNCHANGED <<watch, tasks>>
        \/ /\ CreationAt(Target) = "Established"
           /\ watch.exact[obs] = 0
           /\ watch' = [watch EXCEPT !.exact[obs] = n, !.issued = Issue(obs, Target)]
           /\ Inject(Event("ObservationStarted", Target, n))
           /\ tasks' = tasks \cup {Task("Observe", n, 0)}
           /\ Accepted(None)
     /\ UNCHANGED <<plan, registry, child, ending, timers>>

(* The relationships a behaviour was told of, current or stale *)
Granted(obs) ==
  {n \in DOMAIN watch.issued :
     /\ watch.issued[n].obs = obs
     /\ Event("ObservationStarted", watch.issued[n].id, n) \in Range(inbox.seen)}

(* Variant: cancellation looks only at the id, whoever holds it now. *)
CancelsById(obs, n) == watch.exact[obs] # 0

Matching(obs, n) == watch.exact[obs] = n

CancelObservation ==
  LET obs == Item.arg IN
  /\ Interpreting({"CancelObservation"})
  /\ \/ /\ Granted(obs) = {}
        /\ Settles(Reply("Withheld", None, Item))
        /\ UNCHANGED <<inbox, watch>>
     \/ \E n \in Granted(obs) :
          /\ Accepted(None)
          /\ Inject(Event(IF Matching(obs, n) THEN "ObservationCancelled" ELSE "NotObserved",
                          watch.issued[n].id, n))
          /\ watch' = IF Matching(obs, n) THEN [watch EXCEPT !.exact[obs] = 0] ELSE watch
  /\ UNCHANGED <<plan, registry, child, ending, tasks, timers>>

Registers(task) == watch.open /\ watch.exact[watch.issued[task.n].obs] = task.n

(* A task whose relationship is gone, or whose map was taken, just returns;
   the completion decision removes its member under the same guard. *)
DecideObservation(task) ==
  /\ task.kind = "Observe"
  /\ task.state = "Waiting"
  /\ \/ /\ ~Registers(task)
        /\ tasks' = tasks \ {task}
        /\ UNCHANGED watch
     \/ /\ Registers(task)
        /\ Published(watch.issued[task.n].id)
        /\ watch' = [watch EXCEPT !.exact[watch.issued[task.n].obs] = 0]
        /\ tasks' = (tasks \ {task}) \cup {[task EXCEPT !.state = "Decided"]}
  /\ UNCHANGED <<plan, parent, registry, child, ending, inbox, timers>>

(* What a task says: its observation stopped, its worker's activation or the
   settled preparation *)
TaskEvent(task) ==
  IF task.kind = "Observe" THEN Event("ObservationStopped", watch.issued[task.n].id, task.n)
  ELSE Event(task.kind, None, task.left)

(* The event enters the control lane or is returned by the task. *)
Conveys(task) ==
  IF inbox.open /\ (task.kind = "Observe" => watch.open)
    THEN Inject(TaskEvent(task)) /\ tasks' = tasks \ {task}
    ELSE /\ tasks' = (tasks \ {task}) \cup {[task EXCEPT !.state = "Returned"]}
         /\ UNCHANGED inbox

ReportTask(task) ==
  /\ task.state = "Decided"
  /\ Conveys(task)
  /\ UNCHANGED <<plan, parent, registry, child, ending, watch, timers>>

(* StartWorker announces itself first; PrepareWorkers settles one role after
   another, its source may refuse only before the first. *)
StartWorker ==
  /\ Interpreting({"StartWorker"})
  /\ Inject(Event("WorkerStarted", None, 0))
  /\ tasks' = tasks \cup {Task("WorkerStartup", parent.next, 0)}
  /\ Accepted(None)

PrepareWorkers ==
  /\ Interpreting({"PrepareWorkers"})
  /\ tasks' = tasks \cup {Task("Preparing", parent.next, Len(Item.ids))}
  /\ Accepted(None)
  /\ UNCHANGED inbox

StartTask ==
  /\ StartWorker \/ PrepareWorkers
  /\ UNCHANGED <<plan, registry, child, ending, watch, timers>>

Decided(task, kind) ==
  tasks' = (tasks \ {task}) \cup {[task EXCEPT !.kind = kind, !.state = "Decided"]}

(* settle_worker_preparation: prepare_first, then prepare_next per role *)
PrepareRole(task) ==
  LET first == task.left = Len(plan.script[task.n].ids) IN
  \/ /\ task.left = 1
     /\ tasks' = (tasks \ {task}) \cup
                 {[task EXCEPT !.kind = "Prepared", !.left = 0, !.state = "Decided"]}
  \/ /\ task.left > 1
     /\ tasks' = (tasks \ {task}) \cup {[task EXCEPT !.left = @ - 1]}
  \/ Decided(task, "WorkerRejected")
  \/ first /\ Decided(task, "SourceRejected")

(* A user future completes, or panics and its task fails to join. *)
Work(task) ==
  /\ task.state = "Waiting"
  /\ \/ task.kind = "WorkerStartup" /\ Decided(task, task.kind)
     \/ task.kind = "Preparing" /\ PrepareRole(task)
     \/ /\ task.kind # "Observe"
        /\ "TaskPanic" \in plan.faults
        /\ tasks' = (tasks \ {task}) \cup {[task EXCEPT !.state = "Failed"]}
  /\ UNCHANGED <<plan, parent, registry, child, ending, inbox, watch, timers>>

(***************************************************************************)
(* Timers and terminal reports                                             *)
(***************************************************************************)
(* LocalTimers: one key holds one pending generation, a schedule replaces it;
   the queue may run out of generations or sequence numbers. *)
ScheduleKey ==
  \/ timers' = [timers EXCEPT ![Item.arg] = parent.next] /\ Accepted(None)
  \/ \E reason \in plan.faults \cap {"QueueGenerationExhausted", "QueueSequenceExhausted"} :
       Rejected(reason) /\ UNCHANGED timers

ScheduleAt == Interpreting({"ScheduleAt"}) /\ ScheduleKey

(* A relative deadline that cannot be represented is refused first. *)
ScheduleAfter ==
  /\ Interpreting({"ScheduleAfter"})
  /\ \/ ScheduleKey
     \/ "DeadlineOverflow" \in plan.faults /\ Rejected("DeadlineOverflow") /\ UNCHANGED timers

Schedule ==
  /\ ScheduleAt \/ ScheduleAfter
  /\ UNCHANGED <<plan, registry, child, ending, inbox, watch, tasks>>

(* The first outcome selected in a batch stands for that batch. *)
ReportTerminalOutcome ==
  /\ Interpreting({"ReportTerminalOutcome"})
  /\ Accepted(None)
  /\ ending' = [ending EXCEPT !.selected = IF @ = None THEN Item.arg ELSE @]
  /\ UNCHANGED <<plan, registry, child, inbox, watch, tasks, timers>>

(* finish_terminal_reports(Discard) *)
FinishBatch(selected) == None

(* settlement_status of what was interpreted so far *)
SettledAs(statuses) == \E i \in DOMAIN parent.replies : parent.replies[i].status \in statuses

OperationFailures ==
  IF SettledAs({"Rejected", "Blocked", "Corrupt"}) THEN "FailuresFound" ELSE "NoFailuresFound"

(* The environment closes the inbox with what it holds, then the capabilities
   retire. *)
Retire(p) ==
  /\ parent' = [p EXCEPT !.phase = "Retiring"]
  /\ inbox' = [inbox EXCEPT !.open = FALSE]

(* A batch that continues discards its selection; a corrupt settlement ends the
   actor whatever the batch decided. *)
Commit ==
  LET passed == [parent EXCEPT !.next = @ + 1] IN
  /\ Interpreting({"Commit"})
  /\ ending' = [ending EXCEPT !.selected = FinishBatch(@), !.operation = OperationFailures]
  /\ IF SettledAs({"Corrupt"}) THEN Retire(passed) ELSE parent' = passed /\ UNCHANGED inbox
  /\ UNCHANGED <<plan, registry, child, watch, tasks, timers>>

Stop ==
  /\ Interpreting({"Stop"})
  /\ ending' = [ending EXCEPT !.operation = OperationFailures]
  /\ Retire([parent EXCEPT !.next = @ + 1])
  /\ UNCHANGED <<plan, registry, child, watch, tasks, timers>>

Create ==
  /\ Interpreting({"Create"})
  /\ InterpretCreations
  /\ UNCHANGED <<inbox, watch, tasks, timers>>

Establish ==
  /\ parent.phase = "Live"
  /\ EstablishChild \/ ReceiveStartup \/ ReceiveStartupFailure
  /\ UNCHANGED <<inbox, watch, tasks, timers>>

(***************************************************************************)
(* Between batches: the control lane, due timers and local events          *)
(***************************************************************************)
Receiving == Idle /\ AtBoundary

ReceiveControl ==
  /\ Receiving
  /\ inbox.queue # <<>>
  /\ inbox' = [inbox EXCEPT !.seen = Append(@, Head(inbox.queue)), !.queue = Tail(@)]
  /\ UNCHANGED <<plan, parent, registry, child, ending, watch, tasks, timers>>

PopDue(key) ==
  /\ Receiving
  /\ timers[key] # 0
  /\ inbox' = [inbox EXCEPT !.seen = Append(@, Event("TimerElapsed", key, timers[key]))]
  /\ timers' = [timers EXCEPT ![key] = 0]
  /\ UNCHANGED <<plan, parent, registry, child, ending, watch, tasks>>

(* The ready registrations. *)
ReadyObservations == {i \in DOMAIN watch.pending : Published(watch.pending[i].id)}

(* into_local sends a child's end through the control lane, behind the reports
   the child sent, and hands a peer's over. *)
IntoLocal(source, event) ==
  IF source = "Peer" THEN [inbox EXCEPT !.seen = Append(@, event)]
  ELSE [inbox EXCEPT !.queue = Append(@, event)]

FailedTasks == {task \in tasks : task.state = "Failed"}

(* The source that yielded goes last in the next biased selection. *)
NextObservation ==
  LET ready == ReadyObservations
      i == CHOOSE i \in ready : \A j \in ready : i <= j
      pending == watch.pending[i]
  IN /\ Receiving
     /\ ready # {}
     /\ watch.source = "Observation" \/ FailedTasks = {}
     /\ inbox' = IntoLocal(pending.source,
                           Event(IF pending.source = "Peer" THEN "PeerStopped" ELSE "ChildStopped",
                                 pending.id, 0))
     /\ watch' = [watch EXCEPT !.pending = RemoveAt(@, i), !.source = "Startup"]
     /\ UNCHANGED <<plan, parent, registry, child, ending, tasks, timers>>

(* LocalParentReports: a child's report enters the lane or is refused. *)
Reported(id) ==
  LET report == Event("ChildReport", id, 0)
  IN report \in Range(inbox.seen \o inbox.queue) \/ id \in inbox.refused

ChildReports(id) ==
  /\ plan.reports
  /\ child[id].state = "Live"
  /\ ~Reported(id)
  /\ IF inbox.open THEN Inject(Event("ChildReport", id, 0))
     ELSE inbox' = [inbox EXCEPT !.refused = @ \cup {id}]
  /\ UNCHANGED <<plan, parent, registry, child, ending, watch, tasks, timers>>

(***************************************************************************)
(* Retirement                                                              *)
(***************************************************************************)
OwnerCancels ==
  /\ Receiving
  /\ Retire(parent)
  /\ UNCHANGED <<plan, registry, child, ending, watch, tasks, timers>>

TaskFails ==
  /\ Receiving
  /\ watch.source = "Startup" \/ ReadyObservations = {}
  /\ \E task \in FailedTasks : tasks' = tasks \ {task}
  /\ watch' = [watch EXCEPT !.source = "Observation"]
  /\ Retire(parent)
  /\ UNCHANGED <<plan, registry, child, ending, timers>>

(* The driver's future is dropped at an await: a message taken for its send
   is gone, a starting child stays in its row. *)
Abandon ==
  /\ parent.phase = "Live"
  /\ "Abandon" \in plan.faults
  /\ parent.waiting \in {"Sending", "Startup", "Joining"}
  /\ Retire([parent EXCEPT !.waiting = None,
                           !.lost = IF parent.waiting = "Sending" THEN {Item.arg} ELSE {},
                           !.next = IF parent.waiting = "Sending" THEN @ + 1 ELSE @])
  /\ UNCHANGED <<plan, registry, child, ending, watch, tasks, timers>>

(* Exact observations are taken, their tasks revoked; children are next. *)
TakeObservations ==
  /\ parent.phase = "Retiring"
  /\ watch.open
  /\ watch' = [watch EXCEPT !.open = FALSE, !.exact = [obs \in Observations |-> 0]]
  /\ EnterPosition(1)
  /\ UNCHANGED <<inbox, tasks, timers>>

RetireChildren == RetireChildTasks /\ UNCHANGED <<inbox, watch, tasks, timers>>

(* The terminal report is sent, then the capabilities are disposed. *)
FinishRetirement ==
  /\ parent.phase = "Retiring"
  /\ ~registry.installed
  /\ parent' = [parent EXCEPT !.phase = "Retired"]
  /\ timers' = [key \in Timers |-> 0]
  /\ UNCHANGED <<plan, registry, child, ending, inbox, watch, tasks>>

(* receive_settlement: every joined task's event or failure is kept. *)
SettleTask(task) ==
  /\ parent.phase = "Retired"
  /\ task.state \in {"Returned", "Failed"}
  /\ inbox' = IF task.state = "Returned"
                THEN [inbox EXCEPT !.returned = Append(@, TaskEvent(task))] ELSE inbox
  /\ tasks' = tasks \ {task}
  /\ UNCHANGED <<plan, parent, registry, child, ending, watch, timers>>

(***************************************************************************)
(* The system                                                              *)
(***************************************************************************)
Interpret ==
  \/ Deliver \/ SendFrom \/ Control \/ Announce \/ ObserveTermination
  \/ Shutdown \/ RequestActorShutdown \/ ObserveEstablished \/ CancelObservation
  \/ StartTask \/ Schedule \/ ReportTerminalOutcome \/ Commit \/ Create \/ Establish \/ Stop

(* What an await of the interpreter is resumed by *)
Resumes == SendFrom \/ RequestActorShutdown \/ Establish

Receive == ReceiveControl \/ (\E key \in Timers : PopDue(key)) \/ NextObservation \/ TaskFails

RetirementStep == TakeObservations \/ RetireChildren \/ FinishRetirement

ChildMoves(id) == ChildStep(id)
                  /\ UNCHANGED <<plan, parent, registry, ending, inbox, watch, tasks, timers>>
ChildAdvances(id) == ChildProgress(id)
                     /\ UNCHANGED <<plan, parent, registry, ending, inbox, watch, tasks, timers>>

Observe(task) == DecideObservation(task) \/ ReportTask(task) \/ SettleTask(task)

Next ==
  \/ Interpret \/ Receive \/ RetirementStep \/ OwnerCancels \/ Abandon
  \/ \E id \in Ids : ChildMoves(id) \/ ChildReports(id)
  \/ \E task \in tasks : Observe(task) \/ Work(task)

(* The actor, its children and its observation tasks are polled; a user's
   worker future, a report, a cancellation or a drop need not happen. *)
Fairness ==
  /\ WF_vars(Resumes)
  /\ WF_vars(RetirementStep)
  /\ \A id \in Ids : WF_vars(ChildAdvances(id))
  /\ WF_vars(\E task \in tasks : Observe(task))

Spec == Init /\ [][Next]_vars /\ Fairness

(***************************************************************************)
(* Properties                                                              *)
(***************************************************************************)
(* The registry's expects and panics are unreachable: no row is recorded over
   another, no startup failure has a phase its producer cannot return, the
   order holds exactly the rows retirement owes facts for, each once, and a
   running child is always one retirement will reach. *)
RegistrySound ==
  /\ ~registry.panicked
  /\ \A at \in Positions :
       /\ Cardinality(Range(registry.order[at])) = Len(registry.order[at])
       /\ \A id \in Ids : id \in Range(registry.order[at])
                            <=> position[id] = at /\ (Owned(registry.rows[id])
                                  \/ registry.rows[id].binding = "Projection")
  /\ \A id \in Ids : child[id].state \notin {"Absent", "Joined"} => Owned(registry.rows[id])
  /\ \A a, b \in Ids : /\ a # b
                       /\ registry.rows[a] # NoRow
                       /\ registry.rows[b] # NoRow
                       => registry.rows[a].route # registry.rows[b].route

(* A child whose initialization was rejected and whose receipt is clean owes
   nothing more than its report. *)
CleanRejection(id) == child[id].end = "InitializationRejected" /\ child[id].notified

(* Once the actor retired, every child it ever spawned has joined and is
   accounted for: handed over as retired, named in a failure, or cleanly
   rejected at startup; the descendants' report says no less than each child's
   own, and no notification that failed is passed over.  The origins of these
   facts tell the children apart by creation and by route alike.  Until then the
   registry is sound. *)
ChildrenExact ==
  /\ RegistrySound
  /\ parent.phase = "Retired" =>
       /\ \A id \in Ids : child[id].state # "Absent" =>
            LET retired == {i \in DOMAIN ending.retired : ending.retired[i].creation_id = id}
                failures == {i \in DOMAIN ending.failures : ending.failures[i].origin.creation_id = id} IN
            /\ child[id].state = "Joined"
            /\ Cardinality(retired) <= 1
            /\ Cardinality(failures) <= 1
            /\ retired # {} \/ failures # {} \/ CleanRejection(id)
            /\ CombineReports(ending.report, ReportOf(id)) = ending.report
            /\ ~child[id].notified => ending.report # Clean
       /\ LET origins == Range(ending.retired)
                         \cup {ending.failures[i].origin : i \in DOMAIN ending.failures}
          IN \A one, other \in origins : one # other => /\ one.creation_id # other.creation_id
                                                       /\ one.nonce # other.nonce

Log == inbox.seen \o inbox.queue \o inbox.returned
Concludes(n) == {i \in DOMAIN Log : Log[i].n = n
                                    /\ Log[i].kind \in {"ObservationStopped", "ObservationCancelled"}}
Deciding(n) == \E task \in tasks : /\ task.kind = "Observe"
                                   /\ task.n = n
                                   /\ task.state \in {"Decided", "Returned"}

(* Every granted relationship is told Started before anything else, then
   concluded at most once, stopped or cancelled and never both; a relationship
   that left the map while the actor lived is concluded or about to be, and
   no event of one still in the map exists. *)
ExactObservations ==
  \A n \in DOMAIN watch.issued :
    LET granted == watch.issued[n]
        starts == {i \in DOMAIN Log : Log[i] = Event("ObservationStarted", granted.id, n)}
    IN /\ Cardinality(starts) = 1
       /\ Cardinality(Concludes(n)) + (IF Deciding(n) THEN 1 ELSE 0) <= 1
       /\ \A i \in starts, j \in Concludes(n) : i < j
       /\ watch.exact[granted.obs] = n => Concludes(n) = {} /\ ~Deciding(n)
       /\ watch.open /\ watch.exact[granted.obs] # n => Concludes(n) # {} \/ Deciding(n)

(* A parent that learns of a child's end through its control lane has been
   given every report the child made before it. *)
ReportsFirst ==
  \A i, j \in DOMAIN Log :
    /\ Log[i].kind \in {"ChildStopped", "ObservationStopped"}
    /\ Log[j] = Event("ChildReport", Log[i].id, 0)
    => j < i

MessageOps ==
  {"Delivery", "EstablishedDelivery", "CustomerLogical", "CustomerRejectedLogical",
   "CustomerEstablished", "CustomerRejectedEstablished", "DiagnosticLogical",
   "DiagnosticEstablished", "AssignWorker", "ChildDelivery", "ChildInput", "ProxyOperation"}

(* Every message an item carries is in one place: still in its item or on its
   way, with the recipient, or back in the rejected item; only a driver dropped
   in the middle of a send destroys one. *)
MessageCustody ==
  \A i \in DOMAIN plan.script : plan.script[i].op \in MessageOps =>
    LET message == plan.script[i].arg
        unsettled == IF i >= parent.next THEN 1 ELSE 0
        delivered == FoldSet(LAMBDA id, n : n + Cardinality(
                       {k \in 1..Len(child[id].user \o child[id].kept \o child[id].control) :
                          (child[id].user \o child[id].kept \o child[id].control)[k] = message}),
                       0, Ids)
        returned == Cardinality({k \in DOMAIN parent.replies : parent.replies[k].item.arg = message})
        lost == IF message \in parent.lost THEN 1 ELSE 0
    IN /\ unsettled + delivered + returned + lost = 1
       /\ "Abandon" \notin plan.faults => lost = 0

(* The outcome an actor publishes for itself is the first one selected in the
   batch it is interpreting, never one left over from a batch that continued;
   its failure assessment forgets no refusal of an earlier batch. *)
OutcomeScoped ==
  /\ ending.selected # None =>
       \E i \in 1..(parent.next - 1) :
         /\ plan.script[i].op = "ReportTerminalOutcome"
         /\ plan.script[i].arg = ending.selected
         /\ \A j \in i..(parent.next - 1) : plan.script[j].op # "Commit"
  /\ parent.phase = "Retired" /\ "Abandon" \notin plan.faults =>
       (ending.operation = "FailuresFound"
          <=> \E reply \in Range(parent.replies) : reply.status \notin {"Accepted", "Withheld"})

(* What the actor is told and tells is in order: its relationships are exact, a
   child's reports come before its end, and its own outcome is of its batch. *)
SignalsExact == ExactObservations /\ ReportsFirst /\ OutcomeScoped

(* An item that waits for a child is settled, and an actor that begins to
   retire returns every child, whatever the children's ends and wherever the
   driver was when it was dropped. *)
RetirementReturns ==
  /\ (parent.waiting # None) ~> (parent.waiting = None)
  /\ (parent.phase = "Retiring")
       ~> (parent.phase = "Retired" /\ \A task \in tasks : task.kind # "Observe")

=============================================================================
