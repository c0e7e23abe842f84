----------------------------- MODULE LocalHost -----------------------------
(***************************************************************************)
(* One actor in its local environment, from spawn_local_execution to the   *)
(* join its owner receives: activation with address reservation and the    *)
(* private binding, the event sources a live actor rotates between, the    *)
(* interpretation of its actions, retirement, termination publication and  *)
(* the settlement of its capability tasks.  The actor runs on one task;    *)
(* its owner, senders, shutdown requesters, capability tasks and time are  *)
(* the other processes.                                                    *)
(*                                                                         *)
(* Behaviour folds and interpretations are user or library code: each may  *)
(* take any result its type allows.  The mailbox, oneshot channels and the *)
(* address table are external and modelled by what the code relies on.     *)
(* The interpreter holds a control sender as long as the consumer lives,   *)
(* so recv never ends and Completion::Exhausted is not reached here.       *)
(***************************************************************************)
EXTENDS TerminalProjection, Naturals, SequencesExt

CONSTANTS Launches,       \* the actors to follow: mode, effects and clients
          Messages,       \* user messages, each sent at most once
          Fences,         \* entity fences, each enqueued at most once
          Capacity,       \* effective mailbox capacity
          MaxAdmissions   \* source rows the behaviour's settlements offer in all

VARIABLES launch, phase, active, lane, cancellation, binding, table, work,
          rotation, retiring, outcome, published, owner, requester, log

vars == <<launch, phase, active, lane, cancellation, binding, table, work,
          rotation, retiring, outcome, published, owner, requester, log>>

(* A launch path ("root", "child" or "entity"), what the behaviour uses (tasks,
   timers, reports, sources, children, services, an observer of its end) and
   the calls made on its endpoint (items of the two kinds, "Shutdown"). *)
mode == launch.mode
effects == launch.effects

(* A child or an entity is committed privately to its owner, a root announces
   itself at publication; only an entity's lane carries fences. *)
RootNotice == mode = "root"
PrivateBinding == mode \in {"child", "entity"}
EntityLane == mode = "entity"

Items == Messages \cup Fences
None == "None"
NoOutcome == Guarded("None")
NoReport == Report("None", "None")

(* The Driver's Result: how execution ended *)
Disposed(error, detail) == [ok |-> FALSE, error |-> error, detail |-> detail]
Completed(detail) == [ok |-> TRUE, error |-> None, detail |-> detail]

(***************************************************************************)
(* State: LocalEnvironment::prepare and spawn_local_execution              *)
(***************************************************************************)
(* mailbox_channel(config), its consumer and Admission *)
PreparedLane ==
  [user |-> <<>>, control |-> <<>>, admission |-> TRUE, consumer |-> TRUE,
   announced |-> FALSE]

(* Whether the actor's hosts select a Runtime with an interpreter factory.  Its
   service is absent until guarded startup constructs it. *)
SuppliedServices == "Service" \in effects
NativeServices == IF SuppliedServices THEN "Absent" ELSE None

PreparedWork ==
  [service |-> NativeServices, progress |-> None, source |-> None, stop |-> FALSE, settlements |-> <<>>,
   task |-> None, timer |-> FALSE, selected |-> FALSE, operation |-> "NoFailuresFound",
   admissions |-> 0]

PreparedRetirement ==
  [disposition |-> Disposed(None, None), received |-> None, acquired |-> None, unread |-> FALSE,
   control |-> <<>>, user |-> <<>>, report |-> "Open"]

PreparedRotation == [event |-> "Mailbox", settlement |-> "Control"]

Init ==
  /\ launch \in Launches
  /\ phase = "Prepared"
  /\ active = FALSE
  /\ lane = PreparedLane
  /\ cancellation = [sender |-> "Held", receiver |-> TRUE, request |-> FALSE]
  /\ binding = [startup |-> "Pending", ack |-> None]
  /\ table \in {"Free", "Foreign"}
  /\ work = PreparedWork
  /\ rotation = PreparedRotation
  /\ retiring = PreparedRetirement
  /\ outcome = NoOutcome
  /\ published = [termination |-> None, notification |-> None, report |-> NoReport]
  /\ owner = [state |-> "Starting", result |-> None]
  /\ requester = "Idle"
  /\ log = [accepted |-> <<>>, served |-> <<>>, replies |-> [item \in Items |-> None],
            turn |-> FALSE]

(***************************************************************************)
(* Driver::reject and Driver::complete, the two ways into retirement       *)
(***************************************************************************)

Retire(disposition) ==
  /\ phase' = "Retiring"
  /\ retiring' = [retiring EXCEPT !.disposition = disposition]

(***************************************************************************)
(* Activation                                                              *)
(***************************************************************************)
Folds == {"Continue", "Stop", "Error", "Panic"}

(* ExecutionPhase::Prepared: the initialization fold *)
Initialize ==
  /\ phase = "Prepared"
  /\ \E fold \in Folds :
       \/ /\ fold \in {"Continue", "Stop"}
          /\ phase' = "Activating"
          /\ work' = [work EXCEPT !.progress = "Original", !.stop = (fold = "Stop")]
          /\ UNCHANGED retiring
       \/ /\ fold = "Error"
          /\ Retire(Disposed("BehaviorFailed", None))
          /\ UNCHANGED work
       \/ /\ fold = "Panic"
          /\ Retire(Disposed("InitializationPanicked", None))
          /\ UNCHANGED work
  /\ UNCHANGED <<launch, active, lane, cancellation, binding, table, rotation, outcome,
                 published, owner, requester, log>>

(* LocalEnvironment::activate up to the acknowledgement: the interpreter's
   service is constructed (the factory may panic), the address is reserved, the
   endpoint is committed privately to the owner. *)
InitializeServices == [work EXCEPT !.service = IF @ = "Absent" THEN "Constructed" ELSE @]

ConstructionPanics ==
  /\ phase = "Activating"
  /\ SuppliedServices
  /\ Retire(Disposed("ActivationPanicked", None))
  /\ UNCHANGED <<table, binding, work>>

ReserveAddress ==
  /\ phase = "Activating"
  /\ table = "Foreign"
  /\ work' = InitializeServices
  /\ Retire(Disposed("ActivationFailed", "Address"))
  /\ UNCHANGED <<table, binding>>

CommitBinding ==
  /\ phase = "Activating"
  /\ table = "Free"
  /\ work' = InitializeServices
  /\ table' = "Reserved"
  /\ \/ /\ RootNotice
        /\ phase' = "Committing"
        /\ UNCHANGED <<binding, retiring>>
     \/ /\ PrivateBinding
        /\ binding.startup = "Pending"
        /\ binding' = [startup |-> "Sent", ack |-> "Awaited"]
        /\ phase' = "Acknowledging"
        /\ UNCHANGED retiring
     \/ /\ PrivateBinding
        /\ binding.startup = "Closed"
        /\ Retire(Disposed("ActivationFailed", "BindingAbandoned"))
        /\ UNCHANGED binding

Activate ==
  /\ ConstructionPanics \/ ReserveAddress \/ CommitBinding
  /\ UNCHANGED <<launch, active, lane, cancellation, rotation, outcome, published,
                 owner, requester, log>>

(* The same poll_fn that borrows the acknowledgement; cancellation is not
   polled here, so only the owner's answer or its disappearance moves it. *)
ReceiveAcknowledgement ==
  /\ phase = "Acknowledging"
  /\ \/ /\ binding.ack = "Given"
        /\ phase' = "Committing"
        /\ UNCHANGED retiring
     \/ /\ binding.ack = "Dropped"
        /\ Retire(Disposed("ActivationFailed", "BindingAbandoned"))
  /\ UNCHANGED <<launch, active, lane, cancellation, binding, table, work, rotation, outcome,
                 published, owner, requester, log>>

(***************************************************************************)
(* Interpretation: commit of the initialization or of one event's actions  *)
(***************************************************************************)
Completions == {"Accepted", "Rejected", "Corrupt"}
Effects == {None} \cup (effects \cap {"Task", "Timer", "Report", "Service"})

(* A supplied request reaches the actor's own service, which it expects. *)
InterpretSupplied(service) == IF service = "Constructed" THEN service ELSE "unreachable"

(* What the capabilities did before the interpretation ended or unwound. *)
Performed(effect) ==
  [work EXCEPT !.task = IF effect = "Task" /\ @ = None THEN "Running" ELSE @,
               !.timer = @ \/ effect = "Timer",
               !.service = IF effect = "Service" THEN InterpretSupplied(@) ELSE @,
               !.selected = @ \/ effect = "Report"]

(* Variant: the selection survives a Continue action. *)
KeepTerminalReports(interpreter) == interpreter

(* finish_terminal_reports: Continue discards the action-scoped selection. *)
FinishTerminalReports(interpreter) ==
  [interpreter EXCEPT !.selected = @ /\ interpreter.stop]

(* ActionInterpreter::commit returning with a completed interpretation *)
CommitActions(effect, status) ==
  FinishTerminalReports(
    [Performed(effect) EXCEPT
       !.progress = None,
       !.operation = CombineFailures(@, Found(status # "Accepted"))])

(* The Driver pushes the settlement first and then classifies its status. *)
Settle(status) ==
  CASE status = "Corrupt" -> Retire(Disposed("SettlementFailed", "Corrupt"))
    [] status = "Rejected" /\ phase = "Committing" ->
         Retire(Disposed("SettlementFailed", "Rejected"))
    [] OTHER ->
         IF work.stop THEN Retire(Completed("Stopped"))
         ELSE phase' = "Driving" /\ UNCHANGED retiring

CompleteInterpretation ==
  \E effect \in Effects, status \in Completions :
    /\ work' = [CommitActions(effect, status) EXCEPT !.settlements = <<"Offer">> \o @]
    /\ active' = TRUE
    /\ Settle(status)
    /\ log' = [log EXCEPT !.turn = work.stop /\ (effect = "Report")]

(* The reply was acquired and then its disposed producer unwound: the
   interpretation stays in the Driver's own lane. *)
UnwindAfterReply(panic) ==
  \E status \in {"Accepted", "Corrupt"} :
    /\ work' = CommitActions(None, status)
    /\ active' = TRUE
    /\ phase' = "Retiring"
    /\ retiring' = [retiring EXCEPT !.disposition = Disposed(panic, None),
                                    !.received = IF status = "Corrupt" THEN "Corrupt" ELSE "Complete"]
    /\ UNCHANGED log

(* No reply: a poll unwound, or the unit return left the work unfinished. *)
AbandonInterpretation(error) ==
  \E effect \in Effects :
    /\ work' = [IF error = "InterpreterContractFailed"
                  THEN FinishTerminalReports(Performed(effect)) ELSE Performed(effect)
                EXCEPT !.progress = "Interpreting"]
    /\ Retire(Disposed(error, None))
    /\ UNCHANGED <<active, log>>

Interpret ==
  /\ phase \in {"Committing", "Applying"}
  /\ LET panic == IF phase = "Committing" THEN "ActivationPanicked" ELSE "HostExecutionPanicked"
     IN \/ CompleteInterpretation
        \/ UnwindAfterReply(panic)
        \/ AbandonInterpretation(panic)
        \/ AbandonInterpretation("InterpreterContractFailed")
  /\ UNCHANGED <<launch, lane, cancellation, binding, table, rotation, outcome, published,
                 owner, requester>>

(***************************************************************************)
(* The live actor: settlement turns, publication, event acquisition        *)
(***************************************************************************)
(* The first row that still takes part in settlement; 0 when there is none. *)
Row == SelectInSeq(work.settlements, LAMBDA turn : turn # "Retained")

DropRow == [work EXCEPT !.settlements = RemoveAt(@, Row)]

(* admit_source: an admitted row comes back as a control event; the lane it
   enters is the actor's own, live while its effects commit. *)
AdmitSource ==
  [lane EXCEPT !.control = Append(@, IF lane.consumer THEN "Source" ELSE "unreachable")]

(* ActiveLocalEnvironment::offer_next *)
Offer ==
  /\ phase = "Driving"
  /\ Row > 0
  /\ work.settlements[Row] = "Offer"
  /\ \/ /\ work' = DropRow
        /\ UNCHANGED <<phase, retiring, lane>>
     \/ /\ "Source" \in effects
        /\ "Retained" \notin Range(work.settlements)
        /\ work' = [work EXCEPT !.settlements[Row] = "Retained"]
        /\ UNCHANGED <<phase, retiring, lane>>
     \/ /\ "Source" \in effects
        /\ work.admissions < MaxAdmissions
        /\ work' = [work EXCEPT !.settlements[Row] = "Await", !.admissions = @ + 1]
        /\ lane' = AdmitSource
        /\ UNCHANGED <<phase, retiring>>
     \/ \E error \in {"HostExecutionPanicked", "InterpreterContractFailed"} :
          /\ work' = [DropRow EXCEPT !.source = "Offering"]
          /\ Retire(Disposed(error, None))
          /\ UNCHANGED lane
  /\ UNCHANGED <<launch, active, cancellation, binding, table, rotation, outcome, published,
                 owner, requester, log>>

(* ActiveLocalEnvironment::publish: an unread cancellation wins, otherwise
   the reservation becomes a lease and a root's notice is sent. *)
TakeCancellation ==
  /\ cancellation.receiver
  /\ cancellation.request
  /\ cancellation' = [cancellation EXCEPT !.receiver = FALSE, !.request = FALSE]
  /\ Retire(Completed("OwnerCancellation"))

Publish ==
  /\ phase = "Driving"
  /\ Row = 0
  /\ table = "Reserved"
  /\ \/ TakeCancellation /\ UNCHANGED <<table, binding>>
     \/ /\ ~cancellation.request
        /\ table' = "Published"
        /\ binding' = [binding EXCEPT !.startup = IF RootNotice /\ @ = "Pending" THEN "Sent" ELSE @]
        /\ UNCHANGED <<phase, retiring, cancellation>>
  /\ UNCHANGED <<launch, active, lane, work, rotation, outcome, published, owner, requester, log>>

(* Driver: the acquired event is folded; the fold consumes it either way. *)
Fold(interpreter) ==
  \/ \E step \in {"Continue", "Stop"} :
       /\ phase' = "Applying"
       /\ work' = [interpreter EXCEPT !.progress = "Original", !.stop = (step = "Stop")]
       /\ UNCHANGED retiring
  \/ \E error \in {"BehaviorFailed", "TransitionPanicked"} :
       /\ Retire(Disposed(error, None))
       /\ work' = interpreter

(* Variant: a fixed priority instead of the rotation. *)
DeadlineFirst(source) == <<"Timer", "Mailbox", "Local">>

(* EventSource::order and SettlementSource::order *)
EventOrder(source) ==
  CASE source = "Mailbox" -> <<"Mailbox", "Local", "Timer">>
    [] source = "Local" -> <<"Local", "Timer", "Mailbox">>
    [] source = "Timer" -> <<"Timer", "Mailbox", "Local">>

SettlementOrder(source) ==
  IF source = "Control" THEN <<"Control", "Local">> ELSE <<"Local", "Control">>

FirstReady(order, ready) == order[SelectInSeq(order, LAMBDA source : source \in ready)]

(* ActivationTasks::next_event joins quiet tasks and stops at the others. *)
LocalReady == work.task \in {"Event", "Failed"}

MailboxReady ==
  lane.control # <<>> \/ lane.user # <<>> \/ (~lane.admission /\ ~lane.announced)

(* Received::Control.  When both lanes hold items either may be served: the
   mailbox's aging policy decides. *)
ReceiveControl ==
  /\ lane.control # <<>>
  /\ lane' = [lane EXCEPT !.control = Tail(@)]
  /\ Fold(work)
  /\ UNCHANGED log

(* Received::User through M::into_event: a fence is answered here and no
   event results. *)
ReceiveUser ==
  /\ lane.user # <<>>
  /\ LET item == Head(lane.user) IN
       /\ lane' = [lane EXCEPT !.user = Tail(@)]
       /\ \/ /\ item \in Messages
             /\ log' = [log EXCEPT !.served = Append(@, item)]
             /\ Fold(work)
          \/ /\ item \in Fences
             /\ log' = [log EXCEPT !.served = Append(@, item), !.replies[item] = "Ok"]
             /\ UNCHANGED <<phase, work, retiring>>
          \/ /\ item \in Messages
             /\ phase' = "Retiring"
             /\ retiring' = [retiring EXCEPT !.disposition = Disposed("HostExecutionPanicked", None),
                                             !.acquired = item]
             /\ UNCHANGED <<log, work>>

(* Received::UserLaneClosed: the control lane stays admissible. *)
ReceiveClosed ==
  /\ lane.control = <<>>
  /\ lane.user = <<>>
  /\ lane' = [lane EXCEPT !.announced = TRUE]
  /\ UNCHANGED <<phase, work, retiring, log>>

AcquireMailbox ==
  /\ ReceiveControl \/ ReceiveUser \/ ReceiveClosed
  /\ rotation' = [rotation EXCEPT !.event = "Local"]

JoinedTask == [work EXCEPT !.task = None]

FailCapability(interpreter) ==
  /\ work.task = "Failed"
  /\ Retire(Completed("CapabilityFailed"))
  /\ work' = interpreter

AcquireLocal ==
  /\ \/ /\ work.task = "Event"
        /\ Fold(JoinedTask)
        /\ rotation' = [rotation EXCEPT !.event = "Timer"]
     \/ FailCapability(JoinedTask) /\ UNCHANGED rotation
  /\ UNCHANGED <<lane, log>>

AcquireDeadline ==
  /\ Fold([work EXCEPT !.timer = FALSE])
  /\ rotation' = [rotation EXCEPT !.event = "Mailbox"]
  /\ UNCHANGED <<lane, log>>

(* One poll of ActiveLocalEnvironment::next: a ready cancellation precedes
   every source; the armed deadline may or may not have passed. *)
Acquire ==
  \E due \in BOOLEAN :
    /\ due => work.timer
    /\ LET ready == {source \in {"Mailbox", "Local", "Timer"} :
                       \/ source = "Mailbox" /\ MailboxReady
                       \/ source = "Local" /\ LocalReady
                       \/ source = "Timer" /\ due}
       IN /\ ready # {}
          /\ \/ /\ FirstReady(EventOrder(rotation.event), ready) = "Mailbox"
                /\ AcquireMailbox
             \/ /\ FirstReady(EventOrder(rotation.event), ready) = "Local"
                /\ AcquireLocal
             \/ /\ FirstReady(EventOrder(rotation.event), ready) = "Timer"
                /\ AcquireDeadline

NextEvent ==
  /\ phase = "Driving"
  /\ Row = 0
  /\ table = "Published"
  /\ \/ TakeCancellation /\ UNCHANGED <<lane, work, rotation, log>>
     \/ /\ ~cancellation.request
        /\ Acquire
        /\ UNCHANGED cancellation
  /\ UNCHANGED <<launch, active, binding, table, outcome, published, owner, requester>>

(* One poll of next_source: controls and local events only, on their own
   rotation; the awaiting row is offered again after the fold. *)
AcquireSource ==
  LET ready == {source \in {"Control", "Local"} :
                  \/ source = "Control" /\ lane.control # <<>>
                  \/ source = "Local" /\ LocalReady}
      offered(interpreter) == [interpreter EXCEPT !.settlements[Row] = "Offer"]
  IN /\ ready # {}
     /\ \/ /\ FirstReady(SettlementOrder(rotation.settlement), ready) = "Control"
           /\ lane' = [lane EXCEPT !.control = Tail(@)]
           /\ rotation' = [rotation EXCEPT !.settlement = "Local"]
           /\ Fold(offered(work))
        \/ /\ FirstReady(SettlementOrder(rotation.settlement), ready) = "Local"
           /\ rotation' = [rotation EXCEPT !.settlement = "Control"]
           /\ \/ work.task = "Event" /\ Fold(offered(JoinedTask))
              \/ FailCapability(offered(JoinedTask))
           /\ UNCHANGED lane

NextSource ==
  /\ phase = "Driving"
  /\ Row > 0
  /\ work.settlements[Row] = "Await"
  /\ \/ /\ TakeCancellation
        /\ work' = [work EXCEPT !.settlements[Row] = "Offer"]
        /\ UNCHANGED <<lane, rotation>>
     \/ /\ ~cancellation.request
        /\ AcquireSource
        /\ UNCHANGED cancellation
  /\ UNCHANGED <<launch, active, binding, table, outcome, published, owner, requester, log>>

(***************************************************************************)
(* Retirement: LocalEnvironment::receive_retirement, the active retire and *)
(* ApplicationCapabilities::receive_retirement                             *)
(***************************************************************************)
(* close_owner_cancellation keeps an accepted request nobody acquired; the
   deadline and the rotations have no reader from here on. *)
CloseCancellation ==
  /\ phase = "Retiring"
  /\ phase' = "Closing"
  /\ retiring' = [retiring EXCEPT !.unread = cancellation.receiver /\ cancellation.request]
  /\ cancellation' = [cancellation EXCEPT !.receiver = FALSE, !.request = FALSE]
  /\ work' = [work EXCEPT !.timer = FALSE, !.stop = FALSE, !.admissions = 0]
  /\ rotation' = PreparedRotation
  /\ UNCHANGED <<launch, active, lane, binding, table, outcome, published, owner, requester,
                 log>>

CloseAdmission ==
  /\ phase = "Closing"
  /\ phase' = "Draining"
  /\ lane' = [lane EXCEPT !.admission = FALSE]
  /\ UNCHANGED <<launch, active, cancellation, binding, table, work, rotation, retiring, outcome,
                 published, owner, requester, log>>

(* collect_retired_ingress through retain_at_retirement: messages are kept,
   fences are answered with their failure. *)
RetainAtRetirement(items) == SelectSeq(items, LAMBDA item : item \in Messages)

(* Variant: retained fences are dropped with the lane. *)
ForgetFences(replies, items) == replies

AnswerFences(replies, items) ==
  [item \in Items |-> IF item \in Fences /\ item \in Range(items)
                      THEN "Acknowledgement" ELSE replies[item]]

Drain ==
  /\ phase = "Draining"
  /\ phase' = "Disposing"
  /\ retiring' = [retiring EXCEPT !.control = lane.control, !.user = RetainAtRetirement(lane.user)]
  /\ log' = [log EXCEPT !.replies = AnswerFences(@, lane.user)]
  /\ lane' = [lane EXCEPT !.consumer = FALSE, !.user = <<>>, !.control = <<>>]
  /\ UNCHANGED <<launch, active, cancellation, binding, table, work, rotation, outcome, published,
                 owner, requester>>

(* Variant: actions that never committed are taken for a prepared actor's. *)
ForgetActions == IF active THEN "Retired" ELSE "Prepared"

ResidualPhase ==
  CASE active -> "Retired"
    [] ~active /\ work.progress # None -> "Uncommitted"
    [] OTHER -> "Prepared"

Residual(descendants, failed) ==
  [phase |-> ResidualPhase, progress |-> work.progress, source |-> work.source,
   settlements |-> work.settlements,
   tasks |-> IF work.task = None THEN {} ELSE {"Task"},
   operation |-> work.operation, descendants |-> descendants,
   capability |-> FALSE, retirement |-> failed,
   terminal_report |-> IF work.selected THEN "Ok" ELSE None,
   received |-> retiring.received, received_source |-> None, acquired |-> retiring.acquired,
   unread |-> retiring.unread, control |-> retiring.control, user |-> retiring.user]

(* Children report, the selected terminal report is sent, services and their
   construction owner are dropped under catch_unwind; then lease or
   reservation, control lane, commitment and acknowledgement go, and
   everything else moves into the outcome. *)
RetireCapabilities ==
  /\ phase = "Disposing"
  /\ phase' = "Retired"
  /\ table' = IF table = "Foreign" THEN table ELSE "Free"
  /\ binding' = [binding EXCEPT !.startup = IF @ = "Pending" THEN "Closed" ELSE @]
  /\ \E fault \in {None} \cup (effects \cap {"Child", "Service"}) :
       outcome' = FromDriver(retiring.disposition, FALSE,
         Residual(IF fault = "Child" THEN Report("NotEstablished", "FailuresFound") ELSE Clean,
                  fault = "Service"))
  /\ retiring' = [PreparedRetirement EXCEPT !.report = IF work.selected THEN "Sent" ELSE "Closed"]
  /\ work' = [PreparedWork EXCEPT !.task = work.task, !.service = None]
  /\ UNCHANGED <<launch, active, lane, cancellation, rotation, published, owner, requester,
                 log>>

(***************************************************************************)
(* LocalRetirement::retire, settle_local_outcome and the task's join       *)
(***************************************************************************)
(* Publication commits the fact; an observer's panic only marks the receipt,
   which is refused when nobody holds the task any more. *)
PublishOutcome ==
  /\ phase = "Retired"
  /\ phase' = "Settling"
  /\ \E receipt \in {"Ok"} \cup {"Panicked" : observer \in effects \cap {"Observer"}} :
       published' = [published EXCEPT
         !.termination = LocalTermination(outcome, retiring.report),
         !.notification = receipt]
  /\ UNCHANGED <<launch, active, lane, cancellation, binding, table, work, rotation, retiring,
                 outcome, owner, requester, log>>

(* ActivationTasks::receive_settlement joins every task into its lane. *)
JoinTask(residual) ==
  [residual EXCEPT !.tasks = {},
     !.control = IF work.task = "Event" THEN Append(@, "Task") ELSE @,
     !.capability = @ \/ work.task = "Failed"]

SettleTasks ==
  /\ phase = "Settling"
  /\ work.task # "Running"
  /\ phase' = "Joined"
  /\ outcome' = [outcome EXCEPT !.residual = JoinTask(@)]
  /\ UNCHANGED <<launch, active, lane, cancellation, binding, table, work, rotation, retiring,
                 published, owner, requester, log>>

ActorStep ==
  \/ Initialize \/ Activate \/ ReceiveAcknowledgement \/ Interpret \/ Offer \/ Publish
  \/ NextEvent \/ NextSource
  \/ CloseCancellation \/ CloseAdmission \/ Drain \/ RetireCapabilities
  \/ PublishOutcome \/ SettleTasks

(***************************************************************************)
(* The owner: spawn_local_with, OwnedActor, OwnedTask and ProjectedTask    *)
(***************************************************************************)
(* OwnerCancellationAuthority::request sends at most once; a closed receiver
   refuses it. *)
RequestOnce(channel) ==
  IF channel.sender = "Held"
    THEN [channel EXCEPT !.sender = "Sent", !.request = channel.receiver]
    ELSE channel

Disarm(channel) == [channel EXCEPT !.sender = IF @ = "Held" THEN "Dropped" ELSE @]

ownerEnvironment == <<launch, phase, active, lane, table, work, rotation, retiring, outcome,
                      requester, log>>

ReceiveStartup ==
  /\ owner.state = "Starting"
  /\ \/ /\ binding.startup = "Sent"
        /\ owner' = [owner EXCEPT !.state = IF RootNotice THEN "Owned" ELSE "Bound"]
        /\ binding' = [binding EXCEPT !.startup = "Taken"]
     \/ /\ binding.startup = "Closed"
        /\ owner' = [owner EXCEPT !.state = "Failing"]
        /\ UNCHANGED binding
  /\ UNCHANGED <<cancellation, published>>
  /\ UNCHANGED ownerEnvironment

(* OwnedActor::acknowledge_binding; a child's task is projected at once. *)
AcknowledgeBinding ==
  /\ owner.state = "Bound"
  /\ binding' = [binding EXCEPT !.ack = "Given"]
  /\ owner' = [owner EXCEPT !.state = IF mode = "child" THEN "Projected" ELSE "Owned"]
  /\ UNCHANGED <<cancellation, published>>
  /\ UNCHANGED ownerEnvironment

RequestRetirement ==
  /\ owner.state \in {"Owned", "Projected"}
  /\ cancellation.sender = "Held"
  /\ cancellation' = RequestOnce(cancellation)
  /\ UNCHANGED <<binding, owner, published>>
  /\ UNCHANGED ownerEnvironment

(* Drop of the startup future, the OwnedActor, the task or the join waiter:
   OwnerCancellationAuthority::drop requests, a held or undelivered binding
   disappears, a projection goes on by itself. *)
Abandon ==
  /\ owner.state \in {"Starting", "Bound", "Owned", "Projected", "Failing"}
  /\ cancellation' = RequestOnce(cancellation)
  /\ binding' = [startup |-> IF binding.startup = "Pending" THEN "Closed" ELSE binding.startup,
                 ack |-> IF binding.ack = "Awaited" THEN "Dropped" ELSE binding.ack]
  /\ owner' = [owner EXCEPT !.state = IF @ = "Projected" THEN "Detached" ELSE "Gone"]
  /\ UNCHANGED published
  /\ UNCHANGED ownerEnvironment

Joined == [ok |-> TRUE, outcome |-> outcome]

JoinedReport == FromJoined(Joined, published.notification)

(* OwnedTask::receive_finish: the join, then the receipt, then disposal. *)
ReceiveFinish ==
  /\ phase = "Joined"
  /\ owner.state = "Owned"
  /\ owner' = [state |-> "Finished", result |-> "Outcome"]
  /\ cancellation' = Disarm(cancellation)
  /\ UNCHANGED <<binding, published>>
  /\ UNCHANGED ownerEnvironment

(* startup_failure *)
StartupFailure ==
  /\ phase = "Joined"
  /\ owner.state = "Failing"
  /\ owner' = [state |-> "Finished", result |-> "SpawnError"]
  /\ cancellation' = Disarm(cancellation)
  /\ UNCHANGED <<binding, published>>
  /\ UNCHANGED ownerEnvironment

(* ProjectedTask::project: report and publish it, whoever still listens *)
Project ==
  /\ phase = "Joined"
  /\ owner.state \in {"Projected", "Detached"}
  /\ published.report = NoReport
  /\ published' = [published EXCEPT !.report = JoinedReport]
  /\ UNCHANGED <<binding, cancellation, owner>>
  /\ UNCHANGED ownerEnvironment

(* ProjectedTask::receive_retirement *)
ReceiveRetirement ==
  /\ owner.state = "Projected"
  /\ published.report # NoReport
  /\ owner' = [state |-> "Finished", result |-> "Outcome"]
  /\ cancellation' = Disarm(cancellation)
  /\ UNCHANGED <<binding, published>>
  /\ UNCHANGED ownerEnvironment

OwnerStep ==
  \/ ReceiveStartup \/ AcknowledgeBinding \/ ReceiveFinish \/ StartupFailure
  \/ Project \/ ReceiveRetirement

(***************************************************************************)
(* Senders and shutdown requesters                                         *)
(***************************************************************************)
(* Someone else can hold the endpoint: it was published or acknowledged.
   Calls are followed up to the join; a later one is refused the same way. *)
Reachable ==
  /\ phase # "Joined"
  /\ table = "Published" \/ binding.ack = "Given" \/ (RootNotice /\ binding.startup = "Taken")

senderEnvironment == <<launch, phase, active, cancellation, binding, table, work, rotation,
                       retiring, outcome, published, owner>>

Accept(item, reply) ==
  /\ lane.admission
  /\ Len(lane.user) < Capacity
  /\ lane' = [lane EXCEPT !.user = Append(@, item)]
  /\ log' = [log EXCEPT !.accepted = Append(@, item), !.replies[item] = reply]

Refuse(item, reply) ==
  /\ lane' = lane
  /\ log' = [log EXCEPT !.replies[item] = reply]

(* ActorRef::send_from waits for capacity; try_send_from returns at once. *)
Send(message) ==
  /\ Reachable
  /\ message \in launch.clients
  /\ log.replies[message] = None
  /\ \/ Accept(message, "Accepted")
     \/ ~lane.admission /\ Refuse(message, "Closed")
     \/ lane.admission /\ Len(lane.user) = Capacity /\ Refuse(message, "Full")
  /\ UNCHANGED requester
  /\ UNCHANGED senderEnvironment

(* ActorRef::fence *)
Fence(fence) ==
  /\ Reachable
  /\ fence \in launch.clients
  /\ log.replies[fence] = None
  /\ \/ EntityLane /\ Accept(fence, "Queued")
     \/ (~EntityLane \/ ~lane.admission) /\ Refuse(fence, "Enqueue")
  /\ UNCHANGED requester
  /\ UNCHANGED senderEnvironment

ShutdownRejection ==
  IF published.termination # None THEN "AlreadyStopped" ELSE "AlreadyStopping"

(* A root's lifecycle upgrades a weak control sender that retirement drops. *)
ControlReleased == RootNotice /\ phase \in {"Retired", "Settling", "Joined", "Dropped"}

(* request_actor_shutdown, one step per shared object it touches *)
RequestShutdown ==
  \/ /\ requester = "Idle"
     /\ Reachable
     /\ "Shutdown" \in launch.clients
     /\ requester' = IF published.termination # None \/ ControlReleased
                       THEN ShutdownRejection ELSE "Closing"
     /\ UNCHANGED lane
  \/ /\ requester = "Closing"
     /\ requester' = IF lane.admission THEN "Sending" ELSE ShutdownRejection
     /\ lane' = [lane EXCEPT !.admission = FALSE]
  \/ /\ requester = "Sending"
     /\ IF lane.consumer
          THEN /\ requester' = "Submitted"
               /\ lane' = [lane EXCEPT !.control = Append(@, "Shutdown")]
          ELSE requester' = ShutdownRejection /\ UNCHANGED lane

Shutdown == RequestShutdown /\ UNCHANGED <<senderEnvironment, log>>

(***************************************************************************)
(* Capability tasks and the executor                                       *)
(***************************************************************************)
EndTask ==
  /\ work.task = "Running"
  /\ phase # "Dropped"
  /\ \E result \in {None, "Event", "Failed"} : work' = [work EXCEPT !.task = result]
  /\ UNCHANGED <<launch, phase, active, lane, cancellation, binding, table, rotation, retiring,
                 outcome, published, owner, requester, log>>

(* The executor shuts down and drops the actor with its owner.  The Driver
   goes first: an active inbox still drains, the lease is released; then the
   Terminal guard classifies the actor as cancelled. *)
Teardown ==
  /\ phase \notin {"Joined", "Dropped"}
  /\ phase' = "Dropped"
  /\ lane' = [lane EXCEPT !.admission = FALSE, !.consumer = FALSE, !.user = <<>>, !.control = <<>>]
  /\ log' = [log EXCEPT !.replies = IF active THEN AnswerFences(@, lane.user) ELSE @]
  /\ table' = IF table = "Foreign" THEN table ELSE "Free"
  /\ outcome' = IF phase = "Settling" THEN outcome ELSE Guarded("Cancelled")
  /\ published' = IF phase = "Settling" THEN published
                  ELSE [published EXCEPT !.termination = LocalTermination(Guarded("Cancelled"), "Open")]
  /\ owner' = [owner EXCEPT !.state = "Gone"]
  /\ work' = PreparedWork
  /\ rotation' = PreparedRotation
  /\ retiring' = PreparedRetirement
  /\ UNCHANGED <<launch, active, cancellation, binding, requester>>

Next ==
  \/ ActorStep
  \/ OwnerStep \/ RequestRetirement \/ Abandon
  \/ \E message \in Messages : Send(message)
  \/ \E fence \in Fences : Fence(fence)
  \/ Shutdown
  \/ EndTask
  \/ Teardown

(* The executor polls the actor and its owner whenever they are woken;
   capability tasks end. *)
Fairness == WF_vars(ActorStep) /\ WF_vars(OwnerStep) /\ WF_vars(EndTask)

Spec == Init /\ [][Next]_vars /\ Fairness

(***************************************************************************)
(* Properties                                                              *)
(***************************************************************************)
MessagesOf(items) == SelectSeq(items, LAMBDA item : item \in Messages)

Ended == phase \in {"Retired", "Settling", "Joined"}

Acquired ==
  LET acquired == IF Ended THEN outcome.residual.acquired ELSE retiring.acquired
  IN IF acquired \in Messages THEN <<acquired>> ELSE <<>>

Waiting ==
  CASE lane.consumer -> lane.user
    [] Ended -> outcome.residual.user
    [] OTHER -> retiring.user

(* Every accepted message is served, held by the acquired lane, queued, or in
   the retirement the owner is given, once and in acceptance order; a fence
   is answered Ok only after everything accepted before it was served, and is
   never left unanswered once the lane is drained (local/ingress.rs,
   ActorRef::fence, terminal.rs from_local).  A torn down executor is the
   one exception: it takes the queue with it. *)
IngressConserved ==
  phase # "Dropped" =>
    /\ IsPrefix(log.served, log.accepted)
    /\ MessagesOf(log.accepted) = MessagesOf(log.served) \o Acquired \o MessagesOf(Waiting)
    /\ \A fence \in Fences :
         /\ (log.replies[fence] = "Ok") <=> (fence \in Range(log.served))
         /\ (log.replies[fence] = "Queued") <=> (lane.consumer /\ fence \in Range(lane.user))
    /\ (phase = "Joined" /\ HasCustody(FromLocal(outcome))) =>
         FromLocal(outcome).custody.user = MessagesOf(Waiting)

(* The code's own assertions and unreachable! arms: the owner acknowledges a
   binding the actor still awaits (launch.rs acknowledge_binding), the
   interpreter retires before the termination is published (termination.rs), a
   supplied service is there whenever an action asks for it (services.rs),
   and no residual phase falls outside the projection: the retirement keeps
   its custody, names an active variant exactly when the actor was active, and
   agrees with the startup failure's own conversion (terminal.rs, launch.rs). *)
AssertionsHold ==
  /\ (owner.state = "Bound" /\ phase # "Dropped") =>
       (phase = "Acknowledging" /\ binding.ack = "Awaited")
  /\ published.termination # "unreachable" /\ work.service # "unreachable"
  /\ "unreachable" \notin Range(lane.control)
  /\ phase = "Joined" =>
       LET projected == FromLocal(outcome) IN
         /\ HasCustody(projected)
         /\ active <=> (projected.variant \in ActiveVariants)
         /\ SpawnIntoRetirement(SpawnFromLocal(outcome, published.notification, JoinedReport))
              = projected

(* What owners and observers are told is what happened: a termination is
   published only after the address is released; the report selected by an
   actor's last action, and no earlier one, replaces a normal exit; a report
   that finds no failure and establishes retirement means every interpretation
   finished, no capability failed and every descendant did the same; a
   cancellation by the owner is the cause only if it was sent and read. *)
HonestReport ==
  /\ published.termination # None => table \in {"Free", "Foreign"}
  /\ (published.termination = "Selected") => log.turn
  /\ (phase = "Joined" /\ JoinedReport = Clean) =>
       /\ \/ Completion(FromLocal(outcome)) = "Stopped"
          \/ FromLocal(outcome).variant = "OwnerCancelled"
       /\ outcome.residual.progress = None
       /\ outcome.residual.received # "Corrupt"
       /\ work.task # "Failed"
       /\ outcome.residual.descendants = Clean
       /\ outcome.residual.operation = "NoFailuresFound"
  /\ (phase = "Joined" /\ outcome.kind = "Completed" /\ outcome.detail = "OwnerCancellation") =>
       (cancellation.sender = "Sent" /\ ~outcome.residual.unread)

(* A requested retirement ends in the join however busy the actor is, and no
   queued item waits forever behind recurring deadlines, task events and
   controls (EventSource and SettlementSource rotations, environment.rs). *)
HostReturns ==
  /\ (cancellation.sender = "Sent") ~> (phase \in {"Joined", "Dropped"})
  /\ \A item \in Items :
       (item \in Range(lane.user)) ~> (item \notin Range(lane.user))
=============================================================================
