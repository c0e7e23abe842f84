------------------------------ MODULE Children ------------------------------
(***************************************************************************)
(* The child bindings of one actor: the rows and order a creator keeps,    *)
(* the establishment of one native child (allocation, spawn, private       *)
(* binding, startup failure) and the ordered retirement traversal over     *)
(* every structural position.                                              *)
(*                                                                         *)
(* A child is LocalHost seen by its creator: it offers its endpoint on the *)
(* startup channel or closes it, awaits the acknowledgement, lives, drains *)
(* its lanes, publishes its termination, and its task joins.  What ends it *)
(* is the child's own affair; plan.faults bounds which ends are followed.  *)
(***************************************************************************)
EXTENDS TerminalProjection, Naturals, SequencesExt, FiniteSets

CONSTANTS Plans,      \* scripts of the parent, positions of its children, faults
          Ids,        \* creation ids
          MaxRoute,   \* u64::MAX of next_child_route
          Capacity    \* user mailbox capacity of every child

VARIABLES plan, parent, registry, child, ending

None == "None"
Positions == {1, 2}
position == plan.position

(***************************************************************************)
(* The child as its creator sees it                                        *)
(***************************************************************************)
StartupEnds == {"InitializationRejected", "InitializationPanicked", "AddressInUse",
                "IdsExhausted", "BindingAbandoned", "ActivationPanicked"}
Ends == StartupEnds \cup {"Stopped", "Failed", "Cancelled", "JoinError"}

AbsentChild ==
  [state |-> "Absent", end |-> None, startup |-> TRUE, ack |-> "Pending", requested |-> FALSE,
   admission |-> TRUE, user |-> <<>>, control |-> <<>>, kept |-> <<>>, notified |-> TRUE,
   projected |-> TRUE]

Residual(phase) ==
  [phase |-> phase, progress |-> IF phase = "Uncommitted" THEN "Original" ELSE None,
   source |-> None, tasks |-> {}, operation |-> "NoFailuresFound", descendants |-> Clean,
   capability |-> FALSE, retirement |-> FALSE, terminal_report |-> None, received |-> None,
   received_source |-> None, acquired |-> None]

(* The LocalOutcome a joined child hands over *)
Outcome(end) ==
  LET outcome(kind, detail, phase) ==
        [kind |-> kind, detail |-> detail, additional |-> FALSE, residual |-> Residual(phase)]
  IN CASE end = "InitializationRejected" -> outcome("BehaviorFailed", None, "Prepared")
       [] end = "InitializationPanicked" -> outcome(end, None, "Prepared")
       [] end \in {"AddressInUse", "IdsExhausted"} ->
            outcome("ActivationFailed", "Address", "Uncommitted")
       [] end = "BindingAbandoned" -> outcome("ActivationFailed", end, "Uncommitted")
       [] end = "ActivationPanicked" -> outcome(end, None, "Uncommitted")
       [] end = "Failed" -> outcome("BehaviorFailed", None, "Retired")
       [] end = "Cancelled" -> outcome("Completed", "OwnerCancellation", "Retired")
       [] OTHER -> outcome("Completed", "Stopped", "Retired")

Notification(id) == IF child[id].notified THEN "Ok" ELSE "Panicked"

ReportOf(id) ==
  FromJoined([ok |-> child[id].end # "JoinError", outcome |-> Outcome(child[id].end)],
             Notification(id))

Published(id) == child[id].state \in {"Stopped", "Joined"}

Terminates(id, end) ==
  child' = [child EXCEPT ![id].state = "Drained", ![id].end = end, ![id].startup = FALSE,
                         ![id].admission = FALSE, ![id].kept = @ \o child[id].user,
                         ![id].user = <<>>]

(* initialization, activation and the private commitment *)
ChildCommits(id) ==
  /\ child[id].state = "Spawned"
  /\ \/ /\ child[id].startup
        /\ child' = [child EXCEPT ![id].state = "Offered"]
     \/ /\ ~child[id].startup
        /\ Terminates(id, "BindingAbandoned")
     \/ \E end \in plan.faults \cap ((StartupEnds \ {"BindingAbandoned"}) \cup {"JoinError"}) :
          Terminates(id, end)

ChildAcknowledged(id) ==
  /\ child[id].state = "Offered"
  /\ \/ /\ child[id].ack = "Given"
        /\ child' = [child EXCEPT ![id].state = "Live"]
     \/ /\ child[id].ack = "Dropped"
        /\ Terminates(id, "BindingAbandoned")

ChildReceives(id) ==
  /\ child[id].state = "Live"
  /\ child[id].user # <<>>
  /\ child' = [child EXCEPT ![id].kept = Append(@, Head(child[id].user)),
                            ![id].user = Tail(@)]

(* A live child ends when its owner or a shutdown request says so, and may
   end by itself whenever it is polled. *)
Ending(id) == child[id].requested \/ "Shutdown" \in Range(child[id].control)

ChildEnds(id) ==
  /\ child[id].state = "Live"
  /\ \E end \in {IF child[id].requested THEN "Cancelled" ELSE "Stopped"}
                \cup (plan.faults \cap {"Failed", "JoinError"}) :
       Terminates(id, end)

ChildPublishes(id) ==
  /\ child[id].state = "Drained"
  /\ child' = [child EXCEPT ![id].state = "Stopped"]

(* The task joins; an observer's panic marks the termination receipt, a user
   projection may panic. *)
ChildJoins(id) ==
  /\ child[id].state = "Stopped"
  /\ \E fault \in {None} \cup (plan.faults \cap {"Notification", "Projection"}) :
       child' = [child EXCEPT ![id].state = "Joined", ![id].notified = (fault # "Notification"),
                              ![id].projected = (fault # "Projection")]

ChildProgress(id) ==
  \/ ChildCommits(id) \/ ChildAcknowledged(id) \/ ChildReceives(id)
  \/ (Ending(id) /\ ChildEnds(id))
  \/ ChildPublishes(id) \/ ChildJoins(id)

ChildStep(id) == ChildProgress(id) \/ ChildEnds(id)

(***************************************************************************)
(* ChildBinding: creations and creation_order of every position            *)
(***************************************************************************)
Row(binding, route) ==
  [binding |-> binding, route |-> route, joined |-> None, primary |-> None, notified |-> TRUE,
   report |-> Clean]
NoRow == Row(None, 0)

(* ChildBindings::new_in *)
NewBindings ==
  [rows |-> [id \in Ids |-> NoRow], order |-> [at \in Positions |-> <<>>], route |-> 0,
   installed |-> TRUE, panicked |-> FALSE]

(* creation_at: the authority a row grants; an absent row grants none *)
CreationAt(id) ==
  CASE id \notin Ids -> None
    [] registry.rows[id].binding = "Established" -> "Established"
    [] registry.rows[id].binding = None -> None
    [] OTHER -> "Unavailable"

(* Rows whose facts retirement must still collect enter creation_order. *)
Owned(row) ==
  \/ row.binding \in {"Starting", "Raw", "Established"}
  \/ row.binding = "StartupRejected" /\ (row.primary # None \/ ~row.notified)

CreationOrder(order, id, row) ==
  CASE Owned(row) /\ id \notin Range(order) -> Append(order, id)
    [] Owned(row) /\ id \in Range(order) -> order
    [] OTHER -> SelectSeq(order, LAMBDA owned : owned # id)

(* creation_namespace: the rows and order of the occurrence at the creation's
   position, lent along the tails; an occurrence that retires has given its own away. *)
CreationNamespace(id) == [at |-> position[id], live |-> ending.at = 0]

RecordChildCreation(bindings, id, row) ==
  [bindings EXCEPT !.panicked = @ \/ bindings.rows[id] # NoRow \/ ~CreationNamespace(id).live,
                   !.order[CreationNamespace(id).at] = CreationOrder(@, id, row),
                   !.rows[id] = row]

RemoveRow(bindings, id) == [bindings EXCEPT !.rows[id] = NoRow]

(* remove, then record: a row's custody changes hands in one step *)
Transfer(id, row) == RecordChildCreation(RemoveRow(registry, id), id, row)

(***************************************************************************)
(* Creations and establish_native_child                                    *)
(***************************************************************************)
Item == plan.script[parent.next]

Reply(status, reason, item) == [status |-> status, reason |-> reason, item |-> item]
NoItem == [op |-> None, ids |-> <<>>, arg |-> None]

Replied(reply) == [parent EXCEPT !.replies = Append(@, reply)]
Settles(reply) == parent' = [Replied(reply) EXCEPT !.next = @ + 1]

(* Consecutive routes for the batch, or the batch returned unrouted *)
InterpretCreations ==
  /\ Item.op = "Create"
  /\ IF registry.route + Len(Item.ids) > MaxRoute
       THEN /\ Settles(Reply("Rejected", "ChildNamespaceExhausted", Item))
            /\ UNCHANGED registry
       ELSE /\ parent' = [Replied(Reply("Accepted", None, NoItem)) EXCEPT
                 !.next = @ + 1,
                 !.births = [i \in DOMAIN Item.ids |->
                              [id |-> Item.ids[i], route |-> registry.route + i - 1]]]
            /\ registry' = [registry EXCEPT !.route = @ + Len(Item.ids)]
  /\ UNCHANGED <<plan, child, ending>>

Birth == Head(parent.births)

Born(reply) == [Replied(reply) EXCEPT !.births = Tail(@), !.waiting = None]

(* RoutedCreation returned with its behaviour *)
RoutedCreation(id) == [op |-> "Create", ids |-> <<id>>, arg |-> None]

(* Up to the startup await: an id already recorded, an address that cannot be
   allocated, or an owned execution whose starting row is in place first. *)
EstablishChild ==
  LET id == Birth.id IN
  /\ parent.births # <<>>
  /\ parent.waiting = None
  /\ \/ /\ registry.rows[id] # NoRow
        /\ parent' = Born(Reply("Rejected", "CorrelationAlreadyRecorded", RoutedCreation(id)))
        /\ UNCHANGED <<registry, child>>
     \/ /\ registry.rows[id] = NoRow
        /\ "Allocation" \in plan.faults
        /\ parent' = Born(Reply("Rejected", "Allocation", RoutedCreation(id)))
        /\ registry' = RecordChildCreation(registry, id, Row("Rejected", Birth.route))
        /\ UNCHANGED child
     \/ /\ registry.rows[id] = NoRow
        /\ parent' = [parent EXCEPT !.waiting = "Startup"]
        /\ registry' = RecordChildCreation(registry, id, Row("Starting", Birth.route))
        /\ child' = [child EXCEPT ![id].state = "Spawned"]
  /\ UNCHANGED <<plan, ending>>

(* The recorded row is what the acknowledgement vouches for. *)
InstallChild ==
  LET id == Birth.id IN
  /\ child[id].state = "Offered"
  /\ registry' = Transfer(id, Row("Established", Birth.route))
  /\ child' = [child EXCEPT ![id].ack = "Given"]
  /\ parent' = Born(Reply("Accepted", "Established", NoItem))

ReceiveStartup ==
  /\ parent.waiting = "Startup"
  /\ \/ InstallChild
     \/ /\ child[Birth.id].state \in {"Drained", "Stopped", "Joined"}
        /\ registry' = Transfer(Birth.id, Row("Raw", Birth.route))
        /\ parent' = [parent EXCEPT !.waiting = "Joining"]
        /\ UNCHANGED child
  /\ UNCHANGED <<plan, ending>>

Told(primary, status) == [primary |-> primary, status |-> status]

(* The SpawnError arms: what the row keeps and what the creator is told *)
InitializationSettlement(variant) ==
  Told(IF variant = "InitializationPanicked" THEN variant ELSE None, variant)

HostSettlement(end) ==
  Told("Activation", IF end = "AddressInUse" THEN "AddressAlreadyClaimed" ELSE "EnvironmentFailed")

(* "panic" is the arm for a startup phase the producer cannot return. *)
UnpublishedSettlement(error) ==
  IF /\ error.variant = "Unpublished"
     /\ error.outcome.kind = "ActivationPanicked"
     /\ error.outcome.residual.progress = "Original"
    THEN Told("ActivationPanicked", "EnvironmentFailed") ELSE Told("panic", "panic")

StartupSettlement(id) ==
  LET error == SpawnFromLocal(Outcome(child[id].end), Notification(id), ReportOf(id))
  IN CASE error.variant \in {"InitializationRejected", "InitializationPanicked"} ->
            InitializationSettlement(error.variant)
       [] error.variant \in {"HostRejected", "BindingAbandoned"} -> HostSettlement(child[id].end)
       [] OTHER -> UnpublishedSettlement(error)

(* The asserts: nothing reached a child nobody was told about. *)
RejectStartup(id, settlement) ==
  LET row == [Row("StartupRejected", Birth.route) EXCEPT
                !.primary = settlement.primary, !.notified = child[id].notified,
                !.report = ReportOf(id)]
  IN [Transfer(id, row) EXCEPT !.panicked = \/ @
                                            \/ settlement.status = "panic"
                                            \/ child[id].kept # <<>>
                                            \/ child[id].control # <<>>
                                            \/ child[id].requested]

ReceiveStartupFailure ==
  LET id == Birth.id IN
  /\ parent.waiting = "Joining"
  /\ child[id].state = "Joined"
  /\ \/ /\ child[id].end = "JoinError"
        /\ registry' = [registry EXCEPT !.rows[id].joined = "Err",
                                        !.rows[id].notified = child[id].notified]
        /\ parent' = Born(Reply("Accepted", "Unavailable", NoItem))
     \/ /\ child[id].end # "JoinError"
        /\ registry' = RejectStartup(id, StartupSettlement(id))
        /\ parent' = Born(Reply("Accepted", StartupSettlement(id).status, RoutedCreation(id)))
  /\ UNCHANGED <<plan, child, ending>>

(***************************************************************************)
(* RetireChildTasks: one ordered traversal per position, head before tail  *)
(***************************************************************************)
RetirementLanes ==
  [at |-> 0, retired |-> <<>>, failures |-> <<>>, report |-> Clean, selected |-> None,
   operation |-> "NoFailuresFound"]

Combined(reports) == FoldSet(CombineReports, Clean, reports)

(* Variant: only the rows still owing facts are consulted for reports. *)
OrderedReports(at) ==
  {registry.rows[id].report : id \in Range(registry.order[at])}

RejectedReports(at) ==
  {registry.rows[id].report : id \in {id \in Ids : /\ position[id] = at
                                                   /\ registry.rows[id].binding = "StartupRejected"}}

(* request_retirement reaches the tasks of this position and of its tail. *)
RequestRetirement(at) ==
  [id \in Ids |->
     IF /\ registry.rows[id].binding \in {"Starting", "Raw", "Established"}
        /\ registry.rows[id].joined = None
        /\ position[id] >= at
     THEN [child[id] EXCEPT !.requested = TRUE] ELSE child[id]]

(* Entering a position: startup reports first, then every request, then waits. *)
EnterPosition(at) ==
  /\ ending' = [ending EXCEPT !.at = at,
                              !.report = CombineReports(@, Combined(RejectedReports(at)))]
  /\ child' = RequestRetirement(at)
  /\ UNCHANGED <<plan, parent, registry>>

First == Head(registry.order[ending.at])

Retiring == parent.phase = "Retiring" /\ ending.at \in Positions /\ registry.order[ending.at] # <<>>

(* Variant: the offered endpoint stays where the startup channel left it. *)
KeepOffer(c) == [c EXCEPT !.startup = FALSE]

DropStartup(c) == [c EXCEPT !.startup = FALSE, !.ack = "Dropped"]

(* The starting row becomes raw retirement; its startup receiver goes, with an
   endpoint and acknowledgement it may already hold. *)
TransferStarting ==
  /\ Retiring
  /\ registry.rows[First].binding = "Starting"
  /\ registry' = [registry EXCEPT !.rows[First].binding = "Raw"]
  /\ child' = [child EXCEPT ![First] = DropStartup(@)]
  /\ UNCHANGED <<plan, parent, ending>>

(* ChildOrigin: which occurrence, route and creation a fact of retirement is of *)
ChildOrigin(id) ==
  [declaration |-> position[id], nonce |-> registry.rows[id].route, creation_id |-> id]

(* The row leaves the map and the order once its facts are outside. *)
Extract(end, report) ==
  /\ ending' = [ending EXCEPT !.retired = @ \o end.retired,
                              !.failures = @ \o [i \in DOMAIN end.failures |->
                                                  [origin |-> ChildOrigin(First), kind |-> end.failures[i]]],
                              !.report = report]
  /\ registry' = [RemoveRow(registry, First) EXCEPT !.order[ending.at] = Tail(@)]
  /\ UNCHANGED <<plan, parent, child>>

(* ChildFailure: instead of a projected result, or beside it *)
Fails(kind) == [retired |-> <<>>, failures |-> <<kind>>]
Hands(id, failed, kind) ==
  [retired |-> <<ChildOrigin(id)>>, failures |-> IF failed THEN <<kind>> ELSE <<>>]

(* What extraction makes of an established child that joined *)
EstablishedEnd(id) ==
  CASE ~child[id].projected -> Fails("ProjectionTaskFailed")
    [] child[id].end = "JoinError" -> Fails("ActorTaskFailed")
    [] OTHER -> Hands(id, ~child[id].notified, "NotificationsFailed")

(* ... and of a startup that never bound *)
StartupEnd(id) ==
  CASE registry.rows[id].binding = "Raw" -> Fails("StartupActorTaskFailed")
    [] child[id].projected -> Hands(id, ~child[id].notified, "StartupTerminationNotificationFailed")
    [] OTHER -> Fails("StartupProjectionTaskFailed")

RejectedEnd(id) ==
  Fails(IF registry.rows[id].primary = "InitializationPanicked" THEN "InitializationPanicked"
        ELSE "StartupRetirementFailed")

Reports(id) == CombineReports(ending.report, ReportOf(id))

(* ProjectedTask::receive_retirement joined the child *)
RetireEstablished ==
  LET end == EstablishedEnd(First) IN
  /\ Retiring
  /\ registry.rows[First].binding = "Established"
  /\ child[First].state = "Joined"
  /\ Extract(end, IF end.failures = <<>> THEN Reports(First)
                  ELSE WithFailures(Reports(First), "FailuresFound"))

(* OwnedTask::receive_retirement: a lost task is a failure, an outcome goes on
   to its projection. *)
RetireRaw ==
  /\ Retiring
  /\ registry.rows[First].binding = "Raw"
  /\ child[First].state = "Joined"
  /\ \/ /\ child[First].end = "JoinError"
        /\ Extract(StartupEnd(First), Reports(First))
     \/ /\ child[First].end # "JoinError"
        /\ registry' = [registry EXCEPT !.rows[First].binding = "Projection"]
        /\ ending' = [ending EXCEPT !.report = Reports(First)]
        /\ UNCHANGED <<plan, parent, child>>

RetireProjection ==
  /\ Retiring
  /\ registry.rows[First].binding = "Projection"
  /\ Extract(StartupEnd(First), IF child[First].projected THEN Reports(First)
                                ELSE WithFailures(Reports(First), "FailuresFound"))

RetireRejected ==
  /\ Retiring
  /\ registry.rows[First].binding = "StartupRejected"
  /\ Extract(RejectedEnd(First), ending.report)

(* order exhausted: on to the tail, then the bindings are dropped *)
NextPosition ==
  /\ parent.phase = "Retiring"
  /\ ending.at \in Positions
  /\ registry.order[ending.at] = <<>>
  /\ IF ending.at + 1 \in Positions
       THEN EnterPosition(ending.at + 1)
       ELSE /\ registry' = [registry EXCEPT !.installed = FALSE]
            /\ ending' = [ending EXCEPT !.at = 0]
            /\ UNCHANGED <<plan, parent, child>>

RetireChildTasks ==
  \/ TransferStarting \/ RetireEstablished \/ RetireRaw \/ RetireProjection
  \/ RetireRejected \/ NextPosition

=============================================================================
