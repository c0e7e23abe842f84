---------------------------- MODULE Application ----------------------------
(***************************************************************************)
(* One application from its declaration to its joined retirement           *)
(* (application/execution.rs), through every entry point: execute,         *)
(* execute_with, execute_with_entities, execute_axum (application/http.rs) *)
(* and the runs of a Node (application/node.rs).                           *)
(*                                                                         *)
(* Four tasks meet through oneshot channels: the execution, a future of    *)
(* the caller that may be dropped at every await or unwind at every call;  *)
(* the root actor; the cleanup task, which joins the actor, publishes its  *)
(* report, waits for the work's permission, hands the root over and shuts  *)
(* the entity families down; and the receiving future.  A step is what one *)
(* of them does between two awaits.                                        *)
(***************************************************************************)
EXTENDS Integers, Sequences, FiniteSets, FiniteSetsExt

CONSTANTS
    MaxMembers,         \* bound on the declared members
    CreationLimit,      \* ids a CreationSequence can issue
    FamilyCount,        \* families of an entity entry
    Declarations,       \* exports of a Node's export product, 1 .. n
    Addresses,          \* the addresses of the application's own actors
    Faults              \* the calls and tasks that may fail

Foreign == "foreign"
Roles == {"quiet", "panics"}        \* what dropping a role does

\* An entry point: whether a callable was supplied, entity families are declared
\* and a listener is bound first; whether a Node issues it ("exports": with its
\* export product); and whether the caller holds execution and receiving apart.
Entry(supplied, entities, http, node_, pair) ==
    [work |-> supplied, families |-> entities, http |-> http, node |-> node_, pair |-> pair]

Execute == Entry(FALSE, FALSE, FALSE, "none", TRUE)
ExecuteWith == Entry(TRUE, FALSE, FALSE, "none", TRUE)
Run == Entry(FALSE, FALSE, FALSE, "none", FALSE)
RunWith == Entry(TRUE, FALSE, FALSE, "none", FALSE)
ExecuteWithEntities == Entry(TRUE, TRUE, FALSE, "none", TRUE)
RunWithEntities == Entry(TRUE, TRUE, FALSE, "none", FALSE)
ExecuteAxum == Entry(TRUE, FALSE, TRUE, "none", TRUE)
RunAxum == Entry(TRUE, FALSE, TRUE, "none", FALSE)
NodeExecuteWith == Entry(TRUE, TRUE, FALSE, "plain", TRUE)
NodeRunWith == Entry(TRUE, TRUE, FALSE, "plain", FALSE)
NodeServeWith == Entry(TRUE, TRUE, FALSE, "exports", FALSE)
NodeServe == Entry(FALSE, TRUE, FALSE, "exports", FALSE)
\* All of them pass through execute_with_entities_invocation and one execution.
EntryPoints ==
    {Execute, ExecuteWith, Run, RunWith, ExecuteWithEntities, RunWithEntities, ExecuteAxum,
     RunAxum, NodeExecuteWith, NodeRunWith, NodeServeWith, NodeServe}

ASSUME ApplicationConstants ==
    /\ CreationLimit \in Nat /\ FamilyCount \in Nat \ {0}

VARIABLES
    entry,
    members,        \* the declared member product, the last one declared first
    node,           \* [application, session, binding, exports, closed]
    issue,          \* what the last attempt to issue the execution returned
    exec,           \* where the execution is suspended, or how it ended
    custody,        \* the value in its ApplicationWorkPublication
    work,           \* the work channel
    invoked,        \* the work callable was called
    actor,          \* "none", "spawned", "running", "retired", "failed"
    children,       \* the staged members: "cold", "staged", "created", "returned"
    startup, permission, handle, root, joined,      \* channels
    receipts,       \* the families' channels, head first: [rows, open]
    authority,      \* the owner's cancellation: "none", "held", "requested"
    cleanup,        \* where the cleanup task is
    report,         \* the root's published retirement report: "none", "issued"
    families,       \* "cold", "installed", "shutting", "shut", "dropped"
    serving,        \* the exports' serve future: "none", "serving", "done", "dropped"
    recv,           \* where the receiving future is
    outcome         \* what it has received: [work, holds, cleanup, report, root, families]

executionVars == <<exec, custody, work, invoked, permission, handle, authority, serving>>
cleanupVars == <<cleanup, report, root, joined, receipts, families>>
actorVars == <<actor, children, startup>>
receivingVars == <<recv, outcome>>
declarationVars == <<entry, members, node, issue>>
applicationVars == <<executionVars, cleanupVars, actorVars, receivingVars, declarationVars>>

May(fault) == fault \in Faults
Cold == {"Unstarted", "StagingRejected"}
Suspended == {"cold", "acquiring", "startup", "binding", "declaring", "undeclaring", "working",
              "joining"}
Ended == {"done", "unwound", "dropped"}
ActorOver == actor \in {"retired", "failed"}
HandedOff == actor # "none"

(***************************************************************************)
(* Composition of the declared members (application/composition.rs).       *)
(***************************************************************************)
\* The tail of the product is staged first, and each member takes an id before
\* its role is dropped: a member fails on an exhausted sequence or on a panic.
Exhausted(ms, i) == Len(ms) - i >= CreationLimit
Rejecting(ms) == {i \in DOMAIN ms : Exhausted(ms, i) \/ ms[i] = "panics"}

\* ApplicationStagingError: the staged tail, the member that failed and the
\* untouched heads; its role survives an exhausted sequence only.
Stage(ms) ==
    IF Rejecting(ms) = {} THEN [ok |-> TRUE, staged |-> DOMAIN ms, roles |-> {}, ids |-> Len(ms)]
    ELSE LET at == Max(Rejecting(ms))
         IN  [ok |-> FALSE, staged |-> {i \in DOMAIN ms : i > at},
              roles |-> {i \in DOMAIN ms : i < at} \cup (IF Exhausted(ms, at) THEN {at} ELSE {}),
              ids |-> Len(ms) - at + (IF Exhausted(ms, at) THEN 0 ELSE 1)]

(***************************************************************************)
(* The export product of a Node (remote/export/query.rs).                  *)
(***************************************************************************)
\* A target is bound to the application that owns it.
Bound(target) == target \in Addresses

\* preflight binds each target and refuses an address twice.
Preflight(targets) ==
    /\ \A d \in Declarations : Bound(targets[d])
    /\ \A d, e \in Declarations : targets[d] = targets[e] => d = e

Undeclared == {d \in Declarations : node.exports[d] = "idle"}
Declared == {d \in Declarations : node.exports[d] = "declared"}

ApplicationInit ==
    /\ entry \in EntryPoints /\ members = <<>>
    /\ node = [application |-> TRUE, session |-> "open", closed |-> FALSE,
               binding |-> IF entry.node = "exports" THEN "Uninvoked" ELSE "None",
               exports |-> [d \in Declarations |-> "idle"]]
    /\ issue = "none"
    /\ exec = "none" /\ custody = "none" /\ work = "open" /\ invoked = FALSE
    /\ permission = "open" /\ handle = "open" /\ authority = "none" /\ serving = "none"
    /\ actor = "none" /\ children = "cold" /\ startup = "open"
    /\ cleanup = "none" /\ report = "none" /\ root = "open" /\ joined = "open"
    /\ receipts = [rows |-> <<>>, open |-> TRUE] /\ families = "cold"
    /\ recv = "none"
    /\ outcome = [work |-> "none", holds |-> "none", cleanup |-> "none", report |-> "none", root |-> "none",
                  families |-> <<>>]

(***************************************************************************)
(* Entry.                                                                  *)
(***************************************************************************)
\* Application::child: a declaration grows at its head until it is issued.
Child(role) ==
    /\ exec = "none" /\ issue = "none" /\ Len(members) < MaxMembers
    /\ members' = <<role>> \o members
    /\ UNCHANGED <<entry, node, issue, executionVars, cleanupVars, actorVars, receivingVars>>

\* Node::take_application, then the entered host: a refusal keeps the declaration.
Issuable ==
    IF ~node.application THEN "ExecutionIssued"
    ELSE IF node.session = "closed" THEN "SessionClosed" ELSE "Ok"

\* No entered host; a blocking run needs a host of its own, and none entered.
Refusals ==
    {"Host"} \cup IF entry = Run THEN {"BlockingInEnteredRuntime", "Runtime"} ELSE {}

Issue ==
    /\ exec \in {"none"} \cup Ended /\ recv \in {"none", "closed", "gone"}
    /\ entry.node = "none" => node.application
    /\ \/ /\ Issuable # "Ok" /\ issue' = Issuable
          /\ UNCHANGED <<node, exec, custody, recv>>
       \/ /\ Issuable = "Ok" /\ May("host")
          /\ issue' \in Refusals
          /\ UNCHANGED <<node, exec, custody, recv>>
       \/ /\ Issuable = "Ok" /\ issue' = "Issued"
          /\ node' = [node EXCEPT !.application = FALSE]
          /\ exec' = "cold" /\ custody' = "Unstarted" /\ recv' = "work"
    /\ UNCHANGED <<entry, members, work, invoked, permission, handle, authority, serving,
                   outcome, cleanupVars, actorVars>>

\* Node::close, by a caller that no operation borrows the Node from.
Close ==
    /\ entry.node # "none" /\ recv \in {"none", "done", "closed", "gone"} /\ exec \notin Suspended
    /\ entry.node = "exports" => recv # "done"
    /\ node.session = "open" /\ node' = [node EXCEPT !.session = "closed"]
    /\ UNCHANGED <<entry, members, issue, executionVars, cleanupVars, actorVars, receivingVars>>

(***************************************************************************)
(* The execution.                                                          *)
(***************************************************************************)
\* A oneshot sender that is dropped, and a value sent to a receiver that may be gone.
DropSender(channel) == IF channel = "open" THEN "closed" ELSE channel
Sent(value) == IF recv = "gone" THEN "refused" ELSE value
CloseReceipts == [receipts EXCEPT !.open = FALSE]

\* Mutant: a publication that is dropped forgets the value it holds.
ForgetWork == DropSender(work)

\* Drop of ApplicationWorkPublication sends the value of the phase it is in.
PublishWork == IF custody = "none" THEN DropSender(work) ELSE Sent(custody)

\* Drop of OwnerCancellationAuthority requests the cancellation.
DropAuthority == IF authority = "held" THEN "requested" ELSE authority

\* What the execution owns is dropped: it returned, unwound or was dropped.
Release(end) ==
    /\ exec' = end /\ custody' = "none" /\ work' = PublishWork
    /\ permission' = DropSender(permission) /\ handle' = DropSender(handle)
    /\ authority' = DropAuthority
    /\ serving' = IF serving = "serving" THEN "dropped" ELSE serving

\* Before the handoff that is also the root's and the families' publications.
ReleaseCold(end) ==
    /\ Release(end)
    /\ root' = DropSender(root) /\ receipts' = CloseReceipts
    /\ families' = IF families = "installed" THEN "dropped" ELSE families
    /\ UNCHANGED <<cleanup, report, joined>>

\* execute_axum awaits its listener while it borrows the cold inputs.
Acquire ==
    /\ exec = "cold" /\ entry.http
    /\ exec' = "acquiring"
    /\ UNCHANGED <<custody, work, invoked, permission, handle, authority, serving,
                   cleanupVars, actorVars, receivingVars, declarationVars>>

Acquired == exec = IF entry.http THEN "acquiring" ELSE "cold"

RejectInputs ==
    /\ exec' = "done" /\ custody' = "none" /\ work' = Sent("StagingRejected")
    /\ handle' = "closed" /\ root' = "closed" /\ receipts' = CloseReceipts
    /\ UNCHANGED <<invoked, permission, authority, serving, cleanup, report, joined, families,
                   actor, startup, receivingVars, declarationVars>>

\* A listener that cannot be bound returns the untouched inputs.
RejectListener == Acquired /\ entry.http /\ May("bind") /\ RejectInputs /\ children' = children

\* A member that cannot be staged returns the partial product with the root.
RejectStaging == Acquired /\ ~Stage(members).ok /\ RejectInputs /\ children' = "returned"

\* Installing the families unwinds past the publication of the uninvoked work.
InstallPanics ==
    /\ Acquired /\ Stage(members).ok /\ entry.families /\ May("install")
    /\ exec' = "unwound" /\ custody' = "none" /\ work' = Sent("NotInvoked")
    /\ handle' = "closed" /\ root' = "closed" /\ receipts' = CloseReceipts /\ families' = "dropped"
    /\ children' = "staged"
    /\ UNCHANGED <<invoked, permission, authority, serving, cleanup, report, joined, actor,
                   startup, receivingVars, declarationVars>>

\* Setup unwinds before a task exists: the prepared inputs are published, and a
\* task retires the installed families, whose handle the receiver joins.
SetupPanics ==
    /\ Acquired /\ Stage(members).ok /\ May("setup")
    /\ exec' = "unwound" /\ custody' = "none" /\ work' = Sent("Prepared")
    /\ root' = "closed" /\ children' = "staged"
    /\ IF entry.families
       THEN handle' = Sent("families") /\ cleanup' = "retiring" /\ families' = "shutting"
            /\ receipts' = receipts
       ELSE handle' = "closed" /\ receipts' = CloseReceipts /\ UNCHANGED <<cleanup, families>>
    /\ UNCHANGED <<invoked, permission, authority, serving, report, joined, actor, startup,
                   receivingVars, declarationVars>>

\* The prepared actor is spawned, then the task that joins it; from here on the
\* execution owns the uninvoked work, the actor's authority and the permission.
HandOff ==
    /\ Acquired /\ Stage(members).ok
    /\ exec' = "startup" /\ custody' = "NotInvoked"
    /\ actor' = "spawned" /\ authority' = "held" /\ children' = "staged"
    /\ families' = IF entry.families THEN "installed" ELSE families
    /\ cleanup' = "joining" /\ handle' = Sent("task")
    /\ UNCHANGED <<work, invoked, permission, serving, report, root, joined, receipts, startup,
                   receivingVars, declarationVars>>

\* Mutant: the exports are joined before the work's permission is released.
HoldPermission(value) ==
    /\ exec' = "joining" /\ custody' = "none" /\ work' = Sent(value)
    /\ permission' = permission /\ handle' = handle

\* The work phase is over: its value is published, then the permission is sent.
FinishWork(value) ==
    /\ exec' = "joining" /\ custody' = "none" /\ work' = Sent(value)
    /\ permission' = "sent" /\ handle' = handle

\* Absent work completes at once; supplied work is invoked, and its publication
\* is bare from here to its return: a panic of the call closes the channel.
StartWork(exports) ==
    \/ /\ entry.work
       /\ exec' = "working" /\ custody' = "none" /\ invoked' = TRUE /\ serving' = exports
       /\ UNCHANGED <<work, permission, handle, authority>>
    \/ /\ entry.work /\ May("invoke")
       /\ exec' = "unwound" /\ custody' = "none" /\ work' = "closed" /\ invoked' = TRUE
       /\ permission' = "closed" /\ authority' = DropAuthority /\ handle' = handle
       /\ serving' = IF exports = "serving" THEN "dropped" ELSE exports
    \/ /\ ~entry.work
       /\ FinishWork("Completed") /\ serving' = exports /\ UNCHANGED <<invoked, authority>>

\* A refused binding drops the owner's authority and returns the uninvoked work.
RefuseBinding ==
    /\ FinishWork(custody) /\ authority' = DropAuthority /\ UNCHANGED <<invoked, serving>>

Startup ==
    /\ exec = "startup" /\ startup # "open"
    /\ \/ /\ startup = "granted" /\ entry.node = "exports"
          /\ exec' = "binding" /\ node' = [node EXCEPT !.binding = "Invoked"]
          /\ UNCHANGED <<custody, work, invoked, permission, handle, authority, serving>>
       \/ startup = "granted" /\ entry.node # "exports" /\ StartWork("none") /\ node' = node
       \/ /\ startup = "closed" /\ FinishWork("NotInvokedError")
          /\ UNCHANGED <<invoked, authority, serving, node>>
    /\ UNCHANGED <<entry, members, issue, cleanupVars, actorVars, receivingVars>>

\* The binding's receipt is stored before its future is dropped, so that it
\* survives a panic of either; the targets of an Ok are then checked.
BindingReturns ==
    /\ exec = "binding"
    /\ \/ /\ May("binding") /\ node' = [node EXCEPT !.binding = "Err"] /\ RefuseBinding
       \/ /\ node' = [node EXCEPT !.binding = "Ok"]
          /\ \E targets \in [Declarations -> Addresses \cup {Foreign}] :
                IF Preflight(targets)
                THEN exec' = "declaring"
                     /\ UNCHANGED <<custody, work, invoked, permission, handle, authority, serving>>
                ELSE RefuseBinding
    /\ UNCHANGED <<entry, members, issue, cleanupVars, actorVars, receivingVars>>

BindingPanics ==
    /\ exec = "binding" /\ May("panic")
    /\ \/ node' = node \/ node' = [node EXCEPT !.binding = "Ok"]
    /\ Release("unwound") /\ invoked' = invoked
    /\ UNCHANGED <<entry, members, issue, cleanupVars, actorVars, receivingVars>>

\* The product is declared from the left; a refusal withdraws what precedes it.
Declare ==
    /\ exec = "declaring"
    /\ LET d == Min(Undeclared) IN
       \/ /\ node' = [node EXCEPT !.exports[d] = "declared"]
          /\ IF Undeclared = {d} THEN StartWork("serving")
             ELSE UNCHANGED executionVars
       \/ /\ May("declare") /\ node' = [node EXCEPT !.exports[d] = "refused"]
          /\ IF Declared = {} THEN RefuseBinding
             ELSE exec' = "undeclaring"
                  /\ UNCHANGED <<custody, work, invoked, permission, handle, authority, serving>>
    /\ UNCHANGED <<entry, members, issue, cleanupVars, actorVars, receivingVars>>

Undeclare ==
    /\ exec = "undeclaring"
    /\ \E d \in Declared :
          /\ node' = [node EXCEPT !.exports[d] = "withdrawn"]
          /\ IF Declared = {d} THEN RefuseBinding ELSE UNCHANGED executionVars
    /\ UNCHANGED <<entry, members, issue, cleanupVars, actorVars, receivingVars>>

\* The work returns: its output is published even when dropping its future panics.
WorkReturns ==
    /\ exec = "working"
    /\ \/ FinishWork("Completed") /\ UNCHANGED <<invoked, authority, serving>>
       \/ /\ May("panic") /\ exec' = "unwound" /\ custody' = "none" /\ work' = Sent("Completed")
          /\ permission' = "closed" /\ authority' = DropAuthority
          /\ serving' = IF serving = "serving" THEN "dropped" ELSE serving
          /\ UNCHANGED <<invoked, handle>>
    /\ UNCHANGED <<cleanupVars, actorVars, receivingVars, declarationVars>>

\* The work, or the exports polled beside it or after it, panic.
PollPanics ==
    /\ exec = "working" \/ (exec = "joining" /\ serving = "serving")
    /\ May("panic") /\ Release("unwound") /\ invoked' = invoked
    /\ UNCHANGED <<cleanupVars, actorVars, receivingVars, declarationVars>>

\* Exports are polled with the work and with the join; they end once it is
\* joined, or when the native queryable's callback is gone.
ExportsEnd(ending) ==
    /\ exec \in {"working", "joining"} /\ serving = "serving" /\ ending
    /\ serving' = "done"
    /\ UNCHANGED <<exec, custody, work, invoked, permission, handle, authority,
                   cleanupVars, actorVars, receivingVars, declarationVars>>

Joined ==
    /\ exec = "joining" /\ joined # "open" /\ serving # "serving"
    /\ Release("done") /\ invoked' = invoked
    /\ UNCHANGED <<cleanupVars, actorVars, receivingVars, declarationVars>>

\* The caller drops a pair's execution, keeping its receiving future.
DropExecution ==
    /\ exec \in Suspended /\ entry.pair
    /\ IF HandedOff THEN Release("dropped") /\ UNCHANGED cleanupVars ELSE ReleaseCold("dropped")
    /\ UNCHANGED <<invoked, actorVars, receivingVars, declarationVars>>

(***************************************************************************)
(* The cleanup task, and the one that retires the families of a failed     *)
(* setup.                                                                  *)
(***************************************************************************)
\* Joining observes the actor and requests no stop; its report is published
\* before the work's permission, so that the work can await it.
Report ==
    /\ cleanup = "joining" /\ ActorOver
    /\ report' = "issued" /\ cleanup' = "reported"
    /\ UNCHANGED <<root, joined, receipts, families,
                   executionVars, actorVars, receivingVars, declarationVars>>

\* Mutant: the root and the families do not wait for the work's permission.
UnpermittedTransfer ==
    /\ cleanup = "reported"
    /\ root' = Sent("sent") /\ cleanup' = "families"
    /\ families' = IF families = "installed" THEN "shutting" ELSE families
    /\ UNCHANGED <<report, joined, receipts,
                   executionVars, actorVars, receivingVars, declarationVars>>

\* A released or dropped permission: the root and its notifications are handed
\* over, then the families are shut down.
Transfer ==
    /\ cleanup = "reported" /\ permission # "open"
    /\ root' = Sent("sent") /\ cleanup' = "families"
    /\ families' = IF families = "installed" THEN "shutting" ELSE families
    /\ UNCHANGED <<report, joined, receipts,
                   executionVars, actorVars, receivingVars, declarationVars>>

\* FamilyRetirement of the family at a position: its shutdown report, with the
\* payload of a disposal that panicked.
FamilyRetirement(position, disposal) == [role |-> position, disposal |-> disposal]

\* A family's shutdown returns, the family is dropped and its receipt is sent,
\* the head's first.
ShutFamily ==
    /\ cleanup \in {"families", "retiring"} /\ families = "shutting"
    /\ \E disposal \in {"none"} \cup (Faults \cap {"disposal"}) :
          LET rows == Append(receipts.rows, FamilyRetirement(Len(receipts.rows) + 1, disposal))
          IN  /\ receipts' = [receipts EXCEPT !.rows = rows]
              /\ families' = IF Len(rows) = FamilyCount THEN "shut" ELSE families
    /\ UNCHANGED <<cleanup, report, root, joined,
                   executionVars, actorVars, receivingVars, declarationVars>>

CleanupReturns ==
    /\ cleanup \in {"families", "retiring"} /\ families # "shutting"
    /\ cleanup' = "done" /\ joined' = IF cleanup = "families" THEN "sent" ELSE joined
    /\ UNCHANGED <<report, root, receipts, families,
                   executionVars, actorVars, receivingVars, declarationVars>>

\* The task fails: what it owns is dropped.
CleanupFails ==
    /\ May("cleanup") /\ cleanup \in {"joining", "reported", "families", "retiring"}
    /\ cleanup' = "failed" /\ root' = DropSender(root) /\ joined' = DropSender(joined)
    /\ receipts' = CloseReceipts
    /\ families' = IF families \in {"installed", "shutting"} THEN "dropped" ELSE families
    /\ UNCHANGED <<report, executionVars, actorVars, receivingVars, declarationVars>>

(***************************************************************************)
(* The root actor (its own module: LocalHost).                             *)
(***************************************************************************)
\* The composed behavior initializes its root and then takes its children, once.
ActorStarts ==
    /\ actor = "spawned"
    /\ actor' = "running" /\ startup' = "granted" /\ children' = "created"
    /\ UNCHANGED <<executionVars, cleanupVars, receivingVars, declarationVars>>

\* It retires: by itself, by a shutdown request, or cancelled by its owner.
ActorRetires ==
    /\ actor \in {"spawned", "running"}
    /\ actor' \in {"retired"} \cup {"failed" : f \in Faults \cap {"actor"}}
    /\ startup' = DropSender(startup) /\ children' = children
    /\ UNCHANGED <<executionVars, cleanupVars, receivingVars, declarationVars>>

ActorCancelled == authority = "requested" /\ ActorRetires
ServeEnds == entry.http /\ ActorOver /\ WorkReturns

(***************************************************************************)
(* The receiving future.                                                   *)
(***************************************************************************)
\* WorkOutcome::into_supplied, into_absent, into_http and their entity forms: what
\* of the work an outcome of this kind holds.
IntoSupplied(kind) ==
    CASE kind = "Completed" -> "output" [] kind = "Interrupted" -> "none" [] OTHER -> "work"
IntoSuppliedWithEntities(kind) == IntoSupplied(kind)
IntoAbsent(kind) == "none"
IntoAbsentWithEntities(kind) == IntoAbsent(kind)
IntoHttp(kind) == IF kind = "Unstarted" THEN "none" ELSE IntoSupplied(kind)

Holds(kind) ==
    CASE entry.http -> IntoHttp(kind)
      [] entry.families /\ entry.work -> IntoSuppliedWithEntities(kind)
      [] entry.families /\ ~entry.work -> IntoAbsentWithEntities(kind)
      [] OTHER -> IF entry.work THEN IntoSupplied(kind) ELSE IntoAbsent(kind)

\* A combined run receives after its execution has returned; a panic unwinds
\* through it, except that a Node with exports catches it.
Receiving(stage) ==
    /\ recv = stage
    /\ ~entry.pair => exec = "done" \/ (entry.node = "exports" /\ exec = "unwound")

Unwind ==
    /\ recv = "work" /\ exec = "unwound" /\ ~entry.pair /\ entry.node # "exports"
    /\ recv' = "gone" /\ outcome' = outcome
    /\ UNCHANGED <<executionVars, cleanupVars, actorVars, declarationVars>>

ReceiveWork ==
    /\ Receiving("work") /\ work # "open"
    /\ LET kind == IF work = "closed" THEN "Interrupted" ELSE work
       IN  outcome' = [outcome EXCEPT !.work = kind, !.holds = Holds(kind)]
    /\ recv' = IF work \in Cold THEN "root" ELSE "handle"
    /\ UNCHANGED <<executionVars, cleanupVars, actorVars, declarationVars>>

ReceiveHandle ==
    /\ Receiving("handle") /\ handle # "open"
    /\ IF handle = "closed"
       THEN outcome' = [outcome EXCEPT !.cleanup = "PublicationClosed"] /\ recv' = "root"
       ELSE outcome' = outcome /\ recv' = "join"
    /\ UNCHANGED <<executionVars, cleanupVars, actorVars, declarationVars>>

\* The report is read after the task that publishes it is joined.
JoinCleanup ==
    /\ Receiving("join") /\ cleanup \in {"done", "failed"}
    /\ outcome' = [outcome EXCEPT !.cleanup = IF cleanup = "failed" THEN "TaskFailed" ELSE "Ok",
                                  !.report = report]
    /\ recv' = "root"
    /\ UNCHANGED <<executionVars, cleanupVars, actorVars, declarationVars>>

ReceiveRoot ==
    /\ Receiving("root") /\ root # "open"
    /\ outcome' = [outcome EXCEPT !.root = root]
    /\ recv' = IF entry.families THEN "families" ELSE "done"
    /\ UNCHANGED <<executionVars, cleanupVars, actorVars, declarationVars>>

RecvError == FamilyRetirement(0, "RecvError")

\* An unfinished family is a receiving failure, never a fabricated report.
ReceiveFamilies ==
    /\ Receiving("families") /\ (Len(receipts.rows) = FamilyCount \/ ~receipts.open)
    /\ outcome' = [outcome EXCEPT !.families =
          [p \in 1 .. FamilyCount |-> IF p \in DOMAIN receipts.rows THEN receipts.rows[p] ELSE RecvError]]
    /\ recv' = "done"
    /\ UNCHANGED <<executionVars, cleanupVars, actorVars, declarationVars>>

\* A Node with exports withdraws them after the joined execution, and then closes.
Withdraw ==
    /\ recv = "done" /\ entry.node = "exports"
    /\ node' = [node EXCEPT !.exports =
                  [d \in Declarations |-> IF @[d] = "declared" THEN "withdrawn" ELSE @[d]]]
    /\ recv' = "withdrawn"
    /\ UNCHANGED <<entry, members, issue, outcome, executionVars, cleanupVars, actorVars>>

CloseJoined ==
    /\ recv = "withdrawn"
    /\ node' = [node EXCEPT !.closed = TRUE, !.session = "closed"] /\ recv' = "closed"
    /\ UNCHANGED <<entry, members, issue, outcome, executionVars, cleanupVars, actorVars>>

\* The caller drops the receiving future, or the whole of a combined run.
Abandon ==
    /\ recv \in {"work", "handle", "join", "root", "families"} \/ recv = "withdrawn"
       \/ (recv = "done" /\ entry.node = "exports")
    /\ recv' = "gone" /\ outcome' = outcome
    /\ IF ~entry.pair /\ exec \in Suspended
       THEN IF HandedOff THEN Release("dropped") /\ UNCHANGED cleanupVars ELSE ReleaseCold("dropped")
       ELSE UNCHANGED <<exec, custody, work, permission, handle, authority, serving, cleanupVars>>
    /\ UNCHANGED <<invoked, actorVars, declarationVars>>

\* ApplicationOutcome's selections: what a caller reads without consuming it.
WorkOutput(o) == IF o.work = "Completed" THEN o.holds ELSE "none"
Cleanup(o) == IF o.work \in Cold THEN "none" ELSE o.cleanup
\* FamilyAt: the report at the position of a role.
FamilyAt(rows, position) == rows[position]
Family(o, position) == FamilyAt(o.families, position)

\* try_into_completed takes the output of completed work and keeps the retirement;
\* every other phase returns the whole outcome.
TryIntoCompleted(o) ==
    IF o.work = "Completed" THEN [o EXCEPT !.work = "taken", !.holds = "none"] ELSE o

\* Node::into_parts refuses until the binding and the joined close are acquired.
Extractable == node.binding \in {"Ok", "Err"} /\ node.closed

(***************************************************************************)
(* Properties.                                                             *)
(***************************************************************************)
\* What the receiving future returns is what happened, however the execution
\* ended: untouched inputs started nothing; the outcome holds the supplied callable
\* exactly when it was never called, and its output when it completed; a successful cleanup means the
\* root has retired with its report, its transfer and every family's receipt;
\* an actor that still runs is never behind a successful or an unpublished cleanup.
HonestOutcome ==
    recv \in {"done", "withdrawn", "closed"} =>
        /\ outcome.work \in Cold =>
              /\ actor = "none" /\ ~invoked /\ families = "cold"
              /\ \A p \in DOMAIN outcome.families : Family(outcome, p) = RecvError
              /\ node.binding \in {"None", "Uninvoked"}
              /\ outcome.work = "Unstarted" => children = "cold"
        /\ outcome.work = "Prepared" => actor = "none"
        /\ outcome.holds = "work" <=> entry.work /\ ~invoked /\ ~(entry.http /\ outcome.work = "Unstarted")
        /\ outcome.work \in {"Completed", "Interrupted"} /\ entry.work => invoked
        /\ outcome.work = "Completed" => children = "created" /\ (WorkOutput(outcome) = "output" <=> entry.work)
        /\ Cleanup(outcome) = outcome.cleanup
        /\ Cleanup(TryIntoCompleted(outcome)) = outcome.cleanup
        /\ outcome.cleanup = "PublicationClosed" => actor = "none"
        /\ outcome.cleanup = "Ok" =>
              /\ HandedOff => ActorOver /\ outcome.report = "issued" /\ outcome.root = "sent"
              /\ entry.families => /\ families = "shut"
                                   /\ \A p \in 1 .. FamilyCount : Family(outcome, p).role = p
        /\ HandedOff /\ ~ActorOver => outcome.cleanup = "TaskFailed" /\ outcome.report = "none"

\* The work barrier: the root is handed over and a family is shut down only after
\* the actor is joined and no binding or work of the execution can still use it.
\* A Node withdraws its exports and closes only once nothing serves them, and it
\* can be taken apart only then; its declaration starts one execution.
WorkBarrier ==
    /\ HandedOff /\ (root \in {"sent", "refused"} \/ families \in {"shutting", "shut"}) =>
          /\ ActorOver /\ report = "issued"
          /\ exec \notin {"startup", "binding", "declaring", "undeclaring", "working"}
    /\ recv \in {"withdrawn", "closed"} \/ Extractable =>
          /\ exec \in {"done", "unwound"} /\ serving # "serving" /\ Declared = {}
          /\ HandedOff /\ ~ActorOver => outcome.cleanup = "TaskFailed"
    /\ exec # "none" => ~node.application
    /\ children = "returned" => ~Stage(members).ok
          /\ Cardinality(Stage(members).staged) <= Stage(members).ids

\* However the execution ends, its receiving future returns; and an execution that
\* joins a root that is over ends, since the work released its permission first.
ApplicationReturns ==
    /\ exec \in Ended /\ recv # "none" ~> recv \in {"done", "withdrawn", "closed", "gone"}
    /\ (exec = "joining" \/ (exec = "working" /\ entry.http)) /\ ActorOver ~> exec \in Ended
=============================================================================
