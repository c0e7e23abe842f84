-------------------------- MODULE ExternalActors --------------------------
(***************************************************************************)
(* The callers outside the actor system (application/interface.rs): what a *)
(* live ApplicationHandle and the ActorInterfaces formed from it issue.    *)
(* Every caller owns one address of the application's never-wrapping       *)
(* source; an external actor or client also owns a bounded reply mailbox,  *)
(* with the sole right to receive from it, while its recipient is cloned   *)
(* into commands.  Root, mailbox channel and entities are seen as the      *)
(* callers see them; LocalHost and EntityRuntime model them.               *)
(***************************************************************************)
EXTENDS Integers, Sequences, FiniteSets

CONSTANTS
    Callers,
    MaxAddress,         \* u64::MAX
    ClientCapacity,     \* of a reply mailbox, and here of the root's
    Commands            \* bound: the commands each caller may send

ASSUME ExternalConstants == MaxAddress \in Nat /\ ClientCapacity \in Nat \ {0}

APPLICATION_ROOT == 0
Root == "root"
Entity == "entity"              \* a stable EntityRef: it resolves and admits on its own
OtherRoot == "other root"       \* the recipient of another application's actor
Api == {Root, Entity}           \* a receptionist product
Letters == UNION {{"command", "reply"} \X {c} \X (1 .. Commands[c]) : c \in Callers}
Boxes == Callers \cup {Root}

VARIABLES
    next,           \* ApplicationAddresses: the address it issues next
    caller,         \* [kind, address, target, error]
    box,            \* a mailbox: [open, queue, ended, accepted]
    place,          \* where a letter is
    life,           \* of the root: "running", "stopping", "released", "terminated", "retired"
    control,        \* shutdown requests in the root's control lane
    asking          \* each caller's call of ApplicationLifecycle::shutdown

externalVars == <<next, caller, box, place, life, control, asking>>

NoCaller == [kind |-> "none", address |-> APPLICATION_ROOT, target |-> "none", error |-> "none"]
EmptyBox == [open |-> FALSE, queue |-> <<>>, ended |-> FALSE, accepted |-> 0]

ExternalInit ==
    /\ next \in {1, MaxAddress - 1}      \* the first, or after the application's actors took theirs
    /\ caller = [c \in Callers |-> NoCaller]
    /\ box = [b \in Boxes |-> [EmptyBox EXCEPT !.open = (b = Root)]]
    /\ place = [l \in Letters |-> "unsent"]
    /\ life = "running" /\ control = 0
    /\ asking = [c \in Callers |-> "idle"]

(***************************************************************************)
(* Establishing a caller.                                                  *)
(***************************************************************************)
\* ApplicationAddresses::allocate: the address it returns, if checked_add has a successor.
Allocate ==
    [ok |-> next < MaxAddress, address |-> next, next |-> IF next < MaxAddress THEN next + 1 ELSE next]

Issued(c, kind, target) ==
    /\ caller[c].kind = "none"
    /\ LET a == Allocate IN
       /\ next' = a.next
       /\ caller' = [caller EXCEPT ![c] =
            IF a.ok THEN [kind |-> kind, address |-> a.address, target |-> target, error |-> "none"]
                    ELSE [NoCaller EXCEPT !.kind = "refused", !.target = target, !.error = "Allocation"]]
       /\ box' = [box EXCEPT ![c].open = a.ok /\ kind # "sender"]

\* ExternalActor::establish: a fresh address, then its mailbox.
EstablishActor(c) == Issued(c, "external", "none")
\* ApplicationClient::establish and ApplicationSender::establish return the target
\* they were given with the allocation's rejection.
EstablishClient(c, target) == Issued(c, "client", target)
EstablishSender(c, target) == Issued(c, "sender", target)

unissued == <<place, life, control, asking>>
External(c) == EstablishActor(c) /\ UNCHANGED unissued
ClientTo(c, target) == EstablishClient(c, target) /\ UNCHANGED unissued
SenderTo(c, target) == EstablishSender(c, target) /\ UNCHANGED unissued
Client(c) == ClientTo(c, Root)
Sender(c) == SenderTo(c, Root)

\* ActorRef::belongs_to compares address sources; an external endpoint has none.
BelongsTo(target) == target = Root
\* ApplicationHandle::actor_address
ActorAddress(target) == IF BelongsTo(target) THEN "Ok" ELSE "UnownedTarget"

\* ApplicationHandle::export_client refuses a target it does not own before it allocates.
ExportClient(c, target) ==
    \/ ActorAddress(target) = "Ok" /\ ClientTo(c, target)
    \/ /\ ActorAddress(target) # "Ok" /\ caller[c].kind = "none"
       /\ caller' = [caller EXCEPT ![c] =
            [NoCaller EXCEPT !.kind = "refused", !.target = target, !.error = ActorAddress(target)]]
       /\ UNCHANGED <<next, box>> /\ UNCHANGED unissued

(***************************************************************************)
(* Letters.  A command goes to the target of its caller, a reply to the    *)
(* mailbox whose recipient the command carried.                            *)
(***************************************************************************)
Mailbox(l) == IF l[1] = "reply" THEN l[2] ELSE Root
Full(b) == Len(box[b].queue) = ClientCapacity

\* ActorRef::send_from, once it is polled: admit, return the letter, or wait.
SendFrom(l) ==
    LET b == Mailbox(l) IN
    IF ~box[b].open
    THEN place' = [place EXCEPT ![l] = "returned"] /\ box' = box
    ELSE IF Full(b)
    THEN place' = [place EXCEPT ![l] = "sending"] /\ box' = box
    ELSE /\ place' = [place EXCEPT ![l] = "accepted"]
         /\ box' = [box EXCEPT ![b].queue = Append(@, l), ![b].accepted = @ + 1]

\* ActorRef::try_send_from never waits.
TrySendFrom(l) ==
    IF box[Mailbox(l)].open /\ Full(Mailbox(l))
    THEN place' = [place EXCEPT ![l] = "returned"] /\ box' = box
    ELSE SendFrom(l)

\* EntityRef::admit_from: its admission either keeps the message or returns it.
AdmitFrom(l) ==
    /\ \E answer \in {"received", "returned"} : place' = [place EXCEPT ![l] = answer]
    /\ box' = box

unsent == <<next, caller, life, control, asking>>
Live(c) == caller[c].kind \in {"external", "client", "sender"}
TargetOf(c) == IF caller[c].kind = "external" THEN Root ELSE caller[c].target
Ready(l) == Live(l[2]) /\ place[l] = "unsent" /\ l[1] = "command"

\* ExternalTarget::send_from of the selected target.
SendTarget(l) == IF TargetOf(l[2]) = Root THEN SendFrom(l) ELSE AdmitFrom(l)
\* send of the external actor, the client and the sender; only an actor's recipient can try.
Send(l) == Ready(l) /\ SendTarget(l) /\ UNCHANGED unsent
TrySend(l) == Ready(l) /\ TargetOf(l[2]) = Root /\ TrySendFrom(l) /\ UNCHANGED unsent

\* A send that waits is woken by capacity or closure, or dropped with its letter.
Resume(l) ==
    /\ place[l] = "sending" /\ (~box[Mailbox(l)].open \/ ~Full(Mailbox(l)))
    /\ SendFrom(l) /\ UNCHANGED unsent
CancelSend(l) ==
    /\ place[l] = "sending" /\ place' = [place EXCEPT ![l] = "dropped"]
    /\ UNCHANGED box /\ UNCHANGED unsent

\* A send borrows its caller until it returns.
Borrowed(c) == \E n \in 1 .. Commands[c] : place[<<"command", c, n>>] = "sending"

ReceiveUnordered(c) ==      \* a closed mailbox ends at once

    /\ Live(c) /\ caller[c].kind # "sender" /\ ~Borrowed(c) /\ ~box[c].ended
    /\ IF ~box[c].open
       THEN box' = [box EXCEPT ![c].ended = TRUE] /\ place' = place
       ELSE /\ box[c].queue # <<>>
            /\ box' = [box EXCEPT ![c].queue = Tail(@)]
            /\ place' = [place EXCEPT ![Head(box[c].queue)] = "received"]
    /\ UNCHANGED unsent
\* ExternalActor::receive: the accepted prefix, then one end marker once admission is
\* closed; a further call waits for as long as the control lane is open.
Receive(c) ==
    /\ Live(c) /\ caller[c].kind # "sender" /\ ~Borrowed(c) /\ ~box[c].ended
    /\ IF box[c].queue # <<>>
       THEN /\ box' = [box EXCEPT ![c].queue = Tail(@)]
            /\ place' = [place EXCEPT ![Head(box[c].queue)] = "received"]
       ELSE ~box[c].open /\ box' = [box EXCEPT ![c].ended = TRUE] /\ place' = place
    /\ UNCHANGED unsent

\* ExternalActor::close_admission keeps the accepted prefix.
CloseAdmission(c) ==
    /\ Live(c) /\ box[c].open
    /\ box' = [box EXCEPT ![c].open = FALSE] /\ UNCHANGED place /\ UNCHANGED unsent

\* Dropping an external actor, or the client that holds it, closes admission and
\* completes its termination; the receiver goes with what it holds.  A sender holds neither.
DropCaller(c) ==
    /\ Live(c) /\ ~Borrowed(c)
    /\ caller' = [caller EXCEPT ![c].kind = "dropped"]
    /\ place' = [l \in Letters |->
          IF \E i \in DOMAIN box[c].queue : box[c].queue[i] = l THEN "dropped" ELSE place[l]]
    /\ box' = [box EXCEPT ![c].open = FALSE, ![c].queue = <<>>]
    /\ UNCHANGED <<next, life, control, asking>>

(***************************************************************************)
(* The root, as its callers see it.                                        *)
(***************************************************************************)
\* It interprets one effect at a time.
RootIdle == life = "running" /\ \A l \in Letters : l[1] = "reply" => place[l] # "sending"

RootReceives ==
    /\ RootIdle /\ box[Root].queue # <<>>
    /\ box' = [box EXCEPT ![Root].queue = Tail(@)]
    /\ place' = [place EXCEPT ![Head(box[Root].queue)] = "received"]
    /\ UNCHANGED unsent

\* It answers a command from a client through the recipient the command carries.
RootReplies(l) ==
    LET r == <<"reply", l[2], l[3]>> IN
    /\ RootIdle /\ l[1] = "command" /\ place[l] = "received" /\ place[r] = "unsent"
    /\ caller[l[2]].target # Entity
    /\ caller[l[2]].kind # "sender"
    /\ SendFrom(r) /\ UNCHANGED unsent

\* It stops on its own or for a request: admission closes and the inbox is drained;
\* its control sender is dropped; then termination and the joined report are published.
RootStops ==
    /\ life = "running" /\ life' = "stopping"
    /\ place' = [l \in Letters |->
          IF \E i \in DOMAIN box[Root].queue : box[Root].queue[i] = l THEN "retired"
          ELSE IF l[1] = "reply" /\ place[l] = "sending" THEN "dropped" ELSE place[l]]
    /\ box' = [box EXCEPT ![Root].open = FALSE, ![Root].queue = <<>>]
    /\ UNCHANGED <<next, caller, control, asking>>
RootRetires ==
    /\ \/ life = "stopping" /\ life' = "released"
       \/ life = "released" /\ life' = "terminated"
       \/ life = "terminated" /\ life' = "retired"
    /\ UNCHANGED <<next, caller, box, place, control, asking>>

Terminated == life \in {"terminated", "retired"}

(***************************************************************************)
(* ApplicationLifecycle::shutdown, one step per shared object it touches.  *)
(***************************************************************************)
ShutdownRejection == IF Terminated THEN "AlreadyStopped" ELSE "AlreadyStopping"

\* Any holder of the handle or of a lifecycle clone may ask, once here.
Ask(c) ==
    /\ asking[c] = "idle"
    /\ asking' = [asking EXCEPT ![c] = IF Terminated THEN "AlreadyStopped" ELSE "upgrading"]
    /\ UNCHANGED <<box, control>>
\* The weak control sender is gone once the root's launch has released it.
Upgrade(c) ==
    /\ asking[c] = "upgrading"
    /\ asking' = [asking EXCEPT ![c] =
          IF life \in {"released", "terminated", "retired"} THEN ShutdownRejection ELSE "checking"]
    /\ UNCHANGED <<box, control>>

\* request_actor_shutdown: the closure of admission decides who sends the request.
RequestActorShutdown(c) ==
    \/ /\ asking[c] = "checking"
       /\ asking' = [asking EXCEPT ![c] = IF Terminated THEN "AlreadyStopped" ELSE "closing"]
       /\ UNCHANGED <<box, control>>
    \/ /\ asking[c] = "closing"
       /\ asking' = [asking EXCEPT ![c] = IF box[Root].open THEN "sending" ELSE ShutdownRejection]
       /\ box' = [box EXCEPT ![Root].open = FALSE] /\ UNCHANGED control
    \/ /\ asking[c] = "sending"
       /\ asking' = [asking EXCEPT ![c] = IF life = "running" THEN "Ok" ELSE ShutdownRejection]
       /\ control' = control + (IF life = "running" THEN 1 ELSE 0) /\ UNCHANGED box

Shutdown(c) ==
    /\ Ask(c) \/ Upgrade(c) \/ RequestActorShutdown(c)
    /\ UNCHANGED <<next, caller, place, life>>

\* What a handle issues, and what an interface does: it grants no lifecycle authority
\* and selects only among the targets of its receptionist product.
HandleIssues(c) ==
    \/ External(c) \/ Client(c) \/ Sender(c) \/ ClientTo(c, Entity) \/ SenderTo(c, Entity)
    \/ \E t \in {Root, OtherRoot} : ExportClient(c, t)
InterfaceIssues(c) == External(c) \/ \E t \in Api : ClientTo(c, t) \/ SenderTo(c, t)
Exchanges(l) == Send(l) \/ TrySend(l) \/ Resume(l) \/ CancelSend(l) \/ RootReplies(l)

ExternalNext ==
    \/ \E c \in Callers :
          \/ HandleIssues(c) \/ InterfaceIssues(c)
          \/ Receive(c) \/ CloseAdmission(c) \/ DropCaller(c) \/ Shutdown(c)
    \/ \E l \in Letters : Exchanges(l)
    \/ RootReceives \/ RootStops \/ RootRetires

(***************************************************************************)
(* Properties.                                                             *)
(***************************************************************************)
Occurrences(l) == {<<b, i>> \in Boxes \X (1 .. ClientCapacity) : i <= Len(box[b].queue) /\ box[b].queue[i] = l}

\* Concurrent shutdown calls agree with the root: at most one is acknowledged, and it
\* alone sends a request; a call is told AlreadyStopped only after termination is
\* observable, and AlreadyStopping only when the root is on its way out or another call
\* has sent, or still is to send, the request that stops it.
ShutdownAgreed ==
    /\ Cardinality({c \in Callers : asking[c] = "Ok"}) = control /\ control <= 1
    /\ \A c \in Callers :
          /\ asking[c] = "AlreadyStopped" => Terminated
          /\ asking[c] = "AlreadyStopping" =>
                life # "running" \/ \E d \in Callers : asking[d] \in {"sending", "Ok"}

\* Every caller has an address of its own that is not the root's and is never issued
\* again after it is dropped, and a refused establishment leaves the target with its
\* caller.  A letter is in one place: in a queue exactly while it is accepted and not
\* received, and only in the mailbox it was sent to; what a mailbox accepted before it
\* closed is received before its end marker; nothing is accepted for a dropped caller;
\* a command is answered at most to the caller whose identity it carried; and shutdown
\* calls agree with the root.
CallersExact ==
    /\ \A c \in Callers : caller[c].kind \in {"external", "client", "sender", "dropped"} =>
          /\ caller[c].address \in 1 .. (MaxAddress - 1)
          /\ \A d \in Callers \ {c} : caller[d].address # caller[c].address
    /\ \A c \in Callers : caller[c].kind = "refused" =>
          /\ caller[c].error = "Allocation" => next = MaxAddress
          /\ caller[c].error = "UnownedTarget" => caller[c].target = OtherRoot
          /\ ~box[c].open
    /\ \A l \in Letters :
          /\ Cardinality(Occurrences(l)) = (IF place[l] = "accepted" THEN 1 ELSE 0)
          /\ \A o \in Occurrences(l) : o[1] = Mailbox(l)
    /\ \A c \in Callers :
          /\ box[c].ended => ~box[c].open /\ box[c].queue = <<>>
          /\ box[c].ended /\ Live(c) => box[c].accepted =
                Cardinality({l \in Letters : Mailbox(l) = c /\ place[l] = "received"})
          /\ ~Live(c) => ~box[c].open /\ box[c].queue = <<>>
    /\ ShutdownAgreed
=============================================================================
