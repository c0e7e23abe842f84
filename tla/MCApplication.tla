--------------------------- MODULE MCApplication ---------------------------
(* Small instances: an execution through every entry point with each fault, the     *)
(* callers outside the application while its root lives and dies, or the building   *)
(* of an application.                                                               *)
EXTENDS ApplicationBuilder, ExternalActors, TLC

CONSTANTS c1, c2

VARIABLE part
vars == <<part, applicationVars, externalVars, builderVars>>

TwoCallers == {c1, c2}
TwoAndOne == c1 :> 2 @@ c2 :> 1
ThreeDeclarations == 1 .. 3
SomeMinimums == {0, 1, 2, 3, 1000, MAX_CAPACITY - 1, MAX_CAPACITY, MAX_CAPACITY + 1}

Executes ==
    \/ Acquire \/ RejectListener \/ RejectStaging \/ InstallPanics \/ SetupPanics \/ HandOff
    \/ Startup \/ Joined \/ ExportsEnd(joined # "open")
Awaits ==
    \/ BindingReturns \/ BindingPanics \/ Declare \/ Undeclare \/ WorkReturns \/ PollPanics
    \/ ExportsEnd(May("callback")) \/ DropExecution
Cleans == Report \/ Transfer \/ ShutFamily \/ CleanupReturns
Acts == ActorStarts \/ ActorRetires
Receives == Unwind \/ ReceiveWork \/ ReceiveHandle \/ JoinCleanup \/ ReceiveRoot \/ ReceiveFamilies
Ends == Withdraw \/ CloseJoined
Executing ==
    (\E r \in Roles : Child(r)) \/ Issue \/ Close \/ Executes \/ Awaits \/ Cleans \/ CleanupFails
    \/ Acts \/ Receives \/ Ends \/ Abandon

\* The callers are interchangeable up to their bounds.  They exchange letters with a
\* root that may stop, or ask it to shut down with at most one letter under way.
InOrder == caller'[c2].kind # "none" => caller'[c1].kind # "none"
Exchanging == life' \in {"running", "stopping"} /\ asking' = asking
Asking == caller'[c2].kind = "none" /\ \A l \in Letters : place'[l] # "unsent" => l[1] = "command" /\ l[3] = 1

Building ==
    \/ BeginScope \/ NewApplication \/ WithTopology \/ WithInterpreter \/ Prepare \/ Reuse
    \/ ScopeExternal \/ HandleExternal
    \/ \E m \in {0, 3, MAX_CAPACITY + 1} :
          ScopeClientCapacity(m) \/ ScopeMailboxCapacity(m) \/ ClientCapacityOf(m) \/ MailboxCapacityOf(m)
    \/ \E r \in Roles : DeclareChild(r)
    \/ \E r \in {"accounts", "orders"} : EntityFamily(r) \/ StartEntity(r)
    \/ \E p \in 1 .. RootBirths + MaxMembers : StartChild(p)

Init ==
    /\ ApplicationInit /\ ExternalInit /\ BuilderInit
    /\ \/ part = "execution" /\ next = 1
       \/ part \in {"exchange", "lifecycle"} /\ entry = ExecuteWith
       \/ part = "building" /\ next = 1 /\ entry = ExecuteWith
Next ==
    \/ part = "execution" /\ Executing /\ UNCHANGED <<part, externalVars, builderVars>>
    \/ part = "building" /\ Building /\ UNCHANGED <<part, applicationVars, externalVars>>
    \/ /\ ExternalNext /\ InOrder /\ UNCHANGED <<part, applicationVars, builderVars>>
       /\ (part = "exchange" /\ Exchanging) \/ (part = "lifecycle" /\ Asking)

Spec == Init /\ [][Next]_vars
\* The tasks are polled; the actor retires once its owner cancels it, the server
\* returns once its root has terminated.
Polled(task) == part = "execution" /\ task /\ UNCHANGED <<part, externalVars, builderVars>>
FairSpec ==
    /\ Spec
    /\ WF_vars(Polled(Executes)) /\ WF_vars(Polled(Cleans)) /\ WF_vars(Polled(Receives))
    /\ WF_vars(Polled(ActorCancelled)) /\ WF_vars(Polled(ServeEnds))
=============================================================================
