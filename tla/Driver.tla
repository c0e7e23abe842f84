------------------------------- MODULE Driver -------------------------------
(***************************************************************************)
(* The affine Driver of bombay-engine (driver.rs): one causal loop over    *)
(* the slots of `struct Driver`, run by a borrowing future that the caller *)
(* may drop at an await and replace with a fresh loan.                     *)
(*                                                                         *)
(* The environment behind the port (environment.rs) is any host: it may    *)
(* take its loaned inputs, acquire a reply, stay pending, return, or       *)
(* panic while being constructed, polled or disposed of.                   *)
(*                                                                         *)
(* Data are abstracted to identities.  Turn 0 is the initialization        *)
(* decision, turn n the decision on the n-th folded event; the number      *)
(* stands for that turn's Actions, then for its Interpretation, then for   *)
(* its settlement.                                                         *)
(***************************************************************************)
EXTENDS Integers, Sequences, FiniteSets, Functions

CONSTANTS
    MaxTurns,       \* bound: events the host supplies
    CancelPoints,   \* awaits at which the caller may drop the borrowing future
    Malformed       \* may a host acquire a reply and leave its input in place?

Operations == {"activate", "offer", "nextSource", "next", "apply", "retirePrepared", "retireActive"}

ASSUME MaxTurnsAssumption == MaxTurns \in Nat
ASSUME CancelPointsAssumption == CancelPoints \subseteq Operations
ASSUME MalformedAssumption == Malformed \in BOOLEAN

VARIABLES
    d,          \* the slots of struct Driver
    pc,         \* where the borrowing future stands
    reply,      \* the caller's `received` slot of receive_run
    turn,       \* last turn whose fold began (-1: none)
    host,       \* turns whose product a host holds
    hostEnv,    \* has a host operation taken the environment out of its slot?
    spent,      \* turns whose product was discharged as exhausted, or whose fold gave none
    lost,       \* turns whose product perished inside a dropped host operation
    calls       \* how often initialize, publish and a retirement barrier were called

custody == <<host, hostEnv, spent, lost>>
vars == <<d, pc, reply, turn, host, hostEnv, spent, lost, calls>>

-----------------------------------------------------------------------------
(* Types *)

None == -1
Turns == 0 .. MaxTurns
Slot == Turns \cup {None}

Phases == {"Prepared", "Activating", "Initializing", "SettlingInitialization",
           "Active", "Retiring", "RetirementAttempted"}
Running == {"Initializing", "SettlingInitialization", "Active"}

Completions == {"Stopped", "Exhausted", "RetirementRequested"}
Failures == {"Behavior", "InitializationPanicked", "TransitionPanicked",
             "HostExecutionPanicked", "ActivationPanicked", "RetirementPanicked",
             "InterpreterContractFailed", "Activation",
             "SettlementRejected", "SettlementCorrupt", "SettlementSourceClosed"}

Rows == [turn : {"Offer", "AwaitSource", "Retained"}, of : Turns]
Custodies == {"Exhausted", "Retained", "Admitted", "Closed"}
NoCustody == [custody |-> "None", of |-> None]
NoResidual == [acquired |-> FALSE, of |-> {}]

\* retirement_input distinguishes an absent list from an empty one.
NoInput == <<None>>

Receipts == [custody : Custodies, of : Turns] \cup {NoCustody}
Residuals == [acquired : BOOLEAN, of : SUBSET Turns]
Dispositions == {"None"} \cup Completions \cup Failures

DriverType ==
    [environment : BOOLEAN, active : BOOLEAN, phase : Phases,
     actions : Slot, activation : {"None", "Ok", "Err"}, interpretation : Slot,
     source_input : Slot,
     source_received : Receipts,
     source_index : Int,
     ingress : {"None", "Event", "End", "Request"},
     decision : {"None", "Continue", "Stop"},
     settlements : Seq(Rows),
     retirement_input : Seq(Slot),
     residual : Residuals,
     disposition : Dispositions,
     additional_failures : Seq(Failures)]

-----------------------------------------------------------------------------
(* The Driver's own helpers *)

\* VecDeque::insert and VecDeque::remove; position i here is index i - 1 there.
InsertAt(s, i, e) == SubSeq(s, 1, i - 1) \o <<e>> \o SubSeq(s, i, Len(s))
RemoveAt(s, i) == SubSeq(s, 1, i - 1) \o SubSeq(s, i + 1, Len(s))

\* Mutant of Reject: a failure is recorded but does not select retirement.
RejectContinues(s, error) ==
    IF s.disposition = "None" THEN [s EXCEPT !.disposition = error]
    ELSE [s EXCEPT !.additional_failures = Append(@, error)]

\* Driver::reject
Reject(s, error) ==
    IF s.disposition = "None"
    THEN [s EXCEPT !.disposition = error, !.phase = "Retiring"]
    ELSE [s EXCEPT !.additional_failures = Append(@, error), !.phase = "Retiring"]

\* Driver::complete
Complete(s, completion) ==
    [s EXCEPT !.disposition = IF @ = "None" THEN completion ELSE @, !.phase = "Retiring"]

\* receive_activation_failures and receive_execution_failures: every caught
\* payload is rejected in acquisition order.
ReceiveFailures(s, error, n) ==
    IF n = 0 THEN s ELSE IF n = 1 THEN Reject(s, error) ELSE Reject(Reject(s, error), error)

\* Reject a missing or malformed reply, unless a failure already selected retirement.
ContractFailed(s) ==
    IF s.phase = "Retiring" THEN s ELSE Reject(s, "InterpreterContractFailed")

\* Position of the first row that can still progress, if there is one.
Progressing(s) ==
    {i \in DOMAIN s.settlements :
        /\ s.settlements[i].turn # "Retained"
        /\ \A j \in 1 .. (i - 1) : s.settlements[j].turn = "Retained"}

\* receive_operation on an operation that replies through loaned slots: a
\* constructor, poll or disposal panic, or a poll panic and a disposal panic.
LoanFailures == 0 .. 2

\* receive_operation on an operation that replies by value: the reply with at
\* most a disposal failure, or no reply and the panics that prevented it.
ValueReplies(replies) == (replies \X {0, 1}) \cup ({"None"} \X {1, 2})

Goto(l) == pc' = l

-----------------------------------------------------------------------------
(* Initial state: Driver::new, not yet loaned *)

Init ==
    /\ d = [environment |-> TRUE, active |-> FALSE, phase |-> "Prepared",
            actions |-> None, activation |-> "None", interpretation |-> None,
            source_input |-> None, source_received |-> NoCustody, source_index |-> None,
            ingress |-> "None", decision |-> "None", settlements |-> <<>>,
            retirement_input |-> NoInput, residual |-> NoResidual,
            disposition |-> "None", additional_failures |-> <<>>]
    /\ pc = "idle" /\ reply = "None" /\ turn = None
    /\ host = {} /\ hostEnv = FALSE /\ spent = {} /\ lost = {}
    /\ calls = [initialize |-> 0, publish |-> 0, retire |-> 0]

-----------------------------------------------------------------------------
(* The caller: loans, cancellation, and receiving the reply *)

\* A borrowing receive_run starts; it does nothing when a reply is already owned.
Loan ==
    /\ pc = "idle" /\ reply = "None"
    /\ Goto("loop")
    /\ UNCHANGED <<d, reply, turn, custody, calls>>

\* The caller drops the borrowing future at an await.  What the host moved into
\* the future itself perishes with it; the active environment's own custody and
\* every Driver slot survive.
Cancel ==
    /\ pc \in CancelPoints
    /\ Goto("idle")
    /\ hostEnv' = FALSE
    /\ IF hostEnv THEN host' = {} /\ lost' = lost \cup host ELSE UNCHANGED <<host, lost>>
    /\ UNCHANGED <<d, reply, turn, spent, calls>>

\* Every owning slot permits the synchronous move into a DriverRetirement.
Ready(s) ==
    /\ ~s.environment /\ ~s.active
    /\ s.actions = None /\ s.activation = "None" /\ s.interpretation = None
    /\ s.source_input = None /\ s.source_received = NoCustody /\ s.source_index = None
    /\ s.settlements = <<>> /\ s.ingress = "None" /\ s.retirement_input = NoInput
    /\ s.residual.acquired /\ s.disposition # "None"

\* drive returned: the complete retirement, or the surviving Driver.
Deliver ==
    /\ pc = "return"
    /\ reply' = IF Ready(d) THEN "Ok" ELSE "Err"
    /\ Goto("idle")
    /\ UNCHANGED <<d, turn, custody, calls>>

\* The caller receives a surviving Driver again.
ReceiveAgain ==
    /\ pc = "idle" /\ reply = "Err"
    /\ reply' = "None"
    /\ UNCHANGED <<d, pc, turn, custody, calls>>

\* The complete reply was received: nothing is left to do.
Finished ==
    /\ pc = "idle" /\ reply = "Ok"
    /\ UNCHANGED vars

-----------------------------------------------------------------------------
(* Initialization and activation *)

\* ExecutionPhase::Prepared
Initialize ==
    /\ pc = "loop" /\ d.phase = "Prepared"
    /\ turn' = 0
    /\ calls' = [calls EXCEPT !.initialize = @ + 1]
    /\ LET s == [d EXCEPT !.phase = "Activating"] IN
       \/ \E step \in {"Continue", "Stop"} :
            /\ d' = [s EXCEPT !.decision = step, !.actions = 0]
            /\ UNCHANGED spent
       \/ \E error \in {"Behavior", "InitializationPanicked"} :
            /\ d' = Reject(s, error)
            /\ spent' = spent \cup {0}
    /\ UNCHANGED <<pc, reply, host, hostEnv, lost>>

\* ExecutionPhase::Activating up to its await
CallActivate ==
    /\ pc = "loop" /\ d.phase = "Activating"
    /\ Goto("activate")
    /\ UNCHANGED <<d, reply, turn, custody, calls>>

\* The host moves the environment and the initialization actions into its work.
HostTakesEnvironment ==
    /\ pc = "activate" /\ d.environment /\ d.actions # None /\ d.activation = "None"
    /\ d' = [d EXCEPT !.environment = FALSE, !.actions = None]
    /\ host' = host \cup {d.actions}
    /\ hostEnv' = TRUE
    /\ UNCHANGED <<pc, reply, turn, spent, lost, calls>>

\* The host acquires its activation reply; a malformed one leaves the input slots filled.
HostRepliesActivation ==
    /\ pc = "activate" /\ d.activation = "None"
    /\ hostEnv \/ (Malformed /\ d.environment)
    /\ \E result \in {"Ok", "Err"} : d' = [d EXCEPT !.activation = result]
    /\ host' = {}
    /\ hostEnv' = FALSE
    /\ UNCHANGED <<pc, reply, turn, spent, lost, calls>>

\* What drive makes of the slots once the activation producer is disposed of.
Activated(s, n) ==
    IF s.environment \/ s.actions # None \/ s.activation = "None"
    THEN ContractFailed(ReceiveFailures(s, "ActivationPanicked", n))
    ELSE IF s.activation = "Ok"
         THEN ReceiveFailures([s EXCEPT !.activation = "None", !.active = TRUE, !.interpretation = 0,
                                        !.phase = "Initializing"], "ActivationPanicked", n)
         ELSE ReceiveFailures(Reject([s EXCEPT !.activation = "None",
                                               !.residual = [acquired |-> TRUE, of |-> {0}]],
                                     "Activation"), "ActivationPanicked", n)

\* ExecutionPhase::Activating from its await on
ActivateReturns ==
    /\ pc = "activate"
    /\ \E n \in LoanFailures : d' = Activated(d, n)
    /\ Goto("loop")
    /\ hostEnv' = FALSE
    /\ IF hostEnv THEN host' = {} /\ lost' = lost \cup host ELSE UNCHANGED <<host, lost>>
    /\ UNCHANGED <<reply, turn, spent, calls>>

-----------------------------------------------------------------------------
(* Settlement custody *)

\* Mutant of Classified: the settlement joins the back of the queue.
ClassifiedAtBack(s, status) ==
    [s EXCEPT !.interpretation = None, !.decision = "None", !.phase = "SettlingInitialization",
              !.settlements = Append(@, [turn |-> "Offer", of |-> s.interpretation])]

\* Mutant of Classified: the turn's decision is read but stays in its slot.
ClassifiedKeepsDecision(s, status) ==
    LET q == [s EXCEPT !.interpretation = None,
                       !.settlements = <<[turn |-> "Offer", of |-> s.interpretation]>> \o @]
    IN  IF status = "Corrupt" THEN Reject(q, "SettlementCorrupt")
        ELSE IF s.decision = "Stop" THEN Complete(q, "Stopped")
        ELSE [q EXCEPT !.phase = IF @ = "Initializing" THEN "SettlingInitialization" ELSE @]

\* The settlement of the acquired interpretation enters the queue, then its
\* status and the turn's decision select the continuation.
Classified(s, status) ==
    LET q == [s EXCEPT !.interpretation = None, !.decision = "None",
                       !.settlements = <<[turn |-> "Offer", of |-> s.interpretation]>> \o @]
    IN  IF status = "Corrupt" THEN Reject(q, "SettlementCorrupt")
        ELSE IF status = "Rejected" /\ s.phase = "Initializing" THEN Reject(q, "SettlementRejected")
        ELSE IF s.decision = "Stop" THEN Complete(q, "Stopped")
        ELSE IF s.decision = "None" THEN Reject(q, "InterpreterContractFailed")
        ELSE IF s.phase = "Initializing" THEN [q EXCEPT !.phase = "SettlingInitialization"]
        ELSE q

\* Running phases, first part: an interpretation is available.
Classify ==
    /\ pc = "loop" /\ d.phase \in Running /\ d.interpretation # None
    /\ \/ \E status \in {"Accepted", "Rejected", "Corrupt"} : d' = Classified(d, status)
       \/ d' = Reject(d, "HostExecutionPanicked")
    /\ UNCHANGED <<pc, reply, turn, custody, calls>>

\* The rest of a running iteration needs the active environment.
Turning == pc = "loop" /\ d.phase \in Running /\ d.interpretation = None /\ d.active

\* The first progressing row is an Offer: it moves to the source slots.
SelectOffer ==
    /\ Turning /\ d.source_index = None
    /\ \E i \in Progressing(d) :
       /\ d.settlements[i].turn = "Offer"
       /\ d' = [d EXCEPT !.source_index = i, !.source_input = d.settlements[i].of,
                         !.settlements = RemoveAt(@, i)]
    /\ UNCHANGED <<pc, reply, turn, custody, calls>>

\* A selected source row without an acquired reply is offered.
CallOffer ==
    /\ Turning /\ d.source_index # None /\ d.source_received = NoCustody
    /\ Goto("offer")
    /\ UNCHANGED <<d, reply, turn, custody, calls>>

\* The host moves the offered settlement into the active environment.
HostTakesSource ==
    /\ pc = "offer" /\ d.source_input # None /\ d.source_received = NoCustody
    /\ d' = [d EXCEPT !.source_input = None]
    /\ host' = host \cup {d.source_input}
    /\ UNCHANGED <<pc, reply, turn, hostEnv, spent, lost, calls>>

\* The host acquires the custody reply; a malformed one leaves the input filled.
HostRepliesSource ==
    /\ pc = "offer" /\ d.source_received = NoCustody
    /\ \E t \in host \cup (IF Malformed THEN {d.source_input} \ {None} ELSE {}), c \in Custodies :
         /\ d' = [d EXCEPT !.source_received = [custody |-> c, of |-> t]]
         /\ host' = host \ {t}
    /\ UNCHANGED <<pc, reply, turn, hostEnv, spent, lost, calls>>

\* Mutant of Custodied: a closed source drops the settlement it returned.
CustodiedDropsClosed(s, n, dropPanicked) ==
    LET q == [s EXCEPT !.source_index = None, !.source_received = NoCustody]
    IN  IF s.source_received.custody = "Closed" THEN Reject(q, "SettlementSourceClosed")
        ELSE [q EXCEPT !.settlements = InsertAt(@, s.source_index,
                                                [turn |-> "Retained", of |-> s.source_received.of])]

\* Where an acquired custody puts its settlement.
Custodied(s, n, dropPanicked) ==
    LET got == s.source_received
        q == [s EXCEPT !.source_index = None, !.source_received = NoCustody]
        Inserted(row) == [q EXCEPT !.settlements = InsertAt(@, s.source_index, [turn |-> row, of |-> got.of])]
    IN  IF got.custody = "Exhausted"
        THEN LET r == ReceiveFailures(q, "HostExecutionPanicked", n)
             IN  IF dropPanicked THEN Reject(r, "HostExecutionPanicked") ELSE r
        ELSE IF got.custody = "Retained" THEN ReceiveFailures(Inserted("Retained"), "HostExecutionPanicked", n)
        ELSE IF got.custody = "Admitted" THEN ReceiveFailures(Inserted("AwaitSource"), "HostExecutionPanicked", n)
        ELSE ReceiveFailures(Reject(Inserted("Offer"), "SettlementSourceClosed"), "HostExecutionPanicked", n)

\* The source branch after its producer is disposed of, n payloads caught.
Received(n) ==
    IF d.source_input # None \/ d.source_received = NoCustody
    THEN /\ d' = ContractFailed(ReceiveFailures(d, "HostExecutionPanicked", n))
         /\ UNCHANGED spent
    ELSE /\ \E dropPanicked \in {FALSE, d.source_received.custody = "Exhausted"} :
              d' = Custodied(d, n, dropPanicked)
         /\ spent' = IF d.source_received.custody = "Exhausted"
                     THEN spent \cup {d.source_received.of} ELSE spent

\* offer_next returned or unwound.
OfferReturns ==
    /\ pc = "offer"
    /\ \E n \in LoanFailures : Received(n)
    /\ Goto("loop")
    /\ UNCHANGED <<reply, turn, host, hostEnv, lost, calls>>

\* A fresh loan finds the custody reply already acquired and does not offer again.
ReceiveAcquired ==
    /\ Turning /\ d.source_index # None /\ d.source_received # NoCustody
    /\ Received(0)
    /\ UNCHANGED <<pc, reply, turn, host, hostEnv, lost, calls>>

\* The first progressing row awaits its source: it is queued as an Offer again
\* and a control event is requested.
SelectAwait ==
    /\ Turning /\ d.source_index = None
    /\ \E i \in Progressing(d) :
       /\ d.settlements[i].turn = "AwaitSource"
       /\ d' = [d EXCEPT !.settlements[i].turn = "Offer"]
    /\ Goto("nextSource")
    /\ UNCHANGED <<reply, turn, custody, calls>>

-----------------------------------------------------------------------------
(* Publication, events and folds *)

\* Mutant of Publish: publication does not leave the initialization phase.
PublishAgain ==
    /\ Turning /\ d.source_index = None /\ Progressing(d) = {}
    /\ d.phase = "SettlingInitialization" /\ calls.publish < 2
    /\ calls' = [calls EXCEPT !.publish = @ + 1]
    /\ UNCHANGED <<d, pc, reply, turn, custody>>

\* Initialization custody resolved: publish once.
Publish ==
    /\ Turning /\ d.source_index = None /\ Progressing(d) = {}
    /\ d.phase = "SettlingInitialization"
    /\ \/ d' = [d EXCEPT !.phase = "Active"]
       \/ d' = Complete(d, "RetirementRequested")
       \/ d' = Reject(d, "HostExecutionPanicked")
    /\ calls' = [calls EXCEPT !.publish = @ + 1]
    /\ UNCHANGED <<pc, reply, turn, custody>>

\* No row can progress: request an ordinary event.
CallNext ==
    /\ Turning /\ d.source_index = None /\ Progressing(d) = {}
    /\ d.phase # "SettlingInitialization"
    /\ Goto("next")
    /\ UNCHANGED <<d, reply, turn, custody, calls>>

\* Replies a host can give to next and next_source: events while the bound lasts.
Ingress == ValueReplies({"End", "Request"} \cup (IF turn < MaxTurns THEN {"Event"} ELSE {}))

\* next_source replied: source closure with retained custody is a failure.
SourceIngress(s, r, n) ==
    LET q == IF r = "End" THEN Reject(s, "SettlementSourceClosed") ELSE [s EXCEPT !.ingress = r]
        f == ReceiveFailures(q, "HostExecutionPanicked", n)
    IN  IF f.ingress = "None" THEN ContractFailed(f) ELSE f

\* next replied.
OrdinaryIngress(s, r, n) ==
    ReceiveFailures([s EXCEPT !.ingress = r], "HostExecutionPanicked", n)

\* After either request: retire when a failure was caught, else take the ingress.
IngressReturns ==
    /\ pc \in {"nextSource", "next"}
    /\ \E in \in Ingress :
         d' = IF pc = "nextSource" THEN SourceIngress(d, in[1], in[2]) ELSE OrdinaryIngress(d, in[1], in[2])
    /\ Goto(IF d'.phase = "Retiring" THEN "loop" ELSE "fold")
    /\ UNCHANGED <<reply, turn, custody, calls>>

\* An acquired event is folded exactly once; its actions go to apply.
Fold ==
    /\ pc = "fold" /\ d.ingress = "Event"
    /\ turn' = turn + 1
    /\ LET s == [d EXCEPT !.ingress = "None"] IN
       \/ \E step \in {"Continue", "Stop"} :
            /\ d' = [s EXCEPT !.decision = step, !.actions = turn + 1]
            /\ Goto("apply")
            /\ UNCHANGED spent
       \/ \E error \in {"Behavior", "TransitionPanicked"} :
            /\ d' = Reject(s, error)
            /\ Goto("loop")
            /\ spent' = spent \cup {turn + 1}
    /\ UNCHANGED <<reply, host, hostEnv, lost, calls>>

\* The other ingress replies select retirement without a fold.
NoEvent ==
    /\ pc = "fold" /\ d.ingress # "Event"
    /\ LET s == [d EXCEPT !.ingress = "None"] IN
       d' = IF d.ingress = "End" THEN Complete(s, "Exhausted")
            ELSE IF d.ingress = "Request" THEN Complete(s, "RetirementRequested")
            ELSE Reject(s, "InterpreterContractFailed")
    /\ Goto("loop")
    /\ UNCHANGED <<reply, turn, custody, calls>>

\* The active environment moves the actions into its work.
HostTakesActions ==
    /\ pc = "apply" /\ d.actions # None /\ d.interpretation = None
    /\ d' = [d EXCEPT !.actions = None]
    /\ host' = host \cup {d.actions}
    /\ UNCHANGED <<pc, reply, turn, hostEnv, spent, lost, calls>>

\* It acquires the interpretation; a malformed reply leaves the actions filled.
HostRepliesInterpretation ==
    /\ pc = "apply" /\ d.interpretation = None
    /\ \E t \in {turn} \cap (host \cup (IF Malformed THEN {d.actions} ELSE {})) :
         /\ d' = [d EXCEPT !.interpretation = t]
         /\ host' = host \ {t}
    /\ UNCHANGED <<pc, reply, turn, hostEnv, spent, lost, calls>>

\* apply returned or unwound.
Applied(s, n) ==
    LET f == ReceiveFailures(s, "HostExecutionPanicked", n)
    IN  IF f.actions # None \/ f.interpretation = None THEN ContractFailed(f) ELSE f

ApplyReturns ==
    /\ pc = "apply"
    /\ \E n \in LoanFailures : d' = Applied(d, n)
    /\ Goto("loop")
    /\ UNCHANGED <<reply, turn, custody, calls>>

-----------------------------------------------------------------------------
(* Retirement *)

\* The settlement queue becomes the retirement input; an unoffered source row
\* goes back to its position first.
Collected(s) ==
    IF s.retirement_input # NoInput \/ ~s.active THEN s
    ELSE LET q == IF s.source_input # None /\ s.source_index # None
                  THEN [s EXCEPT !.source_input = None, !.source_index = None,
                                 !.settlements = InsertAt(@, s.source_index,
                                                          [turn |-> "Retained", of |-> s.source_input])]
                  ELSE s
         IN  [q EXCEPT !.settlements = <<>>,
                       !.retirement_input = [i \in 1 .. Len(q.settlements) |-> q.settlements[i].of]]

\* Mutant of Retire: an owner that cannot cross a barrier is tried again.
RetireSpins ==
    /\ pc = "loop" /\ d.phase = "Retiring"
    /\ IF d.environment = d.active \/ d.residual.acquired
       THEN UNCHANGED <<d, pc, calls>>
       ELSE /\ d' = [Collected(d) EXCEPT !.phase = "RetirementAttempted"]
            /\ calls' = [calls EXCEPT !.retire = @ + 1]
            /\ Goto(IF d.active THEN "retireActive" ELSE "retirePrepared")
    /\ UNCHANGED <<reply, turn, custody>>

\* ExecutionPhase::Retiring up to its await.
Retire ==
    /\ pc = "loop" /\ d.phase = "Retiring"
    /\ IF d.source_input # None /\ d.source_received # NoCustody
       THEN UNCHANGED <<d, calls>> /\ Goto("return")
       ELSE LET s == Collected(d) IN
            IF s.environment = s.active \/ s.residual.acquired
            THEN d' = s /\ Goto("return") /\ UNCHANGED calls
            ELSE /\ d' = [s EXCEPT !.phase = "RetirementAttempted"]
                 /\ calls' = [calls EXCEPT !.retire = @ + 1]
                 /\ Goto(IF s.active THEN "retireActive" ELSE "retirePrepared")
    /\ UNCHANGED <<reply, turn, custody>>

\* The prepared host takes its environment and uncommitted actions.
HostTakesPrepared ==
    /\ pc = "retirePrepared" /\ d.environment /\ ~d.residual.acquired
    /\ d' = [d EXCEPT !.environment = FALSE, !.actions = None]
    /\ host' = host \cup ({d.actions} \ {None})
    /\ hostEnv' = TRUE
    /\ UNCHANGED <<pc, reply, turn, spent, lost, calls>>

\* The active host takes itself and every fact loaned to it, or itself alone.
HostTakesActive ==
    /\ pc = "retireActive" /\ d.active /\ ~d.residual.acquired
    /\ \/ /\ d' = [d EXCEPT !.active = FALSE, !.actions = None, !.interpretation = None,
                            !.source_received = NoCustody, !.source_index = None,
                            !.ingress = "None", !.retirement_input = NoInput]
          /\ host' = host \cup (({d.actions, d.interpretation, d.source_received.of}
                                    \cup Range(d.retirement_input)) \ {None})
       \/ d' = [d EXCEPT !.active = FALSE] /\ UNCHANGED host
    /\ hostEnv' = TRUE
    /\ UNCHANGED <<pc, reply, turn, spent, lost, calls>>

\* The host acquires the residual, with everything it holds.
HostRepliesResidual ==
    /\ pc \in {"retirePrepared", "retireActive"} /\ ~d.residual.acquired
    /\ hostEnv \/ Malformed
    /\ d' = [d EXCEPT !.residual = [acquired |-> TRUE, of |-> host]]
    /\ host' = {}
    /\ hostEnv' = FALSE
    /\ UNCHANGED <<pc, reply, turn, spent, lost, calls>>

\* retire returned or unwound; drive returns.
RetireReturns ==
    /\ pc \in {"retirePrepared", "retireActive"}
    /\ \E n \in LoanFailures :
         d' = [d EXCEPT !.additional_failures = @ \o [i \in 1 .. n |-> "RetirementPanicked"]]
    /\ Goto("return")
    /\ hostEnv' = FALSE
    /\ IF hostEnv THEN host' = {} /\ lost' = lost \cup host ELSE UNCHANGED <<host, lost>>
    /\ UNCHANGED <<reply, turn, spent, calls>>

\* ExecutionPhase::RetirementAttempted on a fresh loan.
AlreadyAttempted ==
    /\ pc = "loop" /\ d.phase = "RetirementAttempted"
    /\ Goto("return")
    /\ UNCHANGED <<d, reply, turn, custody, calls>>

-----------------------------------------------------------------------------
HostReplies ==
    \/ HostTakesEnvironment \/ HostRepliesActivation \/ HostTakesSource \/ HostRepliesSource
    \/ HostTakesActions \/ HostRepliesInterpretation
    \/ HostTakesPrepared \/ HostTakesActive \/ HostRepliesResidual

HostReturns == ActivateReturns \/ OfferReturns \/ IngressReturns \/ ApplyReturns \/ RetireReturns

Drive ==
    \/ Initialize \/ CallActivate \/ Classify \/ SelectOffer \/ CallOffer \/ ReceiveAcquired
    \/ SelectAwait \/ Publish \/ CallNext \/ Fold \/ NoEvent \/ Retire \/ AlreadyAttempted
    \/ Deliver

Next == Loan \/ Cancel \/ ReceiveAgain \/ Finished \/ Drive \/ HostReplies \/ HostReturns

Spec == Init /\ [][Next]_vars

-----------------------------------------------------------------------------
(* Properties *)

\* Every slot holds a value of its type.
TypeOK ==
    /\ d \in DriverType
    /\ pc \in Operations \cup {"idle", "loop", "fold", "return"}
    /\ reply \in {"None", "Ok", "Err"}
    /\ turn \in Slot
    /\ host \subseteq Turns /\ hostEnv \in BOOLEAN /\ spent \subseteq Turns /\ lost \subseteq Turns
    /\ calls \in [initialize : Nat, publish : Nat, retire : Nat]

Queued(s) == [i \in 1 .. Len(s.settlements) |-> s.settlements[i].of]
Listed(s) == IF s.retirement_input = NoInput THEN <<>> ELSE s.retirement_input

\* The owners a turn's product can have, one set per owner.
Owners ==
    << {d.actions} \ {None}, IF d.activation = "None" THEN {} ELSE {0},
       {d.interpretation} \ {None}, {d.source_input} \ {None}, {d.source_received.of} \ {None},
       Range(Queued(d)), Range(Listed(d)), host, d.residual.of, spent, lost >>

\* D-SETTLE-1, D-RETIRE-1: the product of every fold is owned by some slot, by the
\* host, by the residual, or was discharged or destroyed by host work: no step of the
\* loop, cancellation or fresh loan makes it disappear.  A complete reply crossed its
\* one barrier (a rejected activation is its own), and its residual owns every product
\* that was neither discharged nor destroyed.
Custody ==
    /\ \A t \in 0 .. turn : \E i \in DOMAIN Owners : t \in Owners[i]
    /\ reply = "Ok" =>
        /\ 0 .. turn \subseteq d.residual.of \cup spent \cup lost
        /\ host = {}
        /\ calls.retire = 1 \/ d.disposition = "Activation"

Decreasing(q) == \A i, j \in 1 .. Len(q) : i < j => q[i] > q[j]

\* D-SETTLE-1: settlements wait in causal queue order, newest first, and the row
\* taken out for its source still fits at source_index, also among the retirement
\* input the host receives.  Whatever progresses is newer than every other row that
\* could: rows before the offered or the awaiting row are all retained.
CausalOrder ==
    LET waiting == Queued(d) \o Listed(d)
        taken == ({d.source_input, d.source_received.of} \cup host) \ {None}
        Newest(i) == \A j \in 1 .. (i - 1) : d.settlements[j].turn = "Retained"
    IN  /\ Decreasing(waiting)
        /\ d.source_index # None => \A t \in taken : Decreasing(InsertAt(waiting, d.source_index, t))
        /\ d.phase \in Running =>
            /\ d.source_index # None => Newest(d.source_index)
            /\ \A i \in DOMAIN d.settlements : d.settlements[i].turn = "AwaitSource" => Newest(i)

\* D-INIT-1, D-RETIRE-1: initialization, publication and the retirement barrier are each
\* crossed at most once, whatever is cancelled or received again, and an ordinary event
\* is requested only from a published environment.
BarriersOnce ==
    /\ calls.initialize <= 1 /\ calls.publish <= 1 /\ calls.retire <= 1
    /\ pc = "next" => calls.publish = 1 /\ d.disposition = "None"

\* A running phase always has its active environment and no unread ingress, so the
\* loop's InterpreterContractFailed exits for those cases are never taken.
RunningOwnsActive ==
    d.phase \in Running => d.active /\ ~d.environment /\ (pc # "fold" => d.ingress = "None")

\* D-TERM-1: once a terminal edge is selected it never changes, and no later event
\* request, fold, apply or source offer begins.
FusedTerminal ==
    [][d.disposition # "None" =>
         /\ d'.disposition = d.disposition
         /\ turn' = turn
         /\ pc' # pc => pc' \notin {"activate", "offer", "nextSource", "next", "fold", "apply"}]_vars

\* D-TURN-1: the loop implements the one-decision-at-a-time protocol.  A decision is
\* outstanding from its fold until its settlement is classified.
Turns1 == INSTANCE CausalTurns WITH
    stage <- IF d.disposition # "None" THEN "ended"
             ELSE IF d.phase = "Prepared" THEN "new"
             ELSE IF d.decision # "None" THEN "committing" ELSE "ready",
    folded <- turn

OneCausalTurn == Turns1!Spec

\* The loop never spins: a loan whose host answers ends, with the reply or because
\* the caller dropped it.
Replies == pc = "loop" ~> pc = "idle"
=============================================================================
