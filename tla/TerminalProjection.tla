------------------------- MODULE TerminalProjection -------------------------
(***************************************************************************)
(* How one finished actor is told to its owner.  A Driver disposition and  *)
(* the residual of the local environment become an execution outcome; the  *)
(* outcome becomes a termination (observers), a retirement report (owners) *)
(* and either a startup failure (SpawnError) or a complete ActorRetirement. *)
(*                                                                         *)
(* An outcome is [kind, detail, additional, residual]: the variant, the    *)
(* completion or error inside it, whether coexisting Driver failures were  *)
(* retained, and the LocalResidual.  A residual has one field per lane of  *)
(* the enum; payloads are reduced to what the conversions look at.         *)
(***************************************************************************)
EXTENDS Sequences

(***************************************************************************)
(* ActorFailureAssessment, RetirementAssessment, ActorRetirementReport     *)
(***************************************************************************)
CombineFailures(self, later) ==
  CASE "FailuresFound" \in {self, later} -> "FailuresFound"
    [] "Incomplete" \in {self, later} -> "Incomplete"
    [] OTHER -> "NoFailuresFound"

Found(failed) == IF failed THEN "FailuresFound" ELSE "NoFailuresFound"

Report(retirement, failures) == [retirement |-> retirement, failures |-> failures]

CombineReports(self, later) ==
  Report(IF self.retirement = "Established" /\ later.retirement = "Established"
           THEN "Established" ELSE "NotEstablished",
         CombineFailures(self.failures, later.failures))

WithFailures(report, failures) ==
  Report(report.retirement, CombineFailures(report.failures, failures))

Clean == Report("Established", "NoFailuresFound")

(***************************************************************************)
(* LocalResidual: the phase that retired and every lane it retained        *)
(***************************************************************************)
Unfinished == {"Original", "Interpreting"}

ProgressAssessment(progress) ==
  CASE progress \in Unfinished -> "Incomplete"
    [] progress = "Corrupt" -> "FailuresFound"
    [] OTHER -> "NoFailuresFound"

SourceAssessment(source) ==
  CASE source \in {"Original", "Offering", "Admitted"} -> "Incomplete"
    [] source = "Closed" -> "FailuresFound"
    [] OTHER -> "NoFailuresFound"

ResidualProgress(residual) ==
  IF residual.phase = "Prepared" THEN "NoFailuresFound"
  ELSE CombineFailures(ProgressAssessment(residual.progress), SourceAssessment(residual.source))

NativeFailures(residual) ==
  CASE \/ residual.capability
       \/ residual.retirement
       \/ residual.terminal_report = "Refused"
       \/ residual.received = "Corrupt"
       \/ residual.acquired = "CapabilityFailed" -> "FailuresFound"
    [] residual.tasks # {} -> "Incomplete"
    [] OTHER -> "NoFailuresFound"

RetirementReport(residual) ==
  CombineReports(
    Report(IF residual.tasks = {} THEN "Established" ELSE "NotEstablished",
           CombineFailures(
             CombineFailures(residual.operation, ResidualProgress(residual)),
             CombineFailures(NativeFailures(residual),
                             SourceAssessment(residual.received_source)))),
    residual.descendants)

(***************************************************************************)
(* ActorExecutionOutcome                                                   *)
(***************************************************************************)
NoResidual == [phase |-> "None"]

(* Terminal::drop: the guard's own classifications carry no residual. *)
Guarded(kind) ==
  [kind |-> kind, detail |-> "None", additional |-> FALSE, residual |-> NoResidual]

(* impl From<DriverRetirement>: a disposition is a completion or one error. *)
FromDriver(disposition, additional, residual) ==
  [kind |-> IF disposition.ok THEN "Completed" ELSE disposition.error,
   detail |-> disposition.detail, additional |-> additional, residual |-> residual]

Requested == {"OwnerCancellation", "CapabilityFailed"}

(* LocalRetirement::retire selects the exact request before the general map. *)
RequestTermination(detail) ==
  IF detail = "OwnerCancellation" THEN "Cancelled" ELSE "CapabilityFailed"

(* TerminationPublication::publish.  "Empty" would be its unreachable!. *)
PublishTermination(outcome, selected_report) ==
  CASE outcome.kind = "Completed" /\ outcome.detail = "Stopped" ->
         CASE selected_report = "Sent" -> "Selected"
           [] selected_report = "Closed" -> "Normal"
           [] OTHER -> "unreachable"
    [] outcome.kind = "Completed" /\ outcome.detail = "Exhausted" -> "Collected"
    [] outcome.kind = "Completed" -> "unreachable"
    [] outcome.kind = "BehaviorFailed" -> "Failed"
    [] outcome.kind \in {"ActivationFailed", "InterpreterContractFailed", "SettlementFailed"} ->
         "EnvironmentFailed"
    [] outcome.kind = "Cancelled" -> "Cancelled"
    [] OTHER -> "Panicked"

LocalTermination(outcome, selected_report) ==
  CASE outcome.kind = "Completed" /\ outcome.detail \in Requested ->
         RequestTermination(outcome.detail)
    [] outcome.kind = "ActivationFailed" /\ outcome.detail = "HostCommitPanicked" -> "Panicked"
    [] OTHER -> PublishTermination(outcome, selected_report)

(* ActorRetirementReport::from_joined.  joined = [ok, outcome]. *)
FromJoined(joined, notification) ==
  LET residual == joined.outcome.residual
      report ==
        CASE ~joined.ok \/ joined.outcome.kind \in {"Panicked", "Cancelled"} ->
               Report("NotEstablished", "FailuresFound")
          [] joined.ok /\ joined.outcome.kind = "Completed" ->
               WithFailures(RetirementReport(residual),
                 CombineFailures(Found(joined.outcome.detail = "CapabilityFailed"),
                                 Found(joined.outcome.additional)))
          [] OTHER -> WithFailures(RetirementReport(residual), "FailuresFound")
  IN IF notification = "Ok" THEN report ELSE WithFailures(report, "FailuresFound")

(***************************************************************************)
(* ActorRetirement: [variant, custody, progress, settlements, cause].      *)
(* custody is the ActorCustody product, every lane that coexists with the  *)
(* cause; "unreachable" and "assertion" stand for the code's panics.       *)
(***************************************************************************)
RetirementIngress(acquired) ==
  CASE acquired = "OwnerCancellation" -> "BreakOk"
    [] acquired = "CapabilityFailed" -> "BreakErr"
    [] OTHER -> acquired

ActorCustody(outcome) ==
  LET residual == outcome.residual IN
  [control |-> residual.control, user |-> residual.user,
   descendants |-> residual.descendants, capability |-> residual.capability,
   additional |-> outcome.additional, received |-> residual.received,
   received_source |-> residual.received_source,
   acquired |-> RetirementIngress(residual.acquired),
   retirement |-> residual.retirement, terminal_report |-> residual.terminal_report,
   unread |-> residual.unread]

NoCustody == [control |-> <<>>]

Retirement(variant, outcome, cause) ==
  [variant |-> variant, cause |-> cause,
   custody |-> ActorCustody(outcome),
   progress |-> outcome.residual.progress, source |-> outcome.residual.source,
   settlements |-> outcome.residual.settlements]

BareRetirement(variant) ==
  [variant |-> variant, cause |-> "None", custody |-> NoCustody,
   progress |-> "None", source |-> "None", settlements |-> <<>>]

(* ActorRetirement::custody and ActorRetirement::completion *)
PreparedVariants ==
  {"InitializationRejected", "InitializationPanicked", "PreparedRetirementPanicked",
   "PreparedInterpreterContractFailed", "PreparedEffectsFailed"}

InitializationVariants ==
  {"HostCommitPanicked", "HostRejected", "BindingAbandoned", "InitializationRetirementPanicked",
   "InitializationInterpreterContractFailed"}

ActiveVariants ==
  {"TransitionPanicked", "HostExecutionPanicked", "Completed", "BehaviorFailed", "EffectsFailed",
   "OwnerCancelled", "CapabilityFailed", "ActiveRetirementPanicked", "ActiveActivationPanicked",
   "ActiveInterpreterContractFailed"}

HasCustody(retirement) ==
  retirement.variant \in PreparedVariants \cup InitializationVariants \cup ActiveVariants

Completion(retirement) ==
  IF retirement.variant = "Completed" THEN retirement.cause ELSE "None"

Unreachable == BareRetirement("unreachable")

(* The tasks' join precedes every projection: assert!(activation_tasks.is_empty()). *)
Settled(outcome, retirement) ==
  IF outcome.residual.tasks = {} THEN retirement ELSE BareRetirement("assertion")

(* from_completed: a completion is only ever told of an active retirement. *)
CompletedRetirement(outcome) ==
  CASE outcome.residual.phase # "Retired" -> Unreachable
    [] outcome.detail = "OwnerCancellation" -> Retirement("OwnerCancelled", outcome, "None")
    [] outcome.detail = "CapabilityFailed" -> Retirement("CapabilityFailed", outcome, "JoinError")
    [] OTHER -> Retirement("Completed", outcome, outcome.detail)

BehaviorRetirement(outcome) ==
  CASE outcome.residual.phase = "Prepared" -> Retirement("InitializationRejected", outcome, "Error")
    [] outcome.residual.phase = "Retired" -> Retirement("BehaviorFailed", outcome, "Error")
    [] OTHER -> Unreachable

FoldPanicRetirement(outcome) ==
  CASE outcome.kind = "InitializationPanicked" /\ outcome.residual.phase = "Prepared" ->
         Retirement("InitializationPanicked", outcome, "Payload")
    [] outcome.kind = "TransitionPanicked" /\ outcome.residual.phase = "Retired" ->
         Retirement("TransitionPanicked", outcome, "Payload")
    [] OTHER -> Unreachable

HostPanicRetirement(outcome) ==
  IF outcome.residual.phase = "Retired"
    THEN Retirement("HostExecutionPanicked", outcome, "Payload")
    ELSE Unreachable

CommitPanicRetirement(outcome) == Retirement("HostCommitPanicked", outcome, "Payload")

ActivationPanicRetirement(outcome) ==
  IF outcome.residual.phase = "Retired"
    THEN Retirement("ActiveActivationPanicked", outcome, "Payload")
    ELSE CommitPanicRetirement(outcome)

RejectedActivationRetirement(outcome) ==
  CASE outcome.detail = "Address" /\ outcome.residual.phase = "Uncommitted" ->
         Retirement("HostRejected", outcome, "ClaimError")
    [] outcome.detail = "BindingAbandoned" /\ outcome.residual.phase = "Uncommitted" ->
         Retirement("BindingAbandoned", outcome, "None")
    [] outcome.detail = "HostCommitPanicked" /\ outcome.residual.phase # "Retired" ->
         CommitPanicRetirement(outcome)
    [] OTHER -> Unreachable

SettlementRetirement(outcome) ==
  Retirement(IF outcome.residual.phase = "Prepared" THEN "PreparedEffectsFailed" ELSE "EffectsFailed",
             outcome, outcome.detail)

PhaseVariant(outcome, prepared, initialization, active) ==
  CASE outcome.residual.phase = "Prepared" -> prepared
    [] outcome.residual.phase = "Uncommitted" -> initialization
    [] OTHER -> active

ContractRetirement(outcome) ==
  Retirement(PhaseVariant(outcome, "PreparedInterpreterContractFailed",
               "InitializationInterpreterContractFailed", "ActiveInterpreterContractFailed"),
             outcome, "None")

RetirementPanicRetirement(outcome) ==
  Retirement(PhaseVariant(outcome, "PreparedRetirementPanicked",
               "InitializationRetirementPanicked", "ActiveRetirementPanicked"),
             outcome, "Payload")

FromLocal(outcome) ==
  IF outcome.kind \in {"Panicked", "Cancelled"} THEN BareRetirement(outcome.kind)
  ELSE Settled(outcome,
    CASE outcome.kind = "Completed" -> CompletedRetirement(outcome)
      [] outcome.kind = "BehaviorFailed" -> BehaviorRetirement(outcome)
      [] outcome.kind \in {"InitializationPanicked", "TransitionPanicked"} -> FoldPanicRetirement(outcome)
      [] outcome.kind = "HostExecutionPanicked" -> HostPanicRetirement(outcome)
      [] outcome.kind = "ActivationPanicked" -> ActivationPanicRetirement(outcome)
      [] outcome.kind = "ActivationFailed" -> RejectedActivationRetirement(outcome)
      [] outcome.kind = "SettlementFailed" -> SettlementRetirement(outcome)
      [] outcome.kind = "InterpreterContractFailed" -> ContractRetirement(outcome)
      [] outcome.kind = "RetirementPanicked" -> RetirementPanicRetirement(outcome))

(***************************************************************************)
(* SpawnError: what startup_failure tells the launcher                     *)
(***************************************************************************)
SpawnError(variant, outcome, notification, report) ==
  [variant |-> variant, outcome |-> outcome, notification |-> notification, report |-> report]

(* The variants whose custody is spelled out field by field: a fold that failed
   before anything was committed, and a commitment that was refused. *)
FoldVariant(outcome) ==
  CASE outcome.kind = "BehaviorFailed" -> "InitializationRejected"
    [] outcome.kind = "InitializationPanicked" -> "InitializationPanicked"
    [] OTHER -> "Unpublished"

CommitVariant(outcome) ==
  CASE outcome.kind = "ActivationFailed" /\ outcome.detail = "Address" -> "HostRejected"
    [] outcome.kind = "ActivationFailed" /\ outcome.detail = "BindingAbandoned" -> "BindingAbandoned"
    [] OTHER -> "Unpublished"

UnspelledVariant(outcome) ==
  IF outcome.kind \in {"Panicked", "Cancelled"} THEN outcome.kind ELSE "Unpublished"

SpawnFromLocal(outcome, notification, report) ==
  SpawnError(CASE outcome.residual.phase = "None" \/ outcome.residual.tasks # {} -> UnspelledVariant(outcome)
               [] outcome.residual.phase = "Prepared" -> FoldVariant(outcome)
               [] outcome.residual.phase = "Uncommitted" -> CommitVariant(outcome)
               [] OTHER -> UnspelledVariant(outcome),
             outcome, notification, report)

(* into_retirement: the custody goes back field by field, or as it came *)
SpelledRetirement(spawn_error) ==
  Retirement(spawn_error.variant, spawn_error.outcome,
             CASE spawn_error.variant = "InitializationRejected" -> "Error"
               [] spawn_error.variant = "InitializationPanicked" -> "Payload"
               [] spawn_error.variant = "HostRejected" -> "ClaimError"
               [] spawn_error.variant = "BindingAbandoned" -> "None")

SpawnIntoRetirement(spawn_error) ==
  CASE spawn_error.variant = "Unpublished" -> FromLocal(spawn_error.outcome)
    [] spawn_error.variant \in {"Panicked", "Cancelled"} -> BareRetirement(spawn_error.variant)
    [] OTHER -> SpelledRetirement(spawn_error)
=============================================================================
