--------------------------- MODULE MCCapabilities ---------------------------
(***************************************************************************)
(* Capabilities on small scripts, one per family of action items.  Every     *)
(* script runs against every end its faults allow and every moment of the  *)
(* owner's cancellation.                                                   *)
(***************************************************************************)
EXTENDS Capabilities, TLC

CONSTANTS c1, c2, o1, t1

Do(op, ids, arg) == [op |-> op, ids |-> ids, arg |-> arg]
Commits == Do("Commit", <<>>, None)
Stops == Do("Stop", <<>>, None)
Split == c1 :> 2 @@ c2 :> 1

Plan(script, faults, reports) ==
  [script |-> script, position |-> Split, faults |-> faults, reports |-> reports]

(* messages through every route to a mailbox of one slot *)
Messages ==
  Plan(<<Do("Delivery", <<c1>>, "m0"), Do("Create", <<c1>>, None),
         Do("ChildDelivery", <<c1>>, "m1"), Do("CustomerLogical", <<c1>>, "m2"), Commits,
         Do("EstablishedDelivery", <<c1>>, "m3"), Do("CustomerRejectedEstablished", <<c1>>, "m4"),
         Do("DiagnosticLogical", <<c1>>, "m5"), Do("DiagnosticEstablished", <<c1>>, "m6"),
         Do("ChildInput", <<c1>>, "m7"), Stops>>,
       {"Failed", "Abandon"}, FALSE)

(* startup failures over two positions, a repeated id, exhausted routes *)
Startups ==
  Plan(<<Do("Create", <<c1, c2>>, None), Do("ChildDelivery", <<c1>>, "m1"),
         Do("ChildInput", <<c2>>, "m2"), Do("Create", <<c1>>, None),
         Do("Create", <<c2>>, None), Commits>>,
       StartupEnds \cup {"JoinError", "Allocation", "Notification", "Abandon"}, FALSE)

(* retirement of established children that end badly *)
Endings ==
  Plan(<<Do("Create", <<c1, c2>>, None), Commits>>,
       {"Failed", "JoinError", "Notification", "Projection", "Abandon"}, FALSE)

(* an exact observation granted again under the same id *)
Exact ==
  Plan(<<Do("Create", <<c1>>, None), Do("ObserveEstablished", <<c1>>, o1), Commits,
         Do("CancelObservation", <<c1>>, o1), Do("ObserveEstablished", <<c1>>, o1), Commits,
         Do("CancelObservation", <<c1>>, o1), Stops>>, {}, TRUE)

(* terminations, reports and the two shutdown requests *)
Shutdowns ==
  Plan(<<Do("Create", <<c1>>, None),
         Do("ObserveChild", <<c1>>, None), Do("ObservePeer", <<c1>>, None), Commits,
         Do("ShutdownEstablished", <<c1>>, None), Do("ShutdownChild", <<c1>>, None), Commits>>,
       {}, TRUE)

(* workers, timers and the actor's own outcome *)
Workers ==
  Plan(<<Do("ReportTerminalOutcome", <<>>, "first"), Do("ReportShutdownPlan", <<>>, None),
         Do("ScheduleAfter", <<>>, t1), Do("ScheduleAt", <<>>, t1), Commits,
         Do("StartWorker", <<>>, None), Do("PrepareWorkers", <<c1, c2>>, None), Commits,
         Do("ReportTerminalOutcome", <<>>, "second"), Do("ReportTerminalOutcome", <<>>, "third"),
         Stops>>,
       {"QueueGenerationExhausted", "DeadlineOverflow", "TaskPanic"}, FALSE)

(* authority that is missing, unavailable or already stopped *)
Missing ==
  Plan(<<Do("EstablishedDelivery", <<c2>>, "m1"), Do("CustomerEstablished", <<c2>>, "m2"),
         Do("DiagnosticEstablished", <<c2>>, "m3"), Do("AssignWorker", <<c2>>, "m4"),
         Do("ChildDelivery", <<c2>>, "m5"), Do("ChildInput", <<c2>>, "m6"),
         Do("ProxyOperation", <<c2>>, "m7"), Do("ObservePeer", <<c2>>, None),
         Do("ObserveEstablished", <<c2>>, o1), Do("ShutdownEstablished", <<c2>>, None),
         Do("InitializeWorker", <<c2>>, None), Do("CancelObservation", <<c2>>, o1),
         Do("Create", <<c1>>, None), Do("ObserveCreation", <<c1>>, None),
         Do("ObserveEstablishedCreation", <<c1>>, None), Do("ProxyOperation", <<c1>>, "m8"),
         Do("ObserveChild", <<c1>>, None), Commits,
         Do("InitializeWorker", <<c1>>, None), Do("DiagnosticTerminal", <<>>, None),
         Do("Delivery", <<c1>>, "m9"), Do("ShutdownChild", <<c1>>, None),
         Do("AssignWorker", <<c1>>, "m10"), Commits>>,
       {"Allocation", "InitializationRejected"}, FALSE)

(* items only a corrupt traversal could name: no row was ever recorded *)
Corrupts(op) ==
  Plan(<<Do("ReportTerminalOutcome", <<>>, "first"), Do(op, <<c2>>, None), Commits,
         Do("DiagnosticTerminal", <<>>, None), Stops>>, {}, FALSE)

MCPlans ==
  {Messages, Startups, Endings, Exact, Shutdowns, Workers, Missing}
  \cup {Corrupts(op) : op \in {"ObserveCreation", "ObserveEstablishedCreation", "ShutdownChild",
                                "ObserveChild"}}

=============================================================================
