------------------------------ MODULE MCTasks -------------------------------
(***************************************************************************)
(* The two state machines that one task carries from await to await and    *)
(* that may be cut off at an await, each on its own: the Driver under the  *)
(* loans of its caller, and the serving task of a remote client.           *)
(***************************************************************************)
EXTENDS MCDriver, RemoteClient

\* Which task the behaviour runs.
VARIABLE part

MCInit == Init /\ ClientInit /\ part \in {"driver", "client"}

DriverSteps == part = "driver" /\ Next /\ UNCHANGED <<clientVars, part>>
ClientSteps == part = "client" /\ ClientNext /\ UNCHANGED <<vars, part>>
\* A client whose parts were taken and whose application has ended is left alone.
ClientOver == part = "client" /\ phase = "taken" /\ joined /\ UNCHANGED <<vars, clientVars, part>>

MCNext == DriverSteps \/ ClientSteps \/ ClientOver

\* The fairness of each, while it runs.  A loaned Driver is polled until it is pending,
\* and the hosts considered here answer every request; callers need not cancel or
\* receive again.
MCFairness ==
    /\ WF_vars(part = "driver" /\ Loan) /\ WF_vars(part = "driver" /\ Drive)
    /\ WF_vars(part = "driver" /\ HostReturns)
    /\ ClientFairness

MCSpec == MCInit /\ [][MCNext]_<<vars, clientVars, part>> /\ MCFairness
=============================================================================
