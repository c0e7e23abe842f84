---------------------------- MODULE DriverProofs ----------------------------
(***************************************************************************)
(* Proofs about Driver, for every bound, every set of cancellation points  *)
(* and every host.                                                         *)
(***************************************************************************)
EXTENDS Driver, SequenceTheorems, TLAPS

\* A leaf that names no prover is tried with SMT, then Zenon, then SMT twice more with more time.
USE SMTT(20), Zenon, SMTT(40), SMTT(60)

-----------------------------------------------------------------------------
(* The inductive invariant *)

Ended == {"Retiring", "RetirementAttempted"}

\* Where the future stands determines the phase it is in.
PcPhase ==
    /\ pc = "activate" => d.phase = "Activating"
    /\ pc \in {"offer", "nextSource", "next", "fold", "apply"} => d.phase \in Running
    /\ pc \in {"retirePrepared", "retireActive"} => d.phase = "RetirementAttempted"
    /\ pc = "return" => d.phase \in Ended
    /\ pc = "next" => d.phase = "Active"
    /\ pc = "offer" => d.source_index # None
    /\ pc = "fold" /\ d.ingress = "Event" => turn < MaxTurns
    /\ reply # "None" => pc = "idle" /\ d.phase \in Ended

\* A disposition is exactly what selects retirement.
DispositionPhase == d.disposition # "None" <=> d.phase \in Ended

\* How often each affine operation was called is a function of the phase.
CallsPhase ==
    /\ calls.initialize = IF d.phase = "Prepared" THEN 0 ELSE 1
    /\ calls.retire = IF d.phase = "RetirementAttempted" THEN 1 ELSE 0
    /\ d.phase \in {"Prepared", "Activating", "Initializing", "SettlingInitialization"}
          => calls.publish = 0
    /\ d.phase = "Active" => calls.publish = 1
    /\ calls.publish <= 1

\* Which environment owner each phase has, when an ingress may be unread, and that the
\* retirement list is made by retirement only.
OwnerPhase ==
    /\ d.phase \in {"Prepared", "Activating"} => ~d.active /\ d.ingress = "None"
    /\ d.phase \in Running => d.active /\ ~d.environment /\ (pc # "fold" => d.ingress = "None")
    /\ d.phase = "Initializing" => d.interpretation # None
    /\ d.phase \notin Ended => d.retirement_input = NoInput

\* The row taken out of the queue remembers a position the queue still has.
IndexInQueue ==
    d.retirement_input = NoInput /\ d.source_index # None =>
        d.source_index \in 1 .. (Len(d.settlements) + 1)

IInv == TypeOK /\ PcPhase /\ DispositionPhase /\ CallsPhase /\ OwnerPhase /\ IndexInQueue

-----------------------------------------------------------------------------
(* The helpers *)

\* Two Driver values that differ at most in phase and recorded failures.
SameSlots(s, t) ==
    /\ t.environment = s.environment /\ t.active = s.active
    /\ t.actions = s.actions /\ t.activation = s.activation /\ t.interpretation = s.interpretation
    /\ t.source_input = s.source_input /\ t.source_received = s.source_received
    /\ t.source_index = s.source_index /\ t.ingress = s.ingress /\ t.decision = s.decision
    /\ t.settlements = s.settlements /\ t.retirement_input = s.retirement_input
    /\ t.residual = s.residual

\* Driver::reject selects retirement, keeps an earlier disposition and no slot changes.
LEMMA RejectLemma ==
    ASSUME NEW s \in DriverType, NEW e \in Failures
    PROVE  /\ Reject(s, e) \in DriverType
           /\ Reject(s, e).phase = "Retiring"
           /\ Reject(s, e).disposition = IF s.disposition = "None" THEN e ELSE s.disposition
           /\ SameSlots(s, Reject(s, e))
<1>1. CASE s.disposition = "None"
  BY Zenon, <1>1 DEF Reject, DriverType, SameSlots, Phases, Dispositions
<1>2. CASE s.disposition # "None"
  <2> DEFINE f == Append(s.additional_failures, e)
  <2>1. s.additional_failures \in Seq(Failures)
    BY DEF DriverType
  <2>2. f \in Seq(Failures)
    BY <2>1
  <2>3. Reject(s, e) = [s EXCEPT !.additional_failures = f, !.phase = "Retiring"]
    BY <1>2 DEF Reject
  <2> HIDE DEF f
  <2> QED
    BY ZenonT(60), ZenonT(30), <1>2, <2>2, <2>3 DEF DriverType, SameSlots, Phases
<1> QED
  BY <1>1, <1>2

\* Driver::complete likewise.
LEMMA CompleteLemma ==
    ASSUME NEW s \in DriverType, NEW c \in Completions
    PROVE  /\ Complete(s, c) \in DriverType
           /\ Complete(s, c).phase = "Retiring"
           /\ Complete(s, c).disposition = IF s.disposition = "None" THEN c ELSE s.disposition
           /\ SameSlots(s, Complete(s, c))
BY ZenonT(60) DEF Complete, DriverType, SameSlots, Phases, Dispositions

\* Any number of caught payloads: none leaves the Driver alone, some select retirement.
LEMMA ReceiveFailuresLemma ==
    ASSUME NEW s \in DriverType, NEW e \in Failures, NEW n \in 0 .. 2
    PROVE  LET t == ReceiveFailures(s, e, n) IN
           /\ t \in DriverType
           /\ SameSlots(s, t)
           /\ n = 0 => t = s
           /\ n # 0 => /\ t.phase = "Retiring"
                       /\ t.disposition = IF s.disposition = "None" THEN e ELSE s.disposition
<1>1. CASE n = 0
  BY <1>1 DEF ReceiveFailures, SameSlots
<1>2. CASE n = 1
  BY <1>2, RejectLemma DEF ReceiveFailures
<1>3. CASE n = 2
  <2>1. Reject(s, e) \in DriverType
    BY RejectLemma
  <2>2. "None" \notin Failures
    BY DEF Failures
  <2> QED
    BY <1>3, <2>1, <2>2, RejectLemma DEF ReceiveFailures, SameSlots
<1> QED
  BY <1>1, <1>2, <1>3

\* A contract failure always ends in retirement.
LEMMA ContractFailedLemma ==
    ASSUME NEW s \in DriverType
    PROVE  LET t == ContractFailed(s) IN
           /\ t \in DriverType
           /\ SameSlots(s, t)
           /\ t.phase = "Retiring"
           /\ t.disposition = IF s.phase = "Retiring" \/ s.disposition # "None"
                              THEN s.disposition ELSE "InterpreterContractFailed"
<1>1. "InterpreterContractFailed" \in Failures
  BY DEF Failures
<1> QED
  BY <1>1, RejectLemma DEF ContractFailed, SameSlots

-----------------------------------------------------------------------------
(* Two shapes most steps have *)

CustodyOK == turn \in Slot /\ host \subseteq Turns /\ hostEnv \in BOOLEAN /\ spent \subseteq Turns /\ lost \subseteq Turns

\* A step that moves slots about within one phase and one await.
LEMMA QuietStep ==
    ASSUME IInv, d' \in DriverType, CustodyOK',
           d'.phase = d.phase, d'.disposition = d.disposition,
           pc' = pc, reply' = reply, calls' = calls,
           pc # "fold", pc = "offer" => d'.source_index = d.source_index,
           OwnerPhase', IndexInQueue'
    PROVE  IInv'
BY DEF IInv, TypeOK, CustodyOK, PcPhase, DispositionPhase, CallsPhase

\* A step that changes only where the future stands.
LEMMA MoveStep ==
    ASSUME IInv, d' = d, CustodyOK', calls' = calls,
           pc' \in Operations \cup {"idle", "loop", "fold", "return"}, reply' \in {"None", "Ok", "Err"},
           PcPhase', d.phase \in Running /\ pc = "fold" => pc' = "fold"
    PROVE  IInv'
BY DEF IInv, TypeOK, CustodyOK, DispositionPhase, CallsPhase, OwnerPhase, IndexInQueue

\* A step that selects retirement and returns to the loop.
LEMMA EndingStep ==
    ASSUME IInv, d' \in DriverType, CustodyOK',
           d.phase \notin {"Prepared", "RetirementAttempted"}, d'.phase = "Retiring", d'.disposition # "None",
           pc' = "loop", reply' = reply, reply = "None", calls' = calls,
           IndexInQueue'
    PROVE  IInv'
BY DEF IInv, TypeOK, CustodyOK, PcPhase, DispositionPhase, CallsPhase, OwnerPhase, Running, Ended, Operations

-----------------------------------------------------------------------------
(* The invariant is inductive *)

\* Driver::new satisfies the invariant.
LEMMA InitInv == Init => IInv
<1> SUFFICES ASSUME Init PROVE IInv
  OBVIOUS
<1>1. <<None>> \in Seq(Slot) /\ <<>> \in Seq(Rows) /\ <<>> \in Seq(Failures)
  BY DEF Slot
<1>2. d \in DriverType
  BY <1>1 DEF Init, DriverType, Slot, Phases, Receipts, Residuals, Dispositions, NoCustody, NoResidual, NoInput, None
<1>3. TypeOK
  BY Zenon, <1>2 DEF Init, TypeOK, Slot, Operations
<1> QED
  BY <1>3 DEF Init, IInv, PcPhase, DispositionPhase, CallsPhase, OwnerPhase, IndexInQueue, Running, Ended, None

\* Loans, cancellation, delivery and the calls that only move the future.
LEMMA CallerInv ==
    IInv /\ (Loan \/ Cancel \/ ReceiveAgain \/ Finished \/ Deliver \/ CallActivate \/ CallOffer
                  \/ CallNext \/ AlreadyAttempted) => IInv'
<1> SUFFICES ASSUME IInv, Loan \/ Cancel \/ ReceiveAgain \/ Finished \/ Deliver \/ CallActivate
                            \/ CallOffer \/ CallNext \/ AlreadyAttempted
             PROVE  IInv'
  OBVIOUS
<1>1. d' = d /\ calls' = calls
  BY DEF Loan, Cancel, ReceiveAgain, Finished, Deliver, CallActivate, CallOffer, CallNext,
         AlreadyAttempted, vars
<1>2. CustodyOK'
  BY Zenon DEF IInv, TypeOK, CustodyOK, custody, vars, Loan, Cancel, ReceiveAgain, Finished, Deliver,
         CallActivate, CallOffer, CallNext, AlreadyAttempted
<1>3. PcPhase'
  BY <1>1 DEF IInv, PcPhase, OwnerPhase, Loan, Cancel, ReceiveAgain, Finished, Deliver, CallActivate,
         CallOffer, CallNext, AlreadyAttempted, Turning, Goto, vars, Running, Ended, Operations
<1>4. pc' \in Operations \cup {"idle", "loop", "fold", "return"} /\ reply' \in {"None", "Ok", "Err"}
  BY DEF IInv, TypeOK, Loan, Cancel, ReceiveAgain, Finished, Deliver, CallActivate, CallOffer,
         CallNext, AlreadyAttempted, Goto, vars, Operations
<1>5. d.phase \in Running /\ pc = "fold" => pc' = "fold"
  BY CancelPointsAssumption DEF Loan, Cancel, ReceiveAgain, Finished, Deliver, CallActivate, CallOffer,
         CallNext, AlreadyAttempted, Turning, vars, Operations
<1> QED
  BY Zenon, <1>1, <1>2, <1>3, <1>4, <1>5, MoveStep

\* behavior::initialize.
LEMMA InitializeInv == IInv /\ Initialize => IInv'
<1> SUFFICES ASSUME IInv, Initialize PROVE IInv'
  OBVIOUS
<1> DEFINE s == [d EXCEPT !.phase = "Activating"]
<1>1. d \in DriverType /\ d.disposition = "None" /\ ~d.active /\ d.ingress = "None" /\ reply = "None"
  BY DEF IInv, TypeOK, DispositionPhase, OwnerPhase, PcPhase, Initialize, Ended
<1>2. s \in DriverType /\ s.phase = "Activating" /\ SameSlots(d, s) /\ s.disposition = "None"
  BY Zenon, <1>1 DEF DriverType, Phases, SameSlots
<1>3. 0 \in Turns
  BY MaxTurnsAssumption DEF Turns
<1>4. CustodyOK' /\ pc' = "loop" /\ reply' = "None" /\ calls'.initialize = 1
      /\ calls' \in [initialize : Nat, publish : Nat, retire : Nat]
      /\ calls'.publish = 0 /\ calls'.retire = 0
  BY <1>1, <1>3 DEF IInv, TypeOK, CallsPhase, CustodyOK, Initialize, Slot
<1>5. CASE \E step \in {"Continue", "Stop"} : d' = [s EXCEPT !.decision = step, !.actions = 0]
  <2> HIDE DEF s
  <2>1. d' \in DriverType /\ d'.phase = "Activating" /\ d'.disposition = "None"
        /\ d'.active = d.active /\ d'.ingress = d.ingress
        /\ d'.source_index = d.source_index /\ d'.retirement_input = d.retirement_input
        /\ d'.settlements = d.settlements
    BY ZenonT(60), ZenonT(30), <1>2, <1>3, <1>5 DEF DriverType, Slot, SameSlots
  <2> QED
    BY <2>1, <1>1, <1>4 DEF IInv, TypeOK, CustodyOK, PcPhase, DispositionPhase, CallsPhase, OwnerPhase,
       IndexInQueue, Running, Ended, Operations
<1>6. CASE \E error \in {"Behavior", "InitializationPanicked"} : d' = Reject(s, error)
  <2>1. PICK error \in {"Behavior", "InitializationPanicked"} : d' = Reject(s, error)
    BY <1>6
  <2>2. error \in Failures /\ error # "None"
    BY DEF Failures
  <2>3. d' \in DriverType /\ d'.phase = "Retiring" /\ d'.disposition # "None" /\ SameSlots(s, d')
    BY <1>2, <2>1, <2>2, RejectLemma
  <2>4. IndexInQueue'
    BY <1>2, <2>3 DEF IInv, IndexInQueue, SameSlots
  <2> QED
    BY <2>3, <2>4, <1>4 DEF IInv, TypeOK, CustodyOK, PcPhase, DispositionPhase, CallsPhase, OwnerPhase,
       Running, Ended, Operations
<1> QED
  BY <1>5, <1>6 DEF Initialize

\* The host's moves inside activate.
LEMMA HostActivateInv == IInv /\ (HostTakesEnvironment \/ HostRepliesActivation) => IInv'
<1> SUFFICES ASSUME IInv, HostTakesEnvironment \/ HostRepliesActivation PROVE IInv'
  OBVIOUS
<1>1. d \in DriverType /\ d.phase = "Activating" /\ pc = "activate"
  BY DEF IInv, TypeOK, PcPhase, HostTakesEnvironment, HostRepliesActivation
<1>2. CustodyOK' /\ pc' = pc /\ reply' = reply /\ calls' = calls
  BY Zenon, <1>1 DEF IInv, TypeOK, CustodyOK, HostTakesEnvironment, HostRepliesActivation, DriverType, Slot
<1>3. d' \in DriverType /\ d'.phase = d.phase /\ d'.disposition = d.disposition /\ d'.active = d.active
      /\ d'.ingress = d.ingress /\ d'.source_index = d.source_index
      /\ d'.settlements = d.settlements /\ d'.retirement_input = d.retirement_input
  <2>1. None \in Slot
    BY DEF Slot
  <2>2. d' = [d EXCEPT !.environment = FALSE, !.actions = None]
        \/ (\E result \in {"Ok", "Err"} : d' = [d EXCEPT !.activation = result])
    BY DEF HostTakesEnvironment, HostRepliesActivation
  <2>3. CASE d' = [d EXCEPT !.environment = FALSE, !.actions = None]
    BY Zenon, <1>1, <2>1, <2>3 DEF DriverType
  <2>4. ASSUME NEW result \in {"Ok", "Err"}, d' = [d EXCEPT !.activation = result]
        PROVE  d' \in DriverType /\ d'.phase = d.phase /\ d'.disposition = d.disposition
               /\ d'.active = d.active /\ d'.ingress = d.ingress /\ d'.source_index = d.source_index
               /\ d'.settlements = d.settlements /\ d'.retirement_input = d.retirement_input
    BY Zenon, <1>1, <2>4 DEF DriverType
  <2> QED
    BY <2>2, <2>3, <2>4
<1>4. OwnerPhase' /\ IndexInQueue'
  BY <1>1, <1>2, <1>3 DEF IInv, OwnerPhase, IndexInQueue, Running
<1> QED
  BY Zenon, <1>1, <1>2, <1>3, <1>4, QuietStep

\* activate returned or unwound.
LEMMA ActivateReturnsInv == IInv /\ ActivateReturns => IInv'
<1> SUFFICES ASSUME IInv, ActivateReturns PROVE IInv'
  OBVIOUS
<1>1. d \in DriverType /\ d.phase = "Activating" /\ reply = "None" /\ d.disposition = "None" /\ ~d.active
      /\ d.ingress = "None"
  BY DEF IInv, TypeOK, PcPhase, DispositionPhase, OwnerPhase, ActivateReturns, Ended
<1>2. CustodyOK' /\ pc' = "loop" /\ reply' = reply /\ calls' = calls
  BY Zenon DEF IInv, TypeOK, CustodyOK, ActivateReturns, Goto
<1>3. PICK n \in 0 .. 2 : d' = Activated(d, n)
  BY DEF ActivateReturns, LoanFailures
<1>f. "ActivationPanicked" \in Failures /\ "Activation" \in Failures /\ "None" \notin Failures
  BY DEF Failures
<1>4. CASE d.environment \/ d.actions # None \/ d.activation = "None"
  <2> DEFINE r == ReceiveFailures(d, "ActivationPanicked", n)
  <2>1. d' = ContractFailed(r)
    BY Zenon, <1>3, <1>4 DEF Activated
  <2>2. r \in DriverType /\ SameSlots(d, r) /\ (r.phase = "Retiring" => r.disposition # "None")
    BY Zenon, <1>1, <1>f, ReceiveFailuresLemma
  <2> HIDE DEF r
  <2>3. d' \in DriverType /\ SameSlots(r, d') /\ d'.phase = "Retiring" /\ d'.disposition # "None"
    BY Zenon, <2>1, <2>2, ContractFailedLemma
  <2>4. IndexInQueue'
    BY Zenon, <2>2, <2>3 DEF IInv, IndexInQueue, SameSlots
  <2> QED
    BY Zenon, <1>1, <1>2, <2>3, <2>4, EndingStep
<1>5. CASE ~d.environment /\ d.activation = "Ok" /\ d.actions = None
  <2> DEFINE q == [d EXCEPT !.activation = "None", !.active = TRUE, !.interpretation = 0,
                            !.phase = "Initializing"]
             r == ReceiveFailures(q, "ActivationPanicked", n)
  <2>1. d' = r
    BY Zenon, <1>3, <1>5 DEF Activated
  <2>z. 0 \in Slot
    BY MaxTurnsAssumption DEF Slot, Turns
  <2>2. q \in DriverType /\ q.phase = "Initializing" /\ q.interpretation = 0 /\ q.active /\ ~q.environment
        /\ q.disposition = "None" /\ q.ingress = "None" /\ q.source_index = d.source_index
        /\ q.settlements = d.settlements /\ q.retirement_input = d.retirement_input
    BY Zenon, <1>1, <1>5, <2>z DEF DriverType, Phases
  <2> HIDE DEF q
  <2>3. r \in DriverType /\ SameSlots(q, r) /\ (n = 0 => r = q)
        /\ (n # 0 => r.phase = "Retiring" /\ r.disposition # "None")
    BY ZenonT(30), <2>2, <1>f, ReceiveFailuresLemma
  <2>4. IndexInQueue'
    BY Zenon, <2>1, <2>2, <2>3 DEF IInv, IndexInQueue, SameSlots
  <2> HIDE DEF r
  <2>5. CASE n = 0
    BY <1>1, <1>2, <2>1, <2>2, <2>3, <2>4, <2>5 DEF IInv, TypeOK, CustodyOK, PcPhase, DispositionPhase,
       CallsPhase, OwnerPhase, Running, Ended, Operations, None
  <2>6. CASE n # 0
    BY Zenon, <1>1, <1>2, <2>1, <2>3, <2>4, <2>6, EndingStep
  <2> QED
    BY Zenon, <2>5, <2>6
<1>6. CASE ~d.environment /\ d.activation = "Err" /\ d.actions = None
  <2> DEFINE q == [d EXCEPT !.activation = "None", !.residual = [acquired |-> TRUE, of |-> {0}]]
             e == Reject(q, "Activation")
             r == ReceiveFailures(e, "ActivationPanicked", n)
  <2>1. d' = r
    BY <1>3, <1>6 DEF Activated
  <2>r. [acquired |-> TRUE, of |-> {0}] \in Residuals
    BY MaxTurnsAssumption DEF Residuals, Turns
  <2>2. q \in DriverType /\ q.source_index = d.source_index
        /\ q.settlements = d.settlements /\ q.retirement_input = d.retirement_input
    BY Zenon, <1>1, <2>r DEF DriverType
  <2> HIDE DEF q
  <2>3. e \in DriverType /\ SameSlots(q, e) /\ e.phase = "Retiring" /\ e.disposition # "None"
    BY Zenon, <2>2, <1>f, RejectLemma
  <2> HIDE DEF e
  <2>4. r \in DriverType /\ SameSlots(e, r) /\ r.phase = "Retiring" /\ r.disposition # "None"
    BY Zenon, <2>3, <1>f, ReceiveFailuresLemma
  <2>5. IndexInQueue'
    BY Zenon, <2>1, <2>2, <2>3, <2>4 DEF IInv, IndexInQueue, SameSlots
  <2> HIDE DEF r
  <2> QED
    BY Zenon, <1>1, <1>2, <2>1, <2>4, <2>5, EndingStep
<1> QED
  BY Zenon, <1>1, <1>4, <1>5, <1>6 DEF DriverType

\* Positions inside a queue of rows.
LEMMA InsertAtType ==
    ASSUME NEW q \in Seq(Rows), NEW i \in 1 .. (Len(q) + 1), NEW row \in Rows
    PROVE  InsertAt(q, i, row) \in Seq(Rows) /\ Len(InsertAt(q, i, row)) = Len(q) + 1
<1>1. SubSeq(q, 1, i - 1) \in Seq(Rows) /\ Len(SubSeq(q, 1, i - 1)) = i - 1
  OBVIOUS
<1>2. SubSeq(q, i, Len(q)) \in Seq(Rows) /\ Len(SubSeq(q, i, Len(q))) = Len(q) - i + 1
  OBVIOUS
<1>3. <<row>> \in Seq(Rows) /\ Len(<<row>>) = 1
  OBVIOUS
<1>4. SubSeq(q, 1, i - 1) \o <<row>> \in Seq(Rows) /\ Len(SubSeq(q, 1, i - 1) \o <<row>>) = i
  BY <1>1, <1>3, ConcatProperties
<1> DEFINE a == SubSeq(q, 1, i - 1) \o <<row>>
           b == SubSeq(q, i, Len(q))
<1>5. InsertAt(q, i, row) = a \o b
  BY DEF InsertAt
<1>6. a \in Seq(Rows) /\ b \in Seq(Rows) /\ Len(a) = i /\ Len(b) = Len(q) - i + 1 /\ Len(q) \in Nat
  BY <1>2, <1>4
<1> HIDE DEF a, b
<1>7. a \o b \in Seq(Rows) /\ Len(a \o b) = Len(a) + Len(b)
  BY <1>6, ConcatProperties
<1> QED
  BY <1>5, <1>6, <1>7

LEMMA RemoveAtType ==
    ASSUME NEW q \in Seq(Rows), NEW i \in 1 .. Len(q)
    PROVE  RemoveAt(q, i) \in Seq(Rows) /\ Len(RemoveAt(q, i)) = Len(q) - 1
<1>1. SubSeq(q, 1, i - 1) \in Seq(Rows) /\ Len(SubSeq(q, 1, i - 1)) = i - 1
  OBVIOUS
<1>2. SubSeq(q, i + 1, Len(q)) \in Seq(Rows) /\ Len(SubSeq(q, i + 1, Len(q))) = Len(q) - i
  OBVIOUS
<1> DEFINE a == SubSeq(q, 1, i - 1)
           b == SubSeq(q, i + 1, Len(q))
<1>3. RemoveAt(q, i) = a \o b
  BY DEF RemoveAt
<1>4. a \in Seq(Rows) /\ b \in Seq(Rows) /\ Len(a) = i - 1 /\ Len(b) = Len(q) - i /\ Len(q) \in Nat
  BY <1>1, <1>2
<1> HIDE DEF a, b
<1>5. a \o b \in Seq(Rows) /\ Len(a \o b) = Len(a) + Len(b)
  BY Zenon, <1>4, ConcatProperties
<1> QED
  BY <1>3, <1>4, <1>5

\* Classification of an acquired interpretation.
LEMMA ClassifyInv == IInv /\ Classify => IInv'
<1> SUFFICES ASSUME IInv, Classify PROVE IInv'
  OBVIOUS
<1>1. d \in DriverType /\ d.phase \in Running /\ d.interpretation \in Turns /\ d.disposition = "None"
      /\ d.active /\ ~d.environment /\ d.ingress = "None" /\ pc = "loop" /\ reply = "None"
      /\ d.retirement_input = NoInput
  BY DEF IInv, TypeOK, PcPhase, DispositionPhase, OwnerPhase, Classify, DriverType, Slot, Running, Ended
<1>2. CustodyOK' /\ pc' = "loop" /\ reply' = reply /\ calls' = calls
  BY <1>1 DEF IInv, TypeOK, CustodyOK, Classify, custody
<1>f. {"HostExecutionPanicked", "SettlementCorrupt", "SettlementRejected", "InterpreterContractFailed"}
         \subseteq Failures /\ "None" \notin Failures /\ "Stopped" \in Completions /\ "None" \notin Completions
  BY DEF Failures, Completions
<1>3. CASE d' = Reject(d, "HostExecutionPanicked")
  <2>1. d' \in DriverType /\ d'.phase = "Retiring" /\ d'.disposition # "None" /\ SameSlots(d, d')
    BY Zenon, <1>1, <1>3, <1>f, RejectLemma
  <2>2. IndexInQueue'
    BY <2>1 DEF IInv, IndexInQueue, SameSlots
  <2> QED
    BY Zenon, <1>1, <1>2, <2>1, <2>2, EndingStep DEF Running
<1>4. CASE \E status \in {"Accepted", "Rejected", "Corrupt"} : d' = Classified(d, status)
  <2> DEFINE rows == <<[turn |-> "Offer", of |-> d.interpretation]>> \o d.settlements
             q == [d EXCEPT !.interpretation = None, !.decision = "None", !.settlements = rows]
  <2>1. rows \in Seq(Rows) /\ Len(rows) = Len(d.settlements) + 1
    <3>1. <<[turn |-> "Offer", of |-> d.interpretation]>> \in Seq(Rows) /\ d.settlements \in Seq(Rows)
      BY <1>1 DEF DriverType, Rows
    <3>2. Len(<<[turn |-> "Offer", of |-> d.interpretation]>>) = 1
      OBVIOUS
    <3> QED
      BY <3>1, <3>2, ConcatProperties
  <2> HIDE DEF rows
  <2>2. q \in DriverType /\ q.phase = d.phase /\ q.disposition = "None" /\ q.active /\ ~q.environment
        /\ q.ingress = "None" /\ q.settlements = rows /\ q.source_index = d.source_index
        /\ q.retirement_input = d.retirement_input
    BY Zenon, <1>1, <2>1 DEF DriverType, Slot
  <2>3. d' \in {Reject(q, "SettlementCorrupt"), Reject(q, "SettlementRejected"), Complete(q, "Stopped"),
                Reject(q, "InterpreterContractFailed")}
        \/ (d' = [q EXCEPT !.phase = "SettlingInitialization"] /\ d.phase = "Initializing")
        \/ (d' = q /\ d.phase # "Initializing")
    BY <1>4 DEF Classified, rows
  <2> HIDE DEF q
  <2>4. IndexInQueue \in BOOLEAN
    BY DEF IndexInQueue
  <2>5. ASSUME SameSlots(q, d') \/ d' = [q EXCEPT !.phase = "SettlingInitialization"] PROVE IndexInQueue'
    <3>1. d'.settlements = rows /\ d'.source_index = d.source_index /\ d'.retirement_input = d.retirement_input
      BY ZenonT(30), <2>2, <2>5 DEF SameSlots, DriverType
    <3>2. Len(d.settlements) \in Nat
      BY <1>1 DEF DriverType
    <3> QED
      BY <3>1, <3>2, <2>1 DEF IInv, IndexInQueue
  <2>6. CASE d' \in {Reject(q, "SettlementCorrupt"), Reject(q, "SettlementRejected"), Complete(q, "Stopped"),
                Reject(q, "InterpreterContractFailed")}
    <3>a. (\E e \in Failures : d' = Reject(q, e)) \/ d' = Complete(q, "Stopped")
      BY Zenon, <2>6, <1>f
    <3>b. q \in DriverType /\ q.disposition = "None"
      BY <2>2
    <3>c. ASSUME NEW e \in Failures, d' = Reject(q, e)
          PROVE  d' \in DriverType /\ d'.phase = "Retiring" /\ d'.disposition # "None" /\ SameSlots(q, d')
      BY ZenonT(30), <3>b, <3>c, <1>f, RejectLemma
    <3>d. ASSUME d' = Complete(q, "Stopped")
          PROVE  d' \in DriverType /\ d'.phase = "Retiring" /\ d'.disposition # "None" /\ SameSlots(q, d')
      BY Zenon, <3>b, <3>d, <1>f, CompleteLemma
    <3>1. d' \in DriverType /\ d'.phase = "Retiring" /\ d'.disposition # "None" /\ SameSlots(q, d')
      BY Zenon, <3>a, <3>c, <3>d
    <3> QED
      BY Zenon, <1>1, <1>2, <2>5, <3>1, EndingStep DEF Running
  <2>7. CASE d' = [q EXCEPT !.phase = "SettlingInitialization"] /\ d.phase = "Initializing"
    <3>1. d' \in DriverType /\ d'.phase = "SettlingInitialization" /\ d'.disposition = "None" /\ d'.active
          /\ ~d'.environment /\ d'.ingress = "None" /\ d'.retirement_input = NoInput
      BY Zenon, <1>1, <2>2, <2>7 DEF DriverType, Phases
    <3> QED
      BY Zenon, <1>1, <1>2, <2>5, <2>7, <3>1 DEF IInv, TypeOK, CustodyOK, PcPhase, DispositionPhase, CallsPhase,
         OwnerPhase, Running, Ended, Operations
  <2>8. CASE d' = q /\ d.phase # "Initializing"
    <3>1. OwnerPhase' /\ IndexInQueue'
      BY ZenonT(30), <1>1, <2>2, <2>5, <2>8 DEF OwnerPhase, Running, SameSlots
    <3> QED
      BY <1>1, <1>2, <2>2, <2>8, <3>1, QuietStep
  <2> QED
    BY Zenon, <2>3, <2>6, <2>7, <2>8
<1> QED
  BY <1>3, <1>4 DEF Classify

\* A source row leaves the queue for the source slots.
LEMMA SelectOfferInv == IInv /\ SelectOffer => IInv'
<1> SUFFICES ASSUME IInv, SelectOffer PROVE IInv'
  OBVIOUS
<1>1. d \in DriverType /\ d.phase \in Running /\ d.settlements \in Seq(Rows)
  BY ZenonT(60) DEF IInv, TypeOK, SelectOffer, Turning, DriverType
<1>2. PICK i \in Progressing(d) :
         d' = [d EXCEPT !.source_index = i, !.source_input = d.settlements[i].of,
                        !.settlements = RemoveAt(@, i)]
  BY Zenon DEF SelectOffer
<1>3. i \in 1 .. Len(d.settlements) /\ Len(d.settlements) \in Nat
  BY <1>1 DEF Progressing
<1> DEFINE rest == RemoveAt(d.settlements, i)
           row == d.settlements[i]
<1>4. rest \in Seq(Rows) /\ Len(rest) = Len(d.settlements) - 1
  BY Zenon, <1>1, <1>3, RemoveAtType
<1>5. row.of \in Slot
  <2>1. row \in Rows
    BY Zenon, <1>1, <1>3, ElementOfSeq
  <2> HIDE DEF row
  <2> QED
    BY <2>1 DEF Rows, Slot
<1>6. d' = [d EXCEPT !.source_index = i, !.source_input = row.of, !.settlements = rest]
  BY <1>2
<1> HIDE DEF rest, row
<1>a. i \in Int
  BY <1>3
<1>b. d' \in DriverType
  BY Zenon, <1>1, <1>a, <1>4, <1>5, <1>6 DEF DriverType
<1>7. d'.phase = d.phase /\ d'.disposition = d.disposition /\ d'.source_index = i
      /\ d'.settlements = rest /\ d'.active = d.active /\ d'.environment = d.environment
      /\ d'.ingress = d.ingress /\ d'.interpretation = d.interpretation
      /\ d'.retirement_input = d.retirement_input
  BY <1>1, <1>6 DEF DriverType
<1>8. CustodyOK' /\ pc' = pc /\ pc = "loop" /\ reply' = reply /\ calls' = calls
  BY DEF IInv, TypeOK, CustodyOK, SelectOffer, Turning, custody
<1>9. OwnerPhase' /\ IndexInQueue'
  BY <1>3, <1>4, <1>7, <1>8 DEF IInv, OwnerPhase, IndexInQueue
<1> QED
  BY Zenon, <1>b, <1>7, <1>8, <1>9, QuietStep

\* The host's moves inside offer_next and apply.
LEMMA HostSlotsInv ==
    IInv /\ (HostTakesSource \/ HostRepliesSource \/ HostTakesActions \/ HostRepliesInterpretation) => IInv'
<1> SUFFICES ASSUME IInv, HostTakesSource \/ HostRepliesSource \/ HostTakesActions
                            \/ HostRepliesInterpretation
             PROVE  IInv'
  OBVIOUS
<1>1. d \in DriverType /\ host \subseteq Turns /\ turn \in Slot /\ d.phase \in Running
  BY DEF IInv, TypeOK, PcPhase, HostTakesSource, HostRepliesSource, HostTakesActions,
         HostRepliesInterpretation
<1>2. d.source_input \in Slot /\ d.actions \in Slot
  BY <1>1 DEF DriverType
<1>3. None \in Slot /\ None \notin Turns /\ (\A t \in Slot : t # None => t \in Turns)
  BY DEF Slot, Turns, None
<1>4. CustodyOK' /\ pc' = pc /\ pc # "fold" /\ reply' = reply /\ calls' = calls
  BY Zenon, <1>1, <1>2, <1>3 DEF IInv, TypeOK, CustodyOK, HostTakesSource, HostRepliesSource,
     HostTakesActions, HostRepliesInterpretation
<1>5. CASE HostTakesSource
  BY Zenon, <1>1, <1>3, <1>4, <1>5, QuietStep DEF HostTakesSource, DriverType, IInv, OwnerPhase, IndexInQueue
<1>6. CASE HostRepliesSource
  <2>1. PICK t \in Turns, c \in Custodies : d' = [d EXCEPT !.source_received = [custody |-> c, of |-> t]]
    BY Zenon, <1>1, <1>2, <1>3, <1>6 DEF HostRepliesSource
  <2>2. [custody |-> c, of |-> t] \in Receipts
    BY DEF Receipts, Slot
  <2> QED
    BY ZenonT(30), <1>1, <1>4, <2>1, <2>2, QuietStep DEF DriverType, IInv, OwnerPhase, IndexInQueue
<1>7. CASE HostTakesActions
  BY Zenon, <1>1, <1>3, <1>4, <1>7, QuietStep DEF HostTakesActions, DriverType, IInv, OwnerPhase, IndexInQueue
<1>8. CASE HostRepliesInterpretation
  <2>1. PICK t \in Slot : d' = [d EXCEPT !.interpretation = t] /\ d.interpretation = None /\ t = turn
    BY <1>1, <1>8 DEF HostRepliesInterpretation
  <2>2. d.phase # "Initializing"
    BY Zenon, <1>1, <2>1 DEF IInv, OwnerPhase
  <2> QED
    BY Zenon, <1>1, <1>4, <2>1, <2>2, QuietStep DEF DriverType, IInv, OwnerPhase, IndexInQueue
<1> QED
  BY Zenon, <1>5, <1>6, <1>7, <1>8

\* The source branch keeps the Driver well formed: it stays in its phase, or a
\* failure selects retirement.
LEMMA CustodiedLemma ==
    ASSUME d \in DriverType, d.phase \in Running, d.disposition = "None", IndexInQueue,
           d.source_received # NoCustody, d.source_index # None, d.retirement_input = NoInput,
           NEW n \in 0 .. 2, NEW p \in BOOLEAN
    PROVE  LET t == Custodied(d, n, p) IN
           /\ t \in DriverType
           /\ t.source_index = None /\ t.active = d.active /\ t.environment = d.environment
           /\ t.ingress = d.ingress /\ t.interpretation = d.interpretation
           /\ t.retirement_input = NoInput
           /\ \/ t.phase = d.phase /\ t.disposition = "None"
              \/ t.phase = "Retiring" /\ t.disposition # "None"
<1> DEFINE got == d.source_received
           q == [d EXCEPT !.source_index = None, !.source_received = NoCustody]
           Inserted(row) == [q EXCEPT !.settlements = InsertAt(@, d.source_index, [turn |-> row, of |-> got.of])]
           Fine(t) == /\ t \in DriverType
                      /\ t.source_index = None /\ t.active = d.active /\ t.environment = d.environment
                      /\ t.ingress = d.ingress /\ t.interpretation = d.interpretation
                      /\ t.retirement_input = NoInput
                      /\ \/ t.phase = d.phase /\ t.disposition = "None"
                         \/ t.phase = "Retiring" /\ t.disposition # "None"
<1>f. {"HostExecutionPanicked", "SettlementSourceClosed"} \subseteq Failures /\ "None" \notin Failures
  BY DEF Failures
<1>1. NoCustody \in Receipts /\ None \in Int
  BY DEF NoCustody, Receipts, None, Slot
<1>2. Fine(q)
  BY Zenon, <1>1 DEF DriverType
<1>3. ASSUME NEW t, Fine(t), NEW e \in Failures PROVE Fine(Reject(t, e))
  BY <1>3, <1>f, RejectLemma DEF SameSlots
<1>4. ASSUME NEW t, Fine(t) PROVE Fine(ReceiveFailures(t, "HostExecutionPanicked", n))
  BY <1>4, <1>3, <1>f DEF ReceiveFailures
<1> HIDE DEF Fine
<1>5. ASSUME got.custody = "Exhausted" PROVE Fine(Custodied(d, n, p))
  <2> DEFINE r == ReceiveFailures(q, "HostExecutionPanicked", n)
  <2>1. Custodied(d, n, p) = IF p THEN Reject(r, "HostExecutionPanicked") ELSE r
    BY <1>5 DEF Custodied
  <2> HIDE DEF q
  <2>2. Fine(r)
    BY <1>2, <1>4
  <2> HIDE DEF r
  <2>3. Fine(Reject(r, "HostExecutionPanicked"))
    BY Zenon, <1>3, <1>f, <2>2
  <2> QED
    BY Zenon, <2>1, <2>2, <2>3
<1>6. ASSUME got.custody # "Exhausted" PROVE Fine(Custodied(d, n, p))
  <2>1. got.of \in Turns /\ got.custody \in Custodies
    <3>1. got \in Receipts /\ got # NoCustody
      BY DEF DriverType
    <3> QED
      BY <3>1 DEF Receipts
  <2>2. ASSUME NEW row \in {"Offer", "AwaitSource", "Retained"} PROVE Fine(Inserted(row))
    <3> DEFINE r == [turn |-> row, of |-> got.of]
               s == InsertAt(d.settlements, d.source_index, r)
    <3>1. d.settlements \in Seq(Rows) /\ r \in Rows
      BY <2>1 DEF DriverType, Rows
    <3>2. d.source_index \in 1 .. (Len(d.settlements) + 1)
      BY DEF IndexInQueue
    <3>3. s \in Seq(Rows)
      BY <3>1, <3>2, InsertAtType
    <3>4. Inserted(row) = [q EXCEPT !.settlements = s]
      BY DEF DriverType
    <3> HIDE DEF s, Inserted, q
    <3> QED
      BY ZenonT(60), ZenonT(30), <1>2, <3>3, <3>4 DEF Fine, DriverType
  <2> HIDE DEF Inserted, q
  <2>3. Custodied(d, n, p) \in
           {ReceiveFailures(Inserted("Retained"), "HostExecutionPanicked", n),
            ReceiveFailures(Inserted("AwaitSource"), "HostExecutionPanicked", n),
            ReceiveFailures(Reject(Inserted("Offer"), "SettlementSourceClosed"), "HostExecutionPanicked", n)}
    BY <1>6 DEF Custodied, Inserted, q
  <2>4. Fine(Inserted("Retained")) /\ Fine(Inserted("AwaitSource")) /\ Fine(Inserted("Offer"))
    BY <2>2
  <2>5. Fine(Reject(Inserted("Offer"), "SettlementSourceClosed"))
    BY Zenon, <1>3, <1>f, <2>4
  <2>6. /\ Fine(ReceiveFailures(Inserted("Retained"), "HostExecutionPanicked", n))
        /\ Fine(ReceiveFailures(Inserted("AwaitSource"), "HostExecutionPanicked", n))
        /\ Fine(ReceiveFailures(Reject(Inserted("Offer"), "SettlementSourceClosed"),
                                "HostExecutionPanicked", n))
    BY Zenon, <1>4, <2>4, <2>5
  <2> QED
    BY <2>3, <2>6
<1> QED
  BY <1>5, <1>6 DEF Fine


\* The source branch, from its await or from a reply a dropped future left behind.
LEMMA ReceivedInv ==
    ASSUME IInv, d.phase \in Running, d.source_index # None, pc \in {"loop", "offer"},
           NEW n \in 0 .. 2, Received(n), pc' = "loop",
           reply' = reply, turn' = turn, host' = host, hostEnv' = hostEnv, lost' = lost, calls' = calls
    PROVE  IInv'
<1>1. d \in DriverType /\ d.disposition = "None" /\ d.retirement_input = NoInput /\ reply = "None"
      /\ IndexInQueue /\ d.active /\ ~d.environment /\ d.ingress = "None"
  BY DEF IInv, TypeOK, DispositionPhase, OwnerPhase, PcPhase, Running, Ended
<1>f. "HostExecutionPanicked" \in Failures /\ "None" \notin Failures
  BY DEF Failures
<1>2. CASE d.source_input # None \/ d.source_received = NoCustody
  <2> DEFINE r == ReceiveFailures(d, "HostExecutionPanicked", n)
  <2>1. d' = ContractFailed(r) /\ spent' = spent
    BY Zenon, <1>2 DEF Received
  <2>2. r \in DriverType /\ SameSlots(d, r) /\ (r.phase = "Retiring" => r.disposition # "None")
    BY Zenon, <1>1, <1>f, ReceiveFailuresLemma DEF Running
  <2> HIDE DEF r
  <2>3. d' \in DriverType /\ SameSlots(r, d') /\ d'.phase = "Retiring" /\ d'.disposition # "None"
    BY Zenon, <2>1, <2>2, ContractFailedLemma
  <2>4. IndexInQueue'
    BY Zenon, <2>2, <2>3, <1>1 DEF IndexInQueue, SameSlots
  <2>5. CustodyOK'
    BY Zenon, <2>1 DEF IInv, TypeOK, CustodyOK
  <2> QED
    BY Zenon, <1>1, <2>3, <2>4, <2>5, EndingStep DEF Running
<1>3. CASE d.source_input = None /\ d.source_received # NoCustody
  <2>1. PICK p \in BOOLEAN : d' = Custodied(d, n, p)
    BY Zenon, <1>3 DEF Received
  <2>2. d' \in DriverType /\ d'.source_index = None /\ d'.active /\ ~d'.environment
        /\ d'.ingress = "None" /\ d'.interpretation = d.interpretation
        /\ \/ d'.phase = d.phase /\ d'.disposition = "None" /\ d'.retirement_input = NoInput
           \/ d'.phase = "Retiring" /\ d'.disposition # "None"
    BY Zenon, <1>1, <1>3, <2>1, CustodiedLemma
  <2>3. CustodyOK'
    <3>1. d.source_received.of \in Turns
      BY Zenon, <1>1, <1>3 DEF DriverType, Receipts
    <3> QED
      BY <1>3, <3>1 DEF IInv, TypeOK, CustodyOK, Received
  <2>4. IndexInQueue'
    BY Zenon, <2>2 DEF IndexInQueue
  <2>5. CASE d'.phase = "Retiring" /\ d'.disposition # "None"
    BY Zenon, <1>1, <2>2, <2>3, <2>4, <2>5, EndingStep DEF Running
  <2>6. CASE d'.phase = d.phase /\ d'.disposition = "None" /\ d'.retirement_input = NoInput
    BY Zenon, <1>1, <2>2, <2>3, <2>4, <2>6 DEF IInv, TypeOK, CustodyOK, PcPhase, DispositionPhase, CallsPhase,
       OwnerPhase, Running, Ended
  <2> QED
    BY Zenon, <2>2, <2>5, <2>6
<1> QED
  BY Zenon, <1>2, <1>3

\* offer_next returned, or its reply was found by a fresh loan.
LEMMA SourceInv == IInv /\ (OfferReturns \/ ReceiveAcquired) => IInv'
<1> SUFFICES ASSUME IInv, OfferReturns \/ ReceiveAcquired PROVE IInv'
  OBVIOUS
<1>1. CASE OfferReturns
  <2>1. PICK n \in 0 .. 2 : Received(n)
    BY Zenon, <1>1 DEF OfferReturns, LoanFailures
  <2> QED
    BY Zenon, <1>1, <2>1, ReceivedInv DEF OfferReturns, Goto, IInv, PcPhase
<1>2. CASE ReceiveAcquired
  BY <1>2, ReceivedInv DEF ReceiveAcquired, Turning
<1> QED
  BY Zenon, <1>1, <1>2


\* An awaited row is armed as an Offer again and a control event is requested.
LEMMA SelectAwaitInv == IInv /\ SelectAwait => IInv'
<1> SUFFICES ASSUME IInv, SelectAwait PROVE IInv'
  OBVIOUS
<1>1. d \in DriverType /\ d.phase \in Running /\ d.settlements \in Seq(Rows) /\ d.source_index = None
      /\ d.ingress = "None" /\ pc = "loop" /\ reply = "None"
  BY DEF IInv, TypeOK, SelectAwait, Turning, DriverType, OwnerPhase, PcPhase
<1>2. PICK i \in Progressing(d) : d' = [d EXCEPT !.settlements[i].turn = "Offer"]
  BY Zenon DEF SelectAwait
<1>3. i \in 1 .. Len(d.settlements) /\ Len(d.settlements) \in Nat
  BY <1>1 DEF Progressing
<1> DEFINE row == [d.settlements[i] EXCEPT !.turn = "Offer"]
           rows == [d.settlements EXCEPT ![i] = row]
<1>4. row \in Rows
  <2>1. d.settlements[i] \in Rows
    BY Zenon, <1>1, <1>3, ElementOfSeq
  <2> QED
    BY Zenon, <2>1 DEF Rows
<1>5. d' = [d EXCEPT !.settlements = rows]
  BY <1>2
<1> HIDE DEF row
<1>6. rows \in Seq(Rows)
  BY <1>1, <1>3, <1>4
<1> HIDE DEF rows
<1>7. d' \in DriverType /\ d'.phase = d.phase /\ d'.disposition = d.disposition
      /\ d'.active = d.active /\ d'.environment = d.environment /\ d'.ingress = d.ingress
      /\ d'.interpretation = d.interpretation /\ d'.retirement_input = d.retirement_input
      /\ d'.source_index = None
  BY Zenon, <1>1, <1>5, <1>6 DEF DriverType
<1>8. CustodyOK' /\ pc' = "nextSource" /\ reply' = reply /\ calls' = calls
  BY Zenon DEF IInv, TypeOK, CustodyOK, SelectAwait, custody, Goto
<1> QED
  BY Zenon, <1>1, <1>7, <1>8 DEF IInv, TypeOK, CustodyOK, PcPhase, DispositionPhase, CallsPhase, OwnerPhase,
     IndexInQueue, Running, Ended, Operations

\* Publication leaves the initialization phase, whatever it answers.
LEMMA PublishInv == IInv /\ Publish => IInv'
<1> SUFFICES ASSUME IInv, Publish PROVE IInv'
  OBVIOUS
<1>1. d \in DriverType /\ d.phase = "SettlingInitialization" /\ d.disposition = "None" /\ pc = "loop"
      /\ reply = "None" /\ d.retirement_input = NoInput /\ d.source_index = None
      /\ d.active /\ ~d.environment /\ d.ingress = "None"
  BY DEF IInv, TypeOK, DispositionPhase, Publish, Turning, OwnerPhase, PcPhase, Running, Ended
<1>2. CustodyOK' /\ pc' = "loop" /\ reply' = "None"
      /\ calls' \in [initialize : Nat, publish : Nat, retire : Nat]
      /\ calls'.initialize = 1 /\ calls'.publish = 1 /\ calls'.retire = 0
  BY <1>1 DEF IInv, TypeOK, CallsPhase, CustodyOK, Publish, custody
<1>f. "HostExecutionPanicked" \in Failures /\ "RetirementRequested" \in Completions
      /\ "None" \notin Failures /\ "None" \notin Completions
  BY DEF Failures, Completions
<1>3. /\ d' \in DriverType /\ d'.source_index = None /\ d'.active /\ ~d'.environment
      /\ d'.ingress = "None" /\ d'.retirement_input = NoInput
      /\ \/ d'.phase = "Active" /\ d'.disposition = "None"
         \/ d'.phase = "Retiring" /\ d'.disposition # "None"
  <2>1. CASE d' = [d EXCEPT !.phase = "Active"]
    BY Zenon, <1>1, <2>1 DEF DriverType, Phases
  <2>2. CASE d' = Complete(d, "RetirementRequested")
    BY <1>1, <1>f, <2>2, CompleteLemma DEF SameSlots
  <2>3. CASE d' = Reject(d, "HostExecutionPanicked")
    BY Zenon, <1>1, <1>f, <2>3, RejectLemma DEF SameSlots
  <2> QED
    BY Zenon, <2>1, <2>2, <2>3 DEF Publish
<1> QED
  BY <1>1, <1>2, <1>3 DEF IInv, TypeOK, CustodyOK, PcPhase, DispositionPhase, CallsPhase, OwnerPhase,
     IndexInQueue, Running, Ended, Operations

\* next and next_source returned.
LEMMA IngressReturnsInv == IInv /\ IngressReturns => IInv'
<1> SUFFICES ASSUME IInv, IngressReturns PROVE IInv'
  OBVIOUS
<1>1. d \in DriverType /\ d.phase \in Running /\ d.disposition = "None" /\ reply = "None"
      /\ d.retirement_input = NoInput /\ d.active /\ ~d.environment /\ d.ingress = "None"
  BY DEF IInv, TypeOK, DispositionPhase, IngressReturns, OwnerPhase, PcPhase, Running, Ended
<1>2. CustodyOK' /\ reply' = reply /\ calls' = calls /\ turn' = turn
      /\ pc' = IF d'.phase = "Retiring" THEN "loop" ELSE "fold"
  BY DEF IInv, TypeOK, CustodyOK, IngressReturns, custody, Goto
<1>f. {"HostExecutionPanicked", "SettlementSourceClosed", "InterpreterContractFailed"} \subseteq Failures
      /\ "None" \notin Failures
  BY DEF Failures
<1>3. PICK r \in {"None", "End", "Request", "Event"}, n \in 0 .. 2 :
         /\ d' = SourceIngress(d, r, n) \/ d' = OrdinaryIngress(d, r, n)
         /\ r = "Event" => turn < MaxTurns
  <2>1. PICK in \in Ingress :
           d' = IF pc = "nextSource" THEN SourceIngress(d, in[1], in[2]) ELSE OrdinaryIngress(d, in[1], in[2])
    BY DEF IngressReturns
  <2>2. in[1] \in {"None", "End", "Request", "Event"} /\ in[2] \in 0 .. 2
        /\ (in[1] = "Event" => turn < MaxTurns)
    BY DEF Ingress, ValueReplies
  <2> QED
    BY Zenon, <2>1, <2>2
<1> DEFINE i == [d EXCEPT !.ingress = r]
           Fine(t) == /\ t \in DriverType /\ t.source_index = d.source_index /\ t.settlements = d.settlements
                      /\ t.active /\ ~t.environment /\ t.retirement_input = NoInput
                      /\ t.interpretation = d.interpretation /\ t.ingress \in {"None", r}
                      /\ \/ t.phase = d.phase /\ t.disposition = "None"
                         \/ t.phase = "Retiring" /\ t.disposition # "None"
<1>4. Fine(i) /\ Fine(d)
  BY Zenon, <1>1 DEF DriverType
<1>7. ASSUME NEW t, Fine(t), NEW e \in Failures PROVE Fine(Reject(t, e))
  <2>1. t \in DriverType
    BY <1>7
  <2>2. Reject(t, e) \in DriverType /\ Reject(t, e).phase = "Retiring" /\ Reject(t, e).disposition # "None"
        /\ SameSlots(t, Reject(t, e))
    BY Zenon, <2>1, <1>f, RejectLemma
  <2> QED
    BY Zenon, <1>7, <2>2 DEF SameSlots
<1>5. ASSUME NEW t, Fine(t) PROVE Fine(ReceiveFailures(t, "HostExecutionPanicked", n))
  BY <1>5, <1>7, <1>f DEF ReceiveFailures
<1>6. ASSUME NEW t, Fine(t) PROVE Fine(ContractFailed(t))
  BY <1>6, <1>7, <1>f DEF ContractFailed
<1> HIDE DEF Fine
<1>8. Fine(d')
  <2>1. CASE d' = OrdinaryIngress(d, r, n)
    <3>1. d' = ReceiveFailures(i, "HostExecutionPanicked", n)
      BY <2>1 DEF OrdinaryIngress
    <3> HIDE DEF i
    <3> QED
      BY Zenon, <1>4, <1>5, <3>1
  <2>2. CASE d' = SourceIngress(d, r, n)
    <3> DEFINE q == IF r = "End" THEN Reject(d, "SettlementSourceClosed") ELSE i
               f == ReceiveFailures(q, "HostExecutionPanicked", n)
    <3>1. d' = IF f.ingress = "None" THEN ContractFailed(f) ELSE f
      BY <2>2 DEF SourceIngress
    <3> HIDE DEF i
    <3>2. Fine(q)
      BY Zenon, <1>4, <1>7, <1>f
    <3> HIDE DEF q
    <3>3. Fine(f)
      BY Zenon, <1>5, <3>2
    <3> HIDE DEF f
    <3> QED
      BY Zenon, <1>6, <3>1, <3>3
  <2> QED
    BY Zenon, <1>3, <2>1, <2>2
<1>9. IndexInQueue'
  BY Zenon, <1>1, <1>8 DEF Fine, IInv, IndexInQueue
<1> QED
  BY Zenon, <1>1, <1>2, <1>3, <1>8, <1>9 DEF Fine, IInv, TypeOK, CustodyOK, PcPhase, DispositionPhase, CallsPhase, OwnerPhase,
     Running, Ended, Operations


\* An acquired event is folded; any other ingress selects retirement.
LEMMA FoldInv == IInv /\ (Fold \/ NoEvent) => IInv'
<1> SUFFICES ASSUME IInv, Fold \/ NoEvent PROVE IInv'
  OBVIOUS
<1>1. d \in DriverType /\ d.phase \in Running /\ d.disposition = "None" /\ reply = "None" /\ pc = "fold"
      /\ d.retirement_input = NoInput /\ d.active /\ ~d.environment
      /\ (d.ingress = "Event" => turn < MaxTurns)
  BY DEF IInv, TypeOK, DispositionPhase, Fold, NoEvent, OwnerPhase, PcPhase, Running, Ended
<1>f. {"Behavior", "TransitionPanicked", "InterpreterContractFailed"} \subseteq Failures
      /\ {"Exhausted", "RetirementRequested"} \subseteq Completions
      /\ "None" \notin Failures /\ "None" \notin Completions
  BY DEF Failures, Completions
<1>t. turn \in Slot /\ (d.ingress = "Event" => turn + 1 \in Turns)
  BY <1>1, MaxTurnsAssumption DEF IInv, TypeOK, Slot, Turns, None
<1> DEFINE s == [d EXCEPT !.ingress = "None"]
<1>2. s \in DriverType /\ s.phase = d.phase /\ s.disposition = "None" /\ s.ingress = "None"
      /\ s.retirement_input = NoInput /\ s.active /\ ~s.environment /\ s.interpretation = d.interpretation
      /\ s.source_index = d.source_index /\ s.settlements = d.settlements
  BY Zenon, <1>1 DEF DriverType
<1>3. CASE \E step \in {"Continue", "Stop"} :
              d' = [s EXCEPT !.decision = step, !.actions = turn + 1] /\ Fold /\ pc' = "apply"
  <2> HIDE DEF s
  <2>1. turn + 1 \in Slot
    BY <1>3, <1>t DEF Fold, Slot
  <2>2. d' \in DriverType /\ d'.phase = d.phase /\ d'.disposition = "None" /\ d'.ingress = "None"
      /\ d'.retirement_input = NoInput /\ d'.active /\ ~d'.environment /\ d'.interpretation = d.interpretation
      /\ d'.source_index = d.source_index /\ d'.settlements = d.settlements
    BY ZenonT(60), <1>2, <1>3, <2>1 DEF DriverType
  <2>3. CustodyOK' /\ reply' = reply /\ calls' = calls
    BY <1>3, <1>t DEF IInv, TypeOK, CustodyOK, Fold, Slot
  <2> QED
    BY <1>1, <1>3, <2>2, <2>3 DEF IInv, TypeOK, CustodyOK, PcPhase, DispositionPhase, CallsPhase, OwnerPhase,
       IndexInQueue, Running, Ended, Operations
<1>4. CASE (\E e \in Failures : d' = Reject(s, e)) \/ (\E c \in Completions : d' = Complete(s, c))
  <2> HIDE DEF s
  <2>1. ASSUME NEW e \in Failures, d' = Reject(s, e)
        PROVE  d' \in DriverType /\ d'.phase = "Retiring" /\ d'.disposition # "None" /\ SameSlots(s, d')
    BY ZenonT(30), <1>2, <1>f, <2>1, RejectLemma
  <2>2. ASSUME NEW c \in Completions, d' = Complete(s, c)
        PROVE  d' \in DriverType /\ d'.phase = "Retiring" /\ d'.disposition # "None" /\ SameSlots(s, d')
    BY Zenon, <1>2, <1>f, <2>2, CompleteLemma
  <2>3. d' \in DriverType /\ d'.phase = "Retiring" /\ d'.disposition # "None" /\ SameSlots(s, d')
    BY Zenon, <1>4, <2>1, <2>2
  <2>4. "Event" # "None" /\ d.ingress \in {"None", "Event", "End", "Request"}
    BY Zenon, <1>1 DEF DriverType
  <2>5. IndexInQueue'
    BY ZenonT(60), <1>1, <1>2, <2>3 DEF IInv, IndexInQueue, SameSlots
  <2>6. pc' = "loop"
    <3>1. d'.phase # d.phase
      BY Zenon, <1>1, <2>3 DEF Running
    <3>2. ASSUME NEW step, d' = [s EXCEPT !.decision = step, !.actions = turn + 1] PROVE FALSE
      BY Zenon, <1>2, <3>1, <3>2 DEF DriverType
    <3> QED
      BY Zenon, <3>2 DEF Fold, NoEvent, Goto, s
  <2>7. CustodyOK'
    BY Zenon, <1>t DEF IInv, TypeOK, CustodyOK, Fold, NoEvent, custody, Slot
  <2>8. reply' = reply /\ calls' = calls
    BY DEF Fold, NoEvent
  <2> QED
    BY <1>1, <2>3, <2>5, <2>6, <2>7, <2>8, EndingStep DEF Running
<1>5. CASE Fold
  <2>1. (\E step \in {"Continue", "Stop"} :
           d' = [s EXCEPT !.decision = step, !.actions = turn + 1] /\ pc' = "apply")
        \/ (\E e \in {"Behavior", "TransitionPanicked"} : d' = Reject(s, e))
    BY <1>5 DEF Fold, Goto
  <2> HIDE DEF s
  <2> QED
    BY <1>3, <1>4, <1>5, <1>f, <2>1
<1>6. CASE NoEvent
  <2>1. d' \in {Complete(s, "Exhausted"), Complete(s, "RetirementRequested"),
                Reject(s, "InterpreterContractFailed")}
    BY <1>6 DEF NoEvent
  <2> HIDE DEF s
  <2> QED
    BY Zenon, <1>4, <1>f, <2>1
<1> QED
  BY <1>5, <1>6

\* apply returned or unwound.
LEMMA ApplyReturnsInv == IInv /\ ApplyReturns => IInv'
<1> SUFFICES ASSUME IInv, ApplyReturns PROVE IInv'
  OBVIOUS
<1>1. d \in DriverType /\ d.phase \in Running /\ d.disposition = "None" /\ reply = "None"
      /\ d.retirement_input = NoInput /\ d.active /\ ~d.environment /\ d.ingress = "None"
  BY DEF IInv, TypeOK, DispositionPhase, ApplyReturns, OwnerPhase, PcPhase, Running, Ended
<1>2. CustodyOK' /\ pc' = "loop" /\ reply' = reply /\ calls' = calls
  BY DEF IInv, TypeOK, CustodyOK, ApplyReturns, custody, Goto
<1>f. "HostExecutionPanicked" \in Failures /\ "None" \notin Failures
  BY DEF Failures
<1>3. PICK n \in 0 .. 2 : d' = Applied(d, n)
  BY DEF ApplyReturns, LoanFailures
<1> DEFINE f == ReceiveFailures(d, "HostExecutionPanicked", n)
<1>4. d' = ContractFailed(f) \/ d' = f
  BY Zenon, <1>3 DEF Applied
<1>5. f \in DriverType /\ SameSlots(d, f) /\ (n = 0 => f = d)
      /\ (n # 0 => f.phase = "Retiring" /\ f.disposition # "None")
  BY Zenon, <1>1, <1>f, ReceiveFailuresLemma
<1> HIDE DEF f
<1>6. d' = d \/ (d' \in DriverType /\ SameSlots(d, d') /\ d'.phase = "Retiring" /\ d'.disposition # "None")
  <2>1. CASE d' = f
    BY Zenon, <1>5, <2>1
  <2>2. CASE d' = ContractFailed(f)
    <3>1. d' \in DriverType /\ SameSlots(f, d') /\ d'.phase = "Retiring"
          /\ d'.disposition = IF f.phase = "Retiring" \/ f.disposition # "None"
                              THEN f.disposition ELSE "InterpreterContractFailed"
      BY Zenon, <1>5, <2>2, ContractFailedLemma
    <3>2. f.phase = "Retiring" => f.disposition # "None"
      BY Zenon, <1>1, <1>5 DEF Running
    <3> QED
      BY <1>5, <3>1, <3>2 DEF SameSlots
  <2> QED
    BY <1>4, <2>1, <2>2
<1>7. CASE d' = d
  BY Zenon, <1>1, <1>2, <1>7 DEF IInv, TypeOK, CustodyOK, PcPhase, DispositionPhase, CallsPhase, OwnerPhase,
     IndexInQueue, Running, Ended, Operations
<1>8. CASE d' \in DriverType /\ SameSlots(d, d') /\ d'.phase = "Retiring" /\ d'.disposition # "None"
  <2>1. IndexInQueue'
    BY Zenon, <1>8 DEF IInv, IndexInQueue, SameSlots
  <2> QED
    BY <1>1, <1>2, <1>8, <2>1, EndingStep DEF Running
<1> QED
  BY Zenon, <1>6, <1>7, <1>8


\* Turning the settlement queue into the retirement input keeps the Driver well formed.
LEMMA CollectedLemma ==
    ASSUME d \in DriverType, IndexInQueue, ~(d.source_input # None /\ d.source_received # NoCustody)
    PROVE  LET t == Collected(d) IN
           /\ t \in DriverType /\ t.phase = d.phase /\ t.disposition = d.disposition
           /\ t.active = d.active /\ t.environment = d.environment /\ t.residual = d.residual
           /\ t.retirement_input = NoInput =>
                  t.settlements = d.settlements /\ t.source_index = d.source_index
                    /\ d.retirement_input = NoInput
<1>1. CASE d.retirement_input # NoInput \/ ~d.active
  BY <1>1 DEF Collected
<1>2. CASE d.retirement_input = NoInput /\ d.active
  <2> DEFINE back == [turn |-> "Retained", of |-> d.source_input]
             rows == IF d.source_input # None /\ d.source_index # None
                     THEN InsertAt(d.settlements, d.source_index, back) ELSE d.settlements
             q == IF d.source_input # None /\ d.source_index # None
                  THEN [d EXCEPT !.source_input = None, !.source_index = None, !.settlements = rows]
                  ELSE d
             list == [i \in 1 .. Len(rows) |-> rows[i].of]
  <2>1. rows \in Seq(Rows)
    <3>1. d.settlements \in Seq(Rows) /\ d.source_input \in Slot
      BY DEF DriverType
    <3>2. CASE d.source_input # None /\ d.source_index # None
      <4>1. back \in Rows
        BY Zenon, <3>1, <3>2 DEF Rows, Slot
      <4> HIDE DEF back
      <4>2. d.source_index \in 1 .. (Len(d.settlements) + 1)
        BY Zenon, <1>2, <3>2 DEF IndexInQueue
      <4> QED
        BY <3>1, <3>2, <4>1, <4>2, InsertAtType
    <3> QED
      BY Zenon, <3>1, <3>2
  <2>2. q.settlements = rows
    BY DEF DriverType
  <2>3. Collected(d) = [q EXCEPT !.settlements = <<>>, !.retirement_input = list]
    BY <1>2, <2>2 DEF Collected
  <2> HIDE DEF rows
  <2>4. q \in DriverType /\ q.phase = d.phase /\ q.disposition = d.disposition
        /\ q.active = d.active /\ q.environment = d.environment /\ q.residual = d.residual
    <3>1. None \in Slot /\ None \in Int
      BY DEF Slot, None
    <3> QED
      BY ZenonT(30), <2>1, <3>1 DEF DriverType
  <2>5. list \in Seq(Slot) /\ list # NoInput
    <3>1. Len(rows) \in Nat /\ \A i \in 1 .. Len(rows) : rows[i].of \in Turns
      <4>1. \A i \in 1 .. Len(rows) : rows[i] \in Rows
        BY Zenon, <2>1, ElementOfSeq
      <4> QED
        BY <2>1, <4>1 DEF Rows
    <3>2. None \notin Turns /\ Turns \subseteq Slot
      BY DEF Turns, None, Slot
    <3>3. list \in Seq(Slot)
      BY <3>1, <3>2
    <3>4. ASSUME list = NoInput PROVE FALSE
      <4>1. Len(rows) = 1 /\ list[1] = None
        BY <3>1, <3>4 DEF NoInput
      <4> QED
        BY <3>1, <3>2, <4>1
    <3> QED
      BY Zenon, <3>3, <3>4
  <2> HIDE DEF q, list
  <2>6. <<>> \in Seq(Rows)
    OBVIOUS
  <2> QED
    BY ZenonT(60), ZenonT(30), <2>3, <2>4, <2>5, <2>6 DEF DriverType
<1> QED
  BY Zenon, <1>1, <1>2

\* ExecutionPhase::Retiring: the barrier is attempted, or the owner returns intact.
LEMMA RetireInv == IInv /\ Retire => IInv'
<1> SUFFICES ASSUME IInv, Retire PROVE IInv'
  OBVIOUS
<1>1. d \in DriverType /\ d.phase = "Retiring" /\ d.disposition # "None" /\ reply = "None" /\ IndexInQueue
      /\ calls \in [initialize : Nat, publish : Nat, retire : Nat]
      /\ calls.retire = 0 /\ calls.initialize = 1 /\ calls.publish <= 1
  BY DEF IInv, TypeOK, DispositionPhase, PcPhase, CallsPhase, Retire, Ended
<1>2. CustodyOK' /\ reply' = reply
  BY Zenon DEF IInv, TypeOK, CustodyOK, Retire, custody
<1>3. CASE d' = d /\ calls' = calls /\ pc' = "return"
  BY Zenon, <1>1, <1>2, <1>3, MoveStep DEF IInv, PcPhase, Running, Ended
<1>4. CASE ~(d.source_input # None /\ d.source_received # NoCustody)
  <2> DEFINE s == Collected(d)
  <2>1. s \in DriverType /\ s.phase = "Retiring" /\ s.disposition # "None"
        /\ (s.retirement_input = NoInput => s.settlements = d.settlements /\ s.source_index = d.source_index
                                              /\ d.retirement_input = NoInput)
    BY Zenon, <1>1, <1>4, CollectedLemma
  <2>2. \/ d' = s /\ pc' = "return" /\ calls' = calls
        \/ /\ d' = [s EXCEPT !.phase = "RetirementAttempted"]
           /\ calls' = [calls EXCEPT !.retire = @ + 1]
           /\ pc' \in {"retireActive", "retirePrepared"}
    BY Zenon, <1>4 DEF Retire, Goto
  <2> HIDE DEF s
  <2>3. CASE d' = s /\ pc' = "return" /\ calls' = calls
    BY <1>1, <1>2, <2>1, <2>3 DEF IInv, TypeOK, CustodyOK, PcPhase, DispositionPhase, CallsPhase, OwnerPhase,
       IndexInQueue, Running, Ended, Operations
  <2>4. CASE /\ d' = [s EXCEPT !.phase = "RetirementAttempted"]
             /\ calls' = [calls EXCEPT !.retire = @ + 1]
             /\ pc' \in {"retireActive", "retirePrepared"}
    <3>1. d' \in DriverType /\ d'.phase = "RetirementAttempted" /\ d'.disposition # "None"
          /\ (d'.retirement_input = NoInput => d'.settlements = d.settlements /\ d'.source_index = d.source_index
                                                 /\ d.retirement_input = NoInput)
      BY Zenon, <2>1, <2>4 DEF DriverType, Phases
    <3>2. calls' \in [initialize : Nat, publish : Nat, retire : Nat] /\ calls'.retire = 1
          /\ calls'.initialize = 1 /\ calls'.publish <= 1
      BY <1>1, <2>4
    <3> QED
      BY <1>1, <1>2, <2>4, <3>1, <3>2 DEF IInv, TypeOK, CustodyOK, PcPhase, DispositionPhase, CallsPhase,
         OwnerPhase, IndexInQueue, Running, Ended, Operations
  <2> QED
    BY Zenon, <2>2, <2>3, <2>4
<1> QED
  BY Zenon, <1>3, <1>4 DEF Retire, Goto


\* The host's moves inside a retirement barrier.
LEMMA HostRetireInv == IInv /\ (HostTakesPrepared \/ HostTakesActive \/ HostRepliesResidual) => IInv'
<1> SUFFICES ASSUME IInv, HostTakesPrepared \/ HostTakesActive \/ HostRepliesResidual PROVE IInv'
  OBVIOUS
<1>1. d \in DriverType /\ d.phase = "RetirementAttempted" /\ host \subseteq Turns
      /\ pc \in {"retirePrepared", "retireActive"}
  BY DEF IInv, TypeOK, PcPhase, HostTakesPrepared, HostTakesActive, HostRepliesResidual
<1>2. pc' = pc /\ reply' = reply /\ calls' = calls /\ turn' = turn /\ spent' = spent /\ lost' = lost
      /\ hostEnv' \in BOOLEAN
  BY Zenon DEF HostTakesPrepared, HostTakesActive, HostRepliesResidual
<1>s. None \in Slot /\ None \in Int /\ NoCustody \in Receipts /\ NoInput \in Seq(Slot)
      /\ (\A t \in Slot : t # None => t \in Turns)
  BY DEF None, Slot, NoCustody, Receipts, NoInput
<1>3. CASE HostTakesPrepared
  <2>1. d' \in DriverType /\ d'.phase = d.phase /\ d'.disposition = d.disposition
        /\ d'.source_index = d.source_index /\ d'.settlements = d.settlements
        /\ d'.retirement_input = d.retirement_input
    BY Zenon, <1>1, <1>3, <1>s DEF HostTakesPrepared, DriverType
  <2>2. host' \subseteq Turns
    <3>1. d.actions \in Slot
      BY Zenon, <1>1 DEF DriverType
    <3> QED
      BY Zenon, <1>1, <1>3, <1>s, <3>1 DEF HostTakesPrepared
  <2>3. CustodyOK' /\ IndexInQueue' /\ OwnerPhase'
    BY Zenon, <1>1, <1>2, <2>1, <2>2 DEF IInv, TypeOK, CustodyOK, IndexInQueue, OwnerPhase, Running, Ended
  <2> QED
    BY Zenon, <1>1, <1>2, <2>1, <2>3, QuietStep
<1>4. CASE HostTakesActive
  <2> DEFINE emptied == [d EXCEPT !.active = FALSE, !.actions = None, !.interpretation = None,
                            !.source_received = NoCustody, !.source_index = None,
                            !.ingress = "None", !.retirement_input = NoInput]
             taken == ({d.actions, d.interpretation, d.source_received.of}
                                    \cup Range(d.retirement_input)) \ {None}
  <2>1. \/ d' = emptied /\ host' = host \cup taken
        \/ d' = [d EXCEPT !.active = FALSE] /\ host' = host
    BY <1>4 DEF HostTakesActive
  <2>2. emptied \in DriverType /\ emptied.phase = d.phase /\ emptied.disposition = d.disposition
        /\ emptied.source_index = None
    BY Zenon, <1>1, <1>s DEF DriverType
  <2>3. taken \subseteq Turns
    <3>1. d.actions \in Slot /\ d.interpretation \in Slot /\ d.source_received \in Receipts
          /\ d.retirement_input \in Seq(Slot)
      BY Zenon, <1>1 DEF DriverType
    <3>2. d.source_received.of \in Slot
      BY <3>1 DEF Receipts, NoCustody, Slot
    <3>3. Range(d.retirement_input) \subseteq Slot
      BY <3>1 DEF Range
    <3> QED
      BY Zenon, <1>s, <3>1, <3>2, <3>3
  <2> HIDE DEF emptied, taken
  <2>4. CASE d' = emptied /\ host' = host \cup taken
    <3>1. CustodyOK' /\ IndexInQueue' /\ OwnerPhase'
      BY Zenon, <1>1, <1>2, <2>2, <2>3, <2>4 DEF IInv, TypeOK, CustodyOK, IndexInQueue, OwnerPhase, Running, Ended
    <3> QED
      BY Zenon, <1>1, <1>2, <2>2, <2>4, <3>1, QuietStep
  <2>5. CASE d' = [d EXCEPT !.active = FALSE] /\ host' = host
    <3>1. d' \in DriverType /\ d'.phase = d.phase /\ d'.disposition = d.disposition
          /\ d'.source_index = d.source_index /\ d'.settlements = d.settlements
          /\ d'.retirement_input = d.retirement_input
      BY ZenonT(30), <1>1, <2>5 DEF DriverType
    <3>2. CustodyOK' /\ IndexInQueue' /\ OwnerPhase'
      BY <1>1, <1>2, <2>5, <3>1 DEF IInv, TypeOK, CustodyOK, IndexInQueue, OwnerPhase, Running, Ended
    <3> QED
      BY <1>1, <1>2, <3>1, <3>2, QuietStep
  <2> QED
    BY Zenon, <2>1, <2>4, <2>5
<1>5. CASE HostRepliesResidual
  <2>1. [acquired |-> TRUE, of |-> host] \in Residuals
    BY <1>1 DEF Residuals
  <2>2. d' \in DriverType /\ d'.phase = d.phase /\ d'.disposition = d.disposition
        /\ d'.source_index = d.source_index /\ d'.settlements = d.settlements
        /\ d'.retirement_input = d.retirement_input
    BY ZenonT(30), <1>1, <1>5, <2>1 DEF HostRepliesResidual, DriverType
  <2>3. CustodyOK' /\ IndexInQueue' /\ OwnerPhase'
    BY Zenon, <1>1, <1>2, <1>5, <2>2 DEF HostRepliesResidual, IInv, TypeOK, CustodyOK, IndexInQueue, OwnerPhase,
       Running, Ended
  <2> QED
    BY <1>1, <1>2, <2>2, <2>3, QuietStep
<1> QED
  BY Zenon, <1>3, <1>4, <1>5

\* A retirement barrier returned or unwound.
LEMMA RetireReturnsInv == IInv /\ RetireReturns => IInv'
<1> SUFFICES ASSUME IInv, RetireReturns PROVE IInv'
  OBVIOUS
<1>1. d \in DriverType /\ d.phase = "RetirementAttempted" /\ reply = "None"
      /\ pc \in {"retirePrepared", "retireActive"} /\ d.additional_failures \in Seq(Failures)
  BY DEF IInv, TypeOK, PcPhase, RetireReturns, DriverType
<1>2. CustodyOK' /\ pc' = "return" /\ reply' = reply /\ calls' = calls
  BY Zenon DEF IInv, TypeOK, CustodyOK, RetireReturns, Goto
<1>3. PICK n \in 0 .. 2 :
         d' = [d EXCEPT !.additional_failures = @ \o [i \in 1 .. n |-> "RetirementPanicked"]]
  BY ZenonT(30) DEF RetireReturns, LoanFailures
<1> DEFINE more == [i \in 1 .. n |-> "RetirementPanicked"]
           all == d.additional_failures \o more
<1>4. all \in Seq(Failures)
  <2>1. more \in Seq(Failures)
    BY DEF Failures
  <2> HIDE DEF more
  <2> QED
    BY Zenon, <1>1, <2>1, ConcatProperties
<1>5. d' = [d EXCEPT !.additional_failures = all]
  BY <1>3
<1> HIDE DEF all
<1>6. d' \in DriverType /\ d'.phase = d.phase /\ d'.disposition = d.disposition
      /\ d'.source_index = d.source_index /\ d'.settlements = d.settlements
      /\ d'.retirement_input = d.retirement_input
  BY Zenon, <1>1, <1>4, <1>5 DEF DriverType
<1> QED
  BY Zenon, <1>1, <1>2, <1>6 DEF IInv, TypeOK, CustodyOK, PcPhase, DispositionPhase, CallsPhase, OwnerPhase,
     IndexInQueue, Running, Ended, Operations


\* Every step preserves the invariant.
LEMMA NextInv == IInv /\ [Next]_vars => IInv'
<1> SUFFICES ASSUME IInv, [Next]_vars PROVE IInv'
  BY Zenon
<1>1. CASE UNCHANGED vars
  <2>1. d' = d /\ pc' = pc /\ reply' = reply /\ turn' = turn /\ host' = host /\ hostEnv' = hostEnv
        /\ spent' = spent /\ lost' = lost /\ calls' = calls
    BY Zenon, <1>1 DEF vars
  <2> QED
    BY <2>1 DEF IInv, TypeOK, PcPhase, DispositionPhase, CallsPhase, OwnerPhase, IndexInQueue
<1>2. CASE Next
  BY Zenon, <1>2, CallerInv, InitializeInv, HostActivateInv, ActivateReturnsInv, ClassifyInv, SelectOfferInv,
     HostSlotsInv, SourceInv, SelectAwaitInv, PublishInv, IngressReturnsInv, FoldInv, ApplyReturnsInv,
     RetireInv, HostRetireInv, RetireReturnsInv
     DEF Next, Drive, HostReplies, HostReturns
<1> QED
  BY Zenon, <1>1, <1>2

\* The invariant holds in every reachable state.
LEMMA Inductive == Spec => []IInv
  BY InitInv, NextInv, PTL DEF Spec

-----------------------------------------------------------------------------
(* Theorems *)

\* Every slot of the Driver holds a value of its type, for every bound, every set of
\* cancellation points and every host.
THEOREM TypeCorrect == Spec => []TypeOK
<1>1. IInv => TypeOK
  BY Zenon DEF IInv
<1> QED
  BY <1>1, Inductive, PTL

\* D-INIT-1, D-RETIRE-1: no interleaving of loans, cancellations and repeated receptions
\* initializes, publishes or retires a second time, and next is called only on a
\* published environment.
THEOREM BarrierOnce == Spec => []BarriersOnce
<1>1. IInv => BarriersOnce
  BY DEF IInv, CallsPhase, PcPhase, DispositionPhase, BarriersOnce, Ended, Running
<1> QED
  BY <1>1, Inductive, PTL

\* A running phase of drive always has its active environment and no unread ingress.
THEOREM RunningOwner == Spec => []RunningOwnsActive
<1>1. IInv => RunningOwnsActive
  BY DEF IInv, OwnerPhase, RunningOwnsActive
<1> QED
  BY <1>1, Inductive, PTL

\* A step taken after a terminal edge was selected starts no new work.
LEMMA TerminalStep ==
    ASSUME IInv, [Next]_vars, d.disposition # "None"
    PROVE  /\ d'.disposition = d.disposition
           /\ turn' = turn
           /\ pc' # pc => pc' \notin {"activate", "offer", "nextSource", "next", "fold", "apply"}
<1>1. d \in DriverType /\ d.phase \in Ended /\ d.phase \notin Running
      /\ d.phase \notin {"Prepared", "Activating"}
      /\ pc \notin {"activate", "offer", "nextSource", "next", "fold", "apply"}
  BY DEF IInv, TypeOK, PcPhase, DispositionPhase, Ended, Running
<1>2. CASE UNCHANGED vars
  BY Zenon, <1>2 DEF vars
<1>3. CASE Loan \/ Cancel \/ ReceiveAgain \/ Finished \/ Deliver \/ AlreadyAttempted
  BY Zenon, <1>3 DEF Loan, Cancel, ReceiveAgain, Finished, Deliver, AlreadyAttempted, Goto, vars
<1>4. CASE Retire
  <2>1. turn' = turn /\ pc' \in {"return", "retireActive", "retirePrepared"}
    BY <1>4 DEF Retire, Goto
  <2>2. d'.disposition = d.disposition
    <3>1. CASE d' = d
      BY <3>1
    <3>2. CASE ~(d.source_input # None /\ d.source_received # NoCustody)
      <4> DEFINE s == Collected(d)
      <4>1. s \in DriverType /\ s.disposition = d.disposition
        BY Zenon, <1>1, <3>2, CollectedLemma DEF IInv
      <4>2. d' = s \/ d' = [s EXCEPT !.phase = "RetirementAttempted"]
        BY Zenon, <1>4, <3>2 DEF Retire
      <4> HIDE DEF s
      <4> QED
        BY Zenon, <4>1, <4>2 DEF DriverType
    <3> QED
      BY Zenon, <1>4, <3>1, <3>2 DEF Retire
  <2> QED
    BY Zenon, <2>1, <2>2
<1>5. CASE HostTakesPrepared \/ HostTakesActive \/ HostRepliesResidual \/ RetireReturns
  BY ZenonT(60), <1>1, <1>5 DEF HostTakesPrepared, HostTakesActive, HostRepliesResidual, RetireReturns, Goto, DriverType
<1>6. CASE Initialize \/ CallActivate \/ Classify \/ SelectOffer \/ CallOffer \/ ReceiveAcquired
           \/ SelectAwait \/ Publish \/ CallNext \/ Fold \/ NoEvent
           \/ HostTakesEnvironment \/ HostRepliesActivation \/ HostTakesSource \/ HostRepliesSource
           \/ HostTakesActions \/ HostRepliesInterpretation
           \/ ActivateReturns \/ OfferReturns \/ IngressReturns \/ ApplyReturns
  BY Zenon, <1>1, <1>6 DEF Initialize, CallActivate, Classify, SelectOffer, CallOffer, ReceiveAcquired, SelectAwait,
     Publish, CallNext, Fold, NoEvent, HostTakesEnvironment, HostRepliesActivation, HostTakesSource,
     HostRepliesSource, HostTakesActions, HostRepliesInterpretation, ActivateReturns, OfferReturns,
     IngressReturns, ApplyReturns, Turning
<1> QED
  BY Zenon, <1>2, <1>3, <1>4, <1>5, <1>6 DEF Next, Drive, HostReplies, HostReturns

\* D-TERM-1: a selected terminal edge is final, and neither a later poll nor a fresh loan
\* requests, folds, applies or offers anything.
THEOREM TerminalFused == Spec => FusedTerminal
<1>1. IInv /\ [Next]_vars =>
        [d.disposition # "None" =>
         /\ d'.disposition = d.disposition
         /\ turn' = turn
         /\ pc' # pc => pc' \notin {"activate", "offer", "nextSource", "next", "fold", "apply"}]_vars
  BY TerminalStep
<1> QED
  BY <1>1, Inductive, PTL DEF Spec, FusedTerminal

-----------------------------------------------------------------------------
(***************************************************************************)
(* What each step does to the slots, as facts about the fields of d and    *)
(* d'.  DriverCustodyProofs and DriverOrderProofs rest on them.            *)
(***************************************************************************)

-----------------------------------------------------------------------------
(* Sequences *)

\* What InsertAt and RemoveAt hold at each position.
LEMMA InsertAtElements ==
    ASSUME NEW S, NEW q \in Seq(S), NEW i \in 1 .. (Len(q) + 1), NEW x \in S
    PROVE  /\ InsertAt(q, i, x) \in Seq(S) /\ Len(InsertAt(q, i, x)) = Len(q) + 1
           /\ \A j \in 1 .. (Len(q) + 1) :
                 InsertAt(q, i, x)[j] = IF j < i THEN q[j] ELSE IF j = i THEN x ELSE q[j - 1]
<1> DEFINE a == SubSeq(q, 1, i - 1)
           b == SubSeq(q, i, Len(q))
           c == a \o <<x>>
<1>1. a \in Seq(S) /\ Len(a) = i - 1 /\ \A j \in 1 .. (i - 1) : a[j] = q[j]
  OBVIOUS
<1>2. b \in Seq(S) /\ Len(b) = Len(q) - i + 1 /\ \A j \in 1 .. (Len(q) - i + 1) : b[j] = q[i + j - 1]
  OBVIOUS
<1> HIDE DEF a, b
<1>3. c \in Seq(S) /\ Len(c) = i /\ \A j \in 1 .. i : c[j] = IF j < i THEN q[j] ELSE x
  BY <1>1
<1>4. InsertAt(q, i, x) = c \o b
  BY DEF InsertAt, a, b
<1> HIDE DEF c
<1> DEFINE e == c \o b
<1>5. e \in Seq(S) /\ Len(e) = Len(q) + 1
  <2>1. e \in Seq(S) /\ Len(e) = Len(c) + Len(b)
    BY Zenon, <1>2, <1>3, ConcatProperties
  <2> HIDE DEF e
  <2> QED
    BY <1>2, <1>3, <2>1
<1>6. \A j \in 1 .. (Len(q) + 1) : e[j] = IF j <= i THEN c[j] ELSE b[j - i]
  <2>1. Len(c) + Len(b) = Len(q) + 1
    BY <1>2, <1>3
  <2>2. \A j \in 1 .. Len(c) + Len(b) : (c \o b)[j] = IF j <= Len(c) THEN c[j] ELSE b[j - Len(c)]
    BY Zenon, <1>2, <1>3, ConcatProperties
  <2> QED
    BY Zenon, <1>3, <2>1, <2>2
<1> HIDE DEF e
<1>7. ASSUME NEW j \in 1 .. (Len(q) + 1)
      PROVE  e[j] = IF j < i THEN q[j] ELSE IF j = i THEN x ELSE q[j - 1]
  <2>0. Len(q) \in Nat /\ i \in Int /\ j \in Int /\ j >= 1 /\ j <= Len(q) + 1
    OBVIOUS
  <2>1. CASE j <= i
    BY <1>3, <1>6, <2>1
  <2>2. CASE j > i
    <3> DEFINE k == j - i
    <3>1. k \in 1 .. (Len(q) - i + 1) /\ i + k - 1 = j - 1
      BY <2>0, <2>2
    <3>2. e[j] = b[k]
      BY <1>6, <2>0, <2>2
    <3> HIDE DEF k
    <3>3. b[k] = q[j - 1]
      BY <1>2, <3>1
    <3> QED
      BY <2>0, <2>2, <3>2, <3>3
  <2> QED
    BY <2>0, <2>1, <2>2
<1> QED
  BY Zenon, <1>4, <1>5, <1>7 DEF e

\* e is the queue q with a row inserted at position i.
RowAt(e, q, i, row) ==
    /\ e \in Seq(Rows) /\ Len(e) = Len(q) + 1
    /\ \A j \in 1 .. (Len(q) + 1) : e[j] = IF j < i THEN q[j] ELSE IF j = i THEN row ELSE q[j - 1]

\* A row put back among the settlements.
LEMMA RowInserted ==
    ASSUME NEW q \in Seq(Rows), NEW i \in 1 .. (Len(q) + 1), NEW row \in Rows
    PROVE  RowAt(InsertAt(q, i, row), q, i, row)
<1>1. PICK S : S = Rows
  BY Zenon
<1>2. q \in Seq(S) /\ row \in S
  BY Zenon, <1>1
<1>3. /\ InsertAt(q, i, row) \in Seq(S) /\ Len(InsertAt(q, i, row)) = Len(q) + 1
      /\ \A j \in 1 .. (Len(q) + 1) :
            InsertAt(q, i, row)[j] = IF j < i THEN q[j] ELSE IF j = i THEN row ELSE q[j - 1]
  BY ONLY i \in 1 .. (Len(q) + 1), <1>2, InsertAtElements
<1> QED
  BY Zenon, <1>1, <1>3 DEF RowAt

\* What RemoveAt holds at each position.
LEMMA RemoveAtElements ==
    ASSUME NEW S, NEW q \in Seq(S), NEW i \in 1 .. Len(q)
    PROVE  /\ RemoveAt(q, i) \in Seq(S) /\ Len(RemoveAt(q, i)) = Len(q) - 1
           /\ \A j \in 1 .. (Len(q) - 1) : RemoveAt(q, i)[j] = IF j < i THEN q[j] ELSE q[j + 1]
<1> DEFINE a == SubSeq(q, 1, i - 1)
           b == SubSeq(q, i + 1, Len(q))
<1>1. a \in Seq(S) /\ Len(a) = i - 1 /\ \A j \in 1 .. (i - 1) : a[j] = q[j]
  OBVIOUS
<1>2. b \in Seq(S) /\ Len(b) = Len(q) - i /\ \A j \in 1 .. (Len(q) - i) : b[j] = q[i + j]
  OBVIOUS
<1> HIDE DEF a, b
<1>3. RemoveAt(q, i) = a \o b
  BY DEF RemoveAt, a, b
<1> DEFINE e == a \o b
<1>4. e \in Seq(S) /\ Len(e) = Len(q) - 1
  <2>1. e \in Seq(S) /\ Len(e) = Len(a) + Len(b)
    BY Zenon, <1>1, <1>2, ConcatProperties
  <2> HIDE DEF e
  <2> QED
    BY <1>1, <1>2, <2>1
<1>5. \A j \in 1 .. (Len(q) - 1) : e[j] = IF j <= i - 1 THEN a[j] ELSE b[j - (i - 1)]
  <2>1. Len(a) + Len(b) = Len(q) - 1
    BY <1>1, <1>2
  <2>2. \A j \in 1 .. Len(a) + Len(b) : (a \o b)[j] = IF j <= Len(a) THEN a[j] ELSE b[j - Len(a)]
    BY Zenon, <1>1, <1>2, ConcatProperties
  <2> QED
    BY Zenon, <1>1, <2>1, <2>2
<1> HIDE DEF e
<1>6. ASSUME NEW j \in 1 .. (Len(q) - 1)
      PROVE  e[j] = IF j < i THEN q[j] ELSE q[j + 1]
  <2>0. Len(q) \in Nat /\ i \in Int /\ j \in Int /\ j >= 1 /\ j <= Len(q) - 1
    OBVIOUS
  <2>1. CASE j < i
    BY <1>1, <1>5, <2>1
  <2>2. CASE j >= i
    <3> DEFINE k == j - (i - 1)
    <3>1. k \in 1 .. (Len(q) - i) /\ i + k = j + 1
      BY <2>0, <2>2
    <3>2. e[j] = b[k]
      BY <1>5, <2>0, <2>2
    <3> HIDE DEF k
    <3>3. b[k] = q[j + 1]
      BY <1>2, <3>1
    <3> QED
      BY <2>0, <2>2, <3>2, <3>3
  <2> QED
    BY <2>0, <2>1, <2>2
<1> QED
  BY Zenon, <1>3, <1>4, <1>6 DEF e

-----------------------------------------------------------------------------
(* What each step does to the slots *)

\* t is s after a failure or a completion selected retirement.
Stopping(s, t) == SameSlots(s, t) /\ t.phase = "Retiring" /\ t.disposition # "None"

\* t goes on as s did, or a failure or a completion selected retirement.
GoesOn(s, t) == \/ t.phase = s.phase /\ t.disposition = s.disposition
                \/ t.phase = "Retiring" /\ t.disposition # "None"

\* Driver::reject moves no slot and selects retirement.
LEMMA StoppingReject ==
    ASSUME NEW s \in DriverType, NEW e \in Failures
    PROVE  Stopping(s, Reject(s, e)) /\ Reject(s, e) \in DriverType
<1>1. "None" \notin Failures
  BY DEF Failures
<1> QED
  BY Zenon, <1>1, RejectLemma DEF Stopping

\* Driver::complete likewise.
LEMMA StoppingComplete ==
    ASSUME NEW s \in DriverType, NEW c \in Completions
    PROVE  Stopping(s, Complete(s, c)) /\ Complete(s, c) \in DriverType
<1>1. "None" \notin Completions
  BY DEF Completions
<1> QED
  BY ZenonT(60), <1>1, CompleteLemma DEF Stopping

\* Keeping the slots twice keeps them.
LEMMA SameSlotsTrans ==
    ASSUME NEW s, NEW t, NEW u, SameSlots(s, t), SameSlots(t, u)
    PROVE  SameSlots(s, u)
BY Zenon DEF SameSlots

\* A missing or malformed reply ends in retirement and moves nothing.
LEMMA ContractStops ==
    ASSUME NEW s \in DriverType, s.phase \notin Ended, s.disposition = "None",
           NEW e \in Failures, NEW n \in 0 .. 2
    PROVE  Stopping(s, ContractFailed(ReceiveFailures(s, e, n)))
<1> DEFINE r == ReceiveFailures(s, e, n)
<1>0. "None" \notin Failures
  BY DEF Failures
<1>1. r \in DriverType /\ SameSlots(s, r) /\ (r.phase = "Retiring" => r.disposition # "None")
  BY Zenon, <1>0, ReceiveFailuresLemma DEF Ended
<1> HIDE DEF r
<1>2. SameSlots(r, ContractFailed(r)) /\ ContractFailed(r).phase = "Retiring"
      /\ ContractFailed(r).disposition # "None"
  BY Zenon, <1>1, ContractFailedLemma
<1> QED
  BY Zenon, <1>1, <1>2, SameSlotsTrans DEF Stopping, r

\* Caught payloads of an operation that replied: none, or retirement.
LEMMA FailuresGoOn ==
    ASSUME NEW s \in DriverType, NEW e \in Failures, NEW n \in 0 .. 2
    PROVE  /\ ReceiveFailures(s, e, n) \in DriverType
           /\ SameSlots(s, ReceiveFailures(s, e, n))
           /\ GoesOn(s, ReceiveFailures(s, e, n))
<1>0. "None" \notin Failures
  BY DEF Failures
<1> QED
  BY Zenon, <1>0, ReceiveFailuresLemma DEF GoesOn

\* behavior::initialize leaves its actions, or a failure and nothing.
LEMMA InitializeEffect ==
    ASSUME IInv, Initialize
    PROVE  \/ /\ d'.phase = "Activating" /\ d'.disposition = "None" /\ d'.decision # "None" /\ d'.actions = 0
              /\ d'.environment = d.environment /\ d'.activation = d.activation
              /\ d'.interpretation = d.interpretation /\ d'.source_input = d.source_input
              /\ d'.source_received = d.source_received /\ d'.source_index = d.source_index
              /\ d'.settlements = d.settlements /\ d'.retirement_input = d.retirement_input
              /\ d'.residual = d.residual /\ spent' = spent
           \/ Stopping(d, d') /\ spent' = spent \cup {0}
<1> DEFINE s == [d EXCEPT !.phase = "Activating"]
<1>1. d \in DriverType /\ d.phase = "Prepared" /\ d.disposition = "None"
  BY DEF IInv, TypeOK, DispositionPhase, Initialize, Ended
<1>2. s \in DriverType /\ s.phase = "Activating" /\ SameSlots(d, s) /\ s.disposition = "None"
  BY Zenon, <1>1 DEF DriverType, Phases, SameSlots
<1>3. (\E step \in {"Continue", "Stop"} : d' = [s EXCEPT !.decision = step, !.actions = 0] /\ spent' = spent)
      \/ (\E error \in {"Behavior", "InitializationPanicked"} : d' = Reject(s, error) /\ spent' = spent \cup {0})
  BY Zenon DEF Initialize
<1> HIDE DEF s
<1>4. CASE \E step \in {"Continue", "Stop"} : d' = [s EXCEPT !.decision = step, !.actions = 0] /\ spent' = spent
  BY ZenonT(60), ZenonT(30), <1>2, <1>4 DEF DriverType, SameSlots
<1>5. CASE \E error \in {"Behavior", "InitializationPanicked"} : d' = Reject(s, error) /\ spent' = spent \cup {0}
  <2>1. PICK e \in Failures : d' = Reject(s, e) /\ spent' = spent \cup {0}
    BY Zenon, <1>5 DEF Failures
  <2>2. Stopping(s, d')
    BY Zenon, <1>2, <2>1, StoppingReject
  <2> QED
    BY Zenon, <1>2, <2>1, <2>2, SameSlotsTrans DEF Stopping
<1> QED
  BY Zenon, <1>3, <1>4, <1>5

\* A returned activation: a contract failure, an active environment with the first
\* interpretation, or a rejection with its residual.
LEMMA ActivateEffect ==
    ASSUME IInv, ActivateReturns
    PROVE  \/ Stopping(d, d')
           \/ /\ ~d.environment /\ d.actions = None /\ d.activation = "Ok"
              /\ d'.environment = d.environment /\ d'.actions = None /\ d'.activation = "None"
              /\ d'.interpretation = 0 /\ d'.decision = d.decision
              /\ d'.source_input = d.source_input /\ d'.source_received = d.source_received
              /\ d'.source_index = d.source_index /\ d'.settlements = d.settlements
              /\ d'.retirement_input = d.retirement_input /\ d'.residual = d.residual
              /\ \/ d'.phase = "Initializing" /\ d'.disposition = "None"
                 \/ d'.phase = "Retiring" /\ d'.disposition # "None"
           \/ /\ ~d.environment /\ d.actions = None /\ d.activation = "Err"
              /\ d'.environment = d.environment /\ d'.actions = None /\ d'.activation = "None"
              /\ d'.interpretation = d.interpretation /\ d'.decision = d.decision
              /\ d'.source_input = d.source_input /\ d'.source_received = d.source_received
              /\ d'.source_index = d.source_index /\ d'.settlements = d.settlements
              /\ d'.retirement_input = d.retirement_input
              /\ d'.residual = [acquired |-> TRUE, of |-> {0}]
              /\ d'.phase = "Retiring" /\ d'.disposition = "Activation"
<1>1. d \in DriverType /\ d.phase = "Activating" /\ d.disposition = "None"
  BY DEF IInv, TypeOK, PcPhase, DispositionPhase, ActivateReturns, Ended
<1>2. PICK n \in 0 .. 2 : d' = Activated(d, n)
  BY DEF ActivateReturns, LoanFailures
<1>f. "ActivationPanicked" \in Failures /\ "Activation" \in Failures /\ "None" \notin Failures
  BY DEF Failures
<1>3. CASE d.environment \/ d.actions # None \/ d.activation = "None"
  <2>1. d' = ContractFailed(ReceiveFailures(d, "ActivationPanicked", n))
    BY Zenon, <1>2, <1>3 DEF Activated
  <2> QED
    BY Zenon, <1>1, <1>f, <2>1, ContractStops DEF Ended
<1>4. CASE ~d.environment /\ d.activation = "Ok" /\ d.actions = None
  <2> DEFINE q == [d EXCEPT !.activation = "None", !.active = TRUE, !.interpretation = 0,
                            !.phase = "Initializing"]
  <2>1. d' = ReceiveFailures(q, "ActivationPanicked", n)
    BY Zenon, <1>2, <1>4 DEF Activated
  <2>z. 0 \in Slot
    BY MaxTurnsAssumption DEF Slot, Turns
  <2>2. q \in DriverType /\ q.phase = "Initializing" /\ q.disposition = "None"
        /\ q.interpretation = 0 /\ q.activation = "None" /\ q.actions = None /\ q.decision = d.decision
        /\ q.environment = d.environment
        /\ q.source_input = d.source_input /\ q.source_received = d.source_received
        /\ q.source_index = d.source_index /\ q.settlements = d.settlements
        /\ q.retirement_input = d.retirement_input /\ q.residual = d.residual
    BY ZenonT(30), <1>1, <1>4, <2>z DEF DriverType, Phases
  <2> HIDE DEF q
  <2>3. SameSlots(q, d') /\ GoesOn(q, d')
    BY Zenon, <1>f, <2>1, <2>2, FailuresGoOn
  <2> QED
    BY ZenonT(30), <1>4, <2>2, <2>3 DEF SameSlots, GoesOn
<1>5. CASE ~d.environment /\ d.activation = "Err" /\ d.actions = None
  <2> DEFINE q == [d EXCEPT !.activation = "None", !.residual = [acquired |-> TRUE, of |-> {0}]]
             e == Reject(q, "Activation")
  <2>1. d' = ReceiveFailures(e, "ActivationPanicked", n)
    BY <1>2, <1>5 DEF Activated
  <2>r. [acquired |-> TRUE, of |-> {0}] \in Residuals
    BY MaxTurnsAssumption DEF Residuals, Turns
  <2>2. q \in DriverType /\ q.phase = d.phase /\ q.disposition = "None"
        /\ q.interpretation = d.interpretation /\ q.activation = "None" /\ q.actions = None
        /\ q.decision = d.decision /\ q.environment = d.environment
        /\ q.source_input = d.source_input /\ q.source_received = d.source_received
        /\ q.source_index = d.source_index /\ q.settlements = d.settlements
        /\ q.retirement_input = d.retirement_input /\ q.residual = [acquired |-> TRUE, of |-> {0}]
    BY ZenonT(30), <1>1, <1>5, <2>r DEF DriverType, Phases
  <2> HIDE DEF q
  <2>3. e \in DriverType /\ SameSlots(q, e) /\ e.phase = "Retiring" /\ e.disposition = "Activation"
    BY Zenon, <1>f, <2>2, RejectLemma
  <2> HIDE DEF e
  <2>4. SameSlots(e, d') /\ d'.phase = "Retiring" /\ d'.disposition = "Activation"
    BY Zenon, <1>f, <2>1, <2>3, ReceiveFailuresLemma
  <2> QED
    BY ZenonT(60), ZenonT(30), <1>5, <2>2, <2>3, <2>4 DEF SameSlots
<1> QED
  BY Zenon, <1>1, <1>3, <1>4, <1>5 DEF DriverType

\* Classification moves the interpretation to the front of the queue and spends the decision.
LEMMA ClassifyEffect ==
    ASSUME IInv, Classify
    PROVE  \/ Stopping(d, d')
           \/ /\ d'.settlements = <<[turn |-> "Offer", of |-> d.interpretation]>> \o d.settlements
              /\ d'.interpretation = None /\ d'.decision = "None"
              /\ d'.environment = d.environment /\ d'.actions = d.actions /\ d'.activation = d.activation
              /\ d'.source_input = d.source_input /\ d'.source_received = d.source_received
              /\ d'.source_index = d.source_index
              /\ d'.retirement_input = d.retirement_input /\ d'.residual = d.residual
              /\ \/ d'.phase \in Running /\ d'.disposition = "None"
                 \/ d'.phase = "Retiring" /\ d'.disposition # "None"
<1>1. d \in DriverType /\ d.phase \in Running /\ d.interpretation \in Turns /\ d.disposition = "None"
  BY DEF IInv, TypeOK, DispositionPhase, Classify, DriverType, Slot, Running, Ended
<1>f. {"HostExecutionPanicked", "SettlementCorrupt", "SettlementRejected", "InterpreterContractFailed"}
         \subseteq Failures /\ "Stopped" \in Completions
  BY DEF Failures, Completions
<1>2. CASE d' = Reject(d, "HostExecutionPanicked")
  BY Zenon, <1>1, <1>2, <1>f, StoppingReject
<1>3. CASE \E status \in {"Accepted", "Rejected", "Corrupt"} : d' = Classified(d, status)
  <2> DEFINE rows == <<[turn |-> "Offer", of |-> d.interpretation]>> \o d.settlements
             q == [d EXCEPT !.interpretation = None, !.decision = "None", !.settlements = rows]
  <2>1. rows \in Seq(Rows)
    <3>1. <<[turn |-> "Offer", of |-> d.interpretation]>> \in Seq(Rows) /\ d.settlements \in Seq(Rows)
      BY <1>1 DEF DriverType, Rows
    <3> QED
      BY <3>1, ConcatProperties
  <2>2. d' \in {Reject(q, "SettlementCorrupt"), Reject(q, "SettlementRejected"), Complete(q, "Stopped"),
                Reject(q, "InterpreterContractFailed"), [q EXCEPT !.phase = "SettlingInitialization"], q}
    BY <1>3 DEF Classified
  <2> HIDE DEF rows
  <2>3. q \in DriverType /\ q.phase = d.phase /\ q.disposition = "None"
        /\ q.settlements = rows /\ q.interpretation = None /\ q.decision = "None"
        /\ q.environment = d.environment /\ q.actions = d.actions /\ q.activation = d.activation
        /\ q.source_input = d.source_input /\ q.source_received = d.source_received
        /\ q.source_index = d.source_index
        /\ q.retirement_input = d.retirement_input /\ q.residual = d.residual
    BY ZenonT(30), <1>1, <2>1 DEF DriverType, Slot
  <2> HIDE DEF q
  <2>4. Stopping(q, d') \/ d' = [q EXCEPT !.phase = "SettlingInitialization"] \/ d' = q
    BY Zenon, <1>f, <2>2, <2>3, StoppingReject, StoppingComplete
  <2>5. CASE d' = [q EXCEPT !.phase = "SettlingInitialization"]
    BY ZenonT(30), <2>3, <2>5 DEF DriverType, Running, rows
  <2>6. CASE d' = q
    BY Zenon, <1>1, <2>3, <2>6 DEF rows
  <2>7. CASE Stopping(q, d')
    BY ZenonT(30), <2>3, <2>7 DEF Stopping, SameSlots, rows
  <2> QED
    BY Zenon, <2>4, <2>5, <2>6, <2>7
<1> QED
  BY Zenon, <1>2, <1>3 DEF Classify

\* The row at position i leaves the queue for the source slots.
LEMMA SelectOfferEffect ==
    ASSUME IInv, SelectOffer
    PROVE  \E i \in Progressing(d) :
              /\ d.settlements[i].turn = "Offer"
              /\ d'.source_index = i /\ d'.source_input = d.settlements[i].of
              /\ d'.settlements = RemoveAt(d.settlements, i)
              /\ d'.environment = d.environment /\ d'.actions = d.actions /\ d'.activation = d.activation
              /\ d'.interpretation = d.interpretation /\ d'.decision = d.decision
              /\ d'.source_received = d.source_received
              /\ d'.retirement_input = d.retirement_input /\ d'.residual = d.residual
              /\ d'.phase = d.phase /\ d'.disposition = d.disposition
<1>1. d \in DriverType
  BY DEF IInv, TypeOK
<1>2. PICK i \in Progressing(d) :
         /\ d.settlements[i].turn = "Offer"
         /\ d' = [d EXCEPT !.source_index = i, !.source_input = d.settlements[i].of,
                           !.settlements = RemoveAt(@, i)]
  BY Zenon DEF SelectOffer
<1> DEFINE rest == RemoveAt(d.settlements, i)
           x == d.settlements[i].of
<1>3. d' = [d EXCEPT !.source_index = i, !.source_input = x, !.settlements = rest]
  BY <1>2
<1> HIDE DEF rest, x
<1>4. d'.source_index = i /\ d'.source_input = x /\ d'.settlements = rest
      /\ d'.environment = d.environment /\ d'.actions = d.actions /\ d'.activation = d.activation
      /\ d'.interpretation = d.interpretation /\ d'.decision = d.decision
      /\ d'.source_received = d.source_received
      /\ d'.retirement_input = d.retirement_input /\ d'.residual = d.residual
      /\ d'.phase = d.phase /\ d'.disposition = d.disposition
  BY ZenonT(30), <1>1, <1>3 DEF DriverType
<1> QED
  BY Zenon, <1>2, <1>4 DEF rest, x

\* An acquired custody puts its settlement back at source_index, or discharges it.
LEMMA CustodiedEffect ==
    ASSUME d \in DriverType, d.phase \in Running, d.disposition = "None", IndexInQueue,
           d.source_received # NoCustody, d.source_index # None, d.retirement_input = NoInput,
           NEW n \in 0 .. 2, NEW p \in BOOLEAN
    PROVE  LET t == Custodied(d, n, p)
               got == d.source_received IN
           /\ t.source_index = None /\ t.source_received = NoCustody /\ t.source_input = d.source_input
           /\ t.environment = d.environment /\ t.actions = d.actions /\ t.activation = d.activation
           /\ t.interpretation = d.interpretation /\ t.decision = d.decision
           /\ t.retirement_input = d.retirement_input /\ t.residual = d.residual
           /\ GoesOn(d, t)
           /\ \/ got.custody = "Exhausted" /\ t.settlements = d.settlements
              \/ /\ got.custody # "Exhausted"
                 /\ \E row \in {"Offer", "AwaitSource", "Retained"} :
                      /\ t.settlements = InsertAt(d.settlements, d.source_index, [turn |-> row, of |-> got.of])
                      /\ row = "Offer" => t.phase = "Retiring"
<1> DEFINE got == d.source_received
           q == [d EXCEPT !.source_index = None, !.source_received = NoCustody]
           Put(row) == InsertAt(d.settlements, d.source_index, [turn |-> row, of |-> got.of])
           Inserted(row) == [q EXCEPT !.settlements = InsertAt(@, d.source_index, [turn |-> row, of |-> got.of])]
           Fine(t, rows) ==
              /\ t \in DriverType /\ t.settlements = rows
              /\ t.source_index = None /\ t.source_received = NoCustody /\ t.source_input = d.source_input
              /\ t.environment = d.environment /\ t.actions = d.actions /\ t.activation = d.activation
              /\ t.interpretation = d.interpretation /\ t.decision = d.decision
              /\ t.retirement_input = d.retirement_input /\ t.residual = d.residual
              /\ GoesOn(d, t)
<1>f. {"HostExecutionPanicked", "SettlementSourceClosed"} \subseteq Failures /\ "None" \notin Failures
  BY DEF Failures
<1>1. NoCustody \in Receipts /\ None \in Int
  BY DEF NoCustody, Receipts, None, Slot
<1>2. Fine(q, d.settlements)
  BY ZenonT(30), <1>1 DEF DriverType, GoesOn
<1>3. ASSUME NEW t, NEW rows, Fine(t, rows), NEW e \in Failures
      PROVE  Fine(Reject(t, e), rows) /\ Reject(t, e).phase = "Retiring"
  <2>1. Stopping(t, Reject(t, e)) /\ Reject(t, e) \in DriverType
    BY Zenon, <1>3, StoppingReject
  <2> QED
    BY ZenonT(30), <1>3, <2>1 DEF Stopping, SameSlots, GoesOn
<1>4. ASSUME NEW t, NEW rows, Fine(t, rows)
      PROVE  /\ Fine(ReceiveFailures(t, "HostExecutionPanicked", n), rows)
             /\ t.phase = "Retiring" => ReceiveFailures(t, "HostExecutionPanicked", n).phase = "Retiring"
  <2> DEFINE u == ReceiveFailures(t, "HostExecutionPanicked", n)
  <2>1. u \in DriverType /\ SameSlots(t, u) /\ GoesOn(t, u)
    BY Zenon, <1>4, <1>f, FailuresGoOn
  <2> HIDE DEF u
  <2>2. Fine(u, rows) /\ (t.phase = "Retiring" => u.phase = "Retiring")
    BY ZenonT(30), <1>4, <2>1 DEF SameSlots, GoesOn
  <2> QED
    BY Zenon, <2>2 DEF u
<1> HIDE DEF Fine
<1>5. ASSUME got.custody = "Exhausted" PROVE Fine(Custodied(d, n, p), d.settlements)
  <2> DEFINE r == ReceiveFailures(q, "HostExecutionPanicked", n)
  <2>1. Custodied(d, n, p) = IF p THEN Reject(r, "HostExecutionPanicked") ELSE r
    BY <1>5 DEF Custodied
  <2> HIDE DEF q
  <2>2. Fine(r, d.settlements)
    BY Zenon, <1>2, <1>4
  <2> HIDE DEF r
  <2>3. Fine(Reject(r, "HostExecutionPanicked"), d.settlements)
    BY Zenon, <1>3, <1>f, <2>2
  <2> QED
    BY Zenon, <2>1, <2>2, <2>3
<1>6. ASSUME got.custody # "Exhausted"
      PROVE  \E row \in {"Offer", "AwaitSource", "Retained"} :
                Fine(Custodied(d, n, p), Put(row)) /\ (row = "Offer" => Custodied(d, n, p).phase = "Retiring")
  <2>1. got.of \in Turns /\ got.custody \in Custodies
    <3>1. got \in Receipts /\ got # NoCustody
      BY DEF DriverType
    <3> QED
      BY <3>1 DEF Receipts
  <2>2. ASSUME NEW row \in {"Offer", "AwaitSource", "Retained"} PROVE Fine(Inserted(row), Put(row))
    <3> DEFINE r == [turn |-> row, of |-> got.of]
               s == InsertAt(d.settlements, d.source_index, r)
    <3>1. d.settlements \in Seq(Rows) /\ r \in Rows
      BY <2>1 DEF DriverType, Rows
    <3>2. d.source_index \in 1 .. (Len(d.settlements) + 1)
      BY DEF IndexInQueue
    <3>3. s \in Seq(Rows)
      BY <3>1, <3>2, InsertAtType
    <3>4. Inserted(row) = [q EXCEPT !.settlements = s]
      BY DEF DriverType
    <3>5. Put(row) = s
      OBVIOUS
    <3> HIDE DEF s, Inserted, q, Put
    <3> QED
      BY ZenonT(60), ZenonT(30), <1>2, <3>3, <3>4, <3>5 DEF Fine, DriverType, GoesOn
  <2> HIDE DEF Inserted, q, Put
  <2>3. CASE got.custody = "Retained" \/ got.custody = "Admitted"
    <3>1. PICK row \in {"AwaitSource", "Retained"} :
             Custodied(d, n, p) = ReceiveFailures(Inserted(row), "HostExecutionPanicked", n)
      BY <2>3 DEF Custodied, Inserted, q
    <3>2. Fine(Custodied(d, n, p), Put(row))
      BY Zenon, <1>4, <2>2, <3>1
    <3> QED
      BY Zenon, <3>2
  <2>4. CASE got.custody = "Closed"
    <3> DEFINE c == Reject(Inserted("Offer"), "SettlementSourceClosed")
    <3>1. Custodied(d, n, p) = ReceiveFailures(c, "HostExecutionPanicked", n)
      BY <2>4 DEF Custodied, Inserted, q
    <3>2. Fine(c, Put("Offer")) /\ c.phase = "Retiring"
      BY Zenon, <1>3, <1>f, <2>2
    <3> HIDE DEF c
    <3>3. Fine(Custodied(d, n, p), Put("Offer")) /\ Custodied(d, n, p).phase = "Retiring"
      BY Zenon, <1>4, <3>1, <3>2
    <3> QED
      BY Zenon, <3>3
  <2> QED
    BY Zenon, <1>6, <2>1, <2>3, <2>4 DEF Custodies
<1> QED
  BY ZenonT(30), <1>5, <1>6 DEF Fine

\* The source branch: a contract failure, or an acquired custody.
LEMMA SourceEffect ==
    ASSUME IInv, OfferReturns \/ ReceiveAcquired
    PROVE  /\ d.phase \in Running /\ d.source_index # None
           /\ \/ Stopping(d, d') /\ spent' = spent
              \/ /\ d.source_input = None /\ d.source_received # NoCustody
                 /\ d'.source_index = None /\ d'.source_received = NoCustody /\ d'.source_input = None
                 /\ d'.environment = d.environment /\ d'.actions = d.actions /\ d'.activation = d.activation
                 /\ d'.interpretation = d.interpretation /\ d'.decision = d.decision
                 /\ d'.retirement_input = d.retirement_input /\ d'.residual = d.residual
                 /\ GoesOn(d, d')
                 /\ \/ d'.settlements = d.settlements /\ spent' = spent \cup {d.source_received.of}
                    \/ /\ spent' = spent
                       /\ \E row \in {"Offer", "AwaitSource", "Retained"} :
                            /\ d'.settlements = InsertAt(d.settlements, d.source_index,
                                                         [turn |-> row, of |-> d.source_received.of])
                            /\ row = "Offer" => d'.phase = "Retiring"
<1>1. PICK n \in 0 .. 2 : Received(n)
  BY DEF OfferReturns, ReceiveAcquired, LoanFailures
<1>2. d \in DriverType /\ d.phase \in Running /\ d.phase \notin Ended /\ d.source_index # None
      /\ d.disposition = "None" /\ d.retirement_input = NoInput /\ IndexInQueue
  BY DEF IInv, TypeOK, DispositionPhase, OwnerPhase, PcPhase, OfferReturns, ReceiveAcquired, Turning, Running, Ended
<1>f. "HostExecutionPanicked" \in Failures
  BY DEF Failures
<1>3. CASE d.source_input # None \/ d.source_received = NoCustody
  <2>1. d' = ContractFailed(ReceiveFailures(d, "HostExecutionPanicked", n)) /\ spent' = spent
    BY Zenon, <1>1, <1>3 DEF Received
  <2> QED
    BY Zenon, <1>2, <1>f, <2>1, ContractStops
<1>4. CASE d.source_input = None /\ d.source_received # NoCustody
  <2>1. PICK p \in BOOLEAN : d' = Custodied(d, n, p)
    BY Zenon, <1>1, <1>4 DEF Received
  <2>2. spent' = IF d.source_received.custody = "Exhausted" THEN spent \cup {d.source_received.of} ELSE spent
    BY Zenon, <1>1, <1>4 DEF Received
  <2> QED
    BY ZenonT(60), ZenonT(60), <1>2, <1>4, <2>1, <2>2, CustodiedEffect
<1> QED
  BY Zenon, <1>2, <1>3, <1>4

\* The awaiting row at position i becomes an offer again.
LEMMA SelectAwaitEffect ==
    ASSUME IInv, SelectAwait
    PROVE  \E i \in Progressing(d) :
              /\ d.settlements[i].turn = "AwaitSource"
              /\ d'.settlements = [d.settlements EXCEPT ![i] = [d.settlements[i] EXCEPT !.turn = "Offer"]]
              /\ d'.source_index = d.source_index /\ d'.source_input = d.source_input
              /\ d'.environment = d.environment /\ d'.actions = d.actions /\ d'.activation = d.activation
              /\ d'.interpretation = d.interpretation /\ d'.decision = d.decision
              /\ d'.source_received = d.source_received
              /\ d'.retirement_input = d.retirement_input /\ d'.residual = d.residual
              /\ d'.phase = d.phase /\ d'.disposition = d.disposition
<1>1. d \in DriverType
  BY DEF IInv, TypeOK
<1>2. PICK i \in Progressing(d) :
         d.settlements[i].turn = "AwaitSource" /\ d' = [d EXCEPT !.settlements[i].turn = "Offer"]
  BY Zenon DEF SelectAwait
<1> DEFINE rows == [d.settlements EXCEPT ![i] = [d.settlements[i] EXCEPT !.turn = "Offer"]]
<1>3. d' = [d EXCEPT !.settlements = rows]
  BY <1>2
<1> HIDE DEF rows
<1>4. d'.settlements = rows
      /\ d'.source_index = d.source_index /\ d'.source_input = d.source_input
      /\ d'.environment = d.environment /\ d'.actions = d.actions /\ d'.activation = d.activation
      /\ d'.interpretation = d.interpretation /\ d'.decision = d.decision
      /\ d'.source_received = d.source_received
      /\ d'.retirement_input = d.retirement_input /\ d'.residual = d.residual
      /\ d'.phase = d.phase /\ d'.disposition = d.disposition
  BY ZenonT(30), <1>1, <1>3 DEF DriverType
<1> QED
  BY Zenon, <1>2, <1>4 DEF rows

\* Two Driver values that differ at most in phase, recorded failures and ingress.
SameButIngress(s, t) ==
    /\ t.environment = s.environment
    /\ t.actions = s.actions /\ t.activation = s.activation /\ t.interpretation = s.interpretation
    /\ t.source_input = s.source_input /\ t.source_received = s.source_received
    /\ t.source_index = s.source_index /\ t.decision = s.decision
    /\ t.settlements = s.settlements /\ t.retirement_input = s.retirement_input
    /\ t.residual = s.residual

\* Publication moves nothing.
LEMMA PublishEffect ==
    ASSUME IInv, Publish
    PROVE  /\ SameButIngress(d, d')
           /\ \/ d'.phase = "Active" /\ d'.disposition = "None"
              \/ d'.phase = "Retiring" /\ d'.disposition # "None"
<1>1. d \in DriverType /\ d.disposition = "None"
  BY DEF IInv, TypeOK, DispositionPhase, Publish, Ended
<1>f. "HostExecutionPanicked" \in Failures /\ "RetirementRequested" \in Completions
  BY DEF Failures, Completions
<1>2. CASE d' = [d EXCEPT !.phase = "Active"]
  BY ZenonT(30), <1>1, <1>2 DEF DriverType, SameButIngress
<1>3. CASE d' = Complete(d, "RetirementRequested") \/ d' = Reject(d, "HostExecutionPanicked")
  <2>1. Stopping(d, d')
    BY Zenon, <1>1, <1>3, <1>f, StoppingComplete, StoppingReject
  <2> QED
    BY Zenon, <2>1 DEF Stopping, SameSlots, SameButIngress
<1> QED
  BY Zenon, <1>2, <1>3 DEF Publish

\* next and next_source move nothing but the ingress.
LEMMA IngressEffect ==
    ASSUME IInv, IngressReturns
    PROVE  SameButIngress(d, d') /\ GoesOn(d, d')
<1>1. d \in DriverType
  BY DEF IInv, TypeOK
<1>f. {"HostExecutionPanicked", "SettlementSourceClosed", "InterpreterContractFailed"} \subseteq Failures
  BY DEF Failures
<1>2. PICK r \in {"None", "End", "Request", "Event"}, n \in 0 .. 2 :
         d' = SourceIngress(d, r, n) \/ d' = OrdinaryIngress(d, r, n)
  <2>1. PICK in \in Ingress :
           d' = IF pc = "nextSource" THEN SourceIngress(d, in[1], in[2]) ELSE OrdinaryIngress(d, in[1], in[2])
    BY DEF IngressReturns
  <2>2. in[1] \in {"None", "End", "Request", "Event"} /\ in[2] \in 0 .. 2
    BY DEF Ingress, ValueReplies
  <2> QED
    BY Zenon, <2>1, <2>2
<1> DEFINE i == [d EXCEPT !.ingress = r]
           Fine(t) == t \in DriverType /\ SameButIngress(d, t) /\ GoesOn(d, t)
<1>3. Fine(i) /\ Fine(d)
  BY ZenonT(30), <1>1 DEF DriverType, SameButIngress, GoesOn
<1>4. ASSUME NEW t, Fine(t), NEW e \in Failures PROVE Fine(Reject(t, e))
  <2>1. Stopping(t, Reject(t, e)) /\ Reject(t, e) \in DriverType
    BY Zenon, <1>4, StoppingReject
  <2> QED
    BY ZenonT(30), <1>4, <2>1 DEF Stopping, SameSlots, SameButIngress, GoesOn
<1>5. ASSUME NEW t, Fine(t) PROVE Fine(ReceiveFailures(t, "HostExecutionPanicked", n))
  <2> DEFINE u == ReceiveFailures(t, "HostExecutionPanicked", n)
  <2>1. u \in DriverType /\ SameSlots(t, u) /\ GoesOn(t, u)
    BY Zenon, <1>5, <1>f, FailuresGoOn
  <2> HIDE DEF u
  <2>2. Fine(u)
    BY ZenonT(30), <1>5, <2>1 DEF SameSlots, SameButIngress, GoesOn
  <2> QED
    BY Zenon, <2>2 DEF u
<1>6. ASSUME NEW t, Fine(t) PROVE Fine(ContractFailed(t))
  BY Zenon, <1>6, <1>4, <1>f DEF ContractFailed
<1> HIDE DEF Fine
<1>7. CASE d' = OrdinaryIngress(d, r, n)
  <2>1. d' = ReceiveFailures(i, "HostExecutionPanicked", n)
    BY <1>7 DEF OrdinaryIngress
  <2> HIDE DEF i
  <2> QED
    BY Zenon, <1>3, <1>5, <2>1 DEF Fine
<1>8. CASE d' = SourceIngress(d, r, n)
  <2> DEFINE q == IF r = "End" THEN Reject(d, "SettlementSourceClosed") ELSE i
             f == ReceiveFailures(q, "HostExecutionPanicked", n)
  <2>1. d' = IF f.ingress = "None" THEN ContractFailed(f) ELSE f
    BY <1>8 DEF SourceIngress
  <2> HIDE DEF i
  <2>2. Fine(q)
    BY Zenon, <1>3, <1>4, <1>f
  <2> HIDE DEF q
  <2>3. Fine(f)
    BY ZenonT(60), <1>5, <2>2
  <2> HIDE DEF f
  <2> QED
    BY Zenon, <1>6, <2>1, <2>3 DEF Fine
<1> QED
  BY Zenon, <1>2, <1>7, <1>8

\* A fold leaves its decision and its actions, or a failure and nothing; any other
\* ingress selects retirement.
LEMMA FoldEffect ==
    ASSUME IInv, Fold \/ NoEvent
    PROVE  /\ d.phase \in Running /\ pc = "fold"
           /\ \/ /\ turn' = turn + 1 /\ pc' = "apply" /\ spent' = spent
                 /\ d'.decision # "None" /\ d'.actions = turn + 1
                 /\ d'.environment = d.environment /\ d'.activation = d.activation
                 /\ d'.interpretation = d.interpretation /\ d'.source_input = d.source_input
                 /\ d'.source_received = d.source_received /\ d'.source_index = d.source_index
                 /\ d'.settlements = d.settlements /\ d'.retirement_input = d.retirement_input
                 /\ d'.residual = d.residual
                 /\ d'.phase = d.phase /\ d'.disposition = d.disposition
              \/ /\ SameButIngress(d, d') /\ d'.phase = "Retiring" /\ d'.disposition # "None" /\ pc' = "loop"
                 /\ \/ turn' = turn + 1 /\ spent' = spent \cup {turn + 1}
                    \/ turn' = turn /\ spent' = spent
<1>1. d \in DriverType /\ d.phase \in Running /\ pc = "fold"
  BY DEF IInv, TypeOK, PcPhase, Fold, NoEvent
<1> DEFINE s == [d EXCEPT !.ingress = "None"]
           n == turn + 1
<1>2. s \in DriverType /\ SameButIngress(d, s) /\ s.phase = d.phase /\ s.disposition = d.disposition
  BY ZenonT(30), <1>1 DEF DriverType, SameButIngress
<1>f. {"Behavior", "TransitionPanicked", "InterpreterContractFailed"} \subseteq Failures
      /\ {"Exhausted", "RetirementRequested"} \subseteq Completions
  BY DEF Failures, Completions
<1>3. CASE Fold
  <2>1. turn' = n
    BY <1>3 DEF Fold
  <2>2. \/ \E step \in {"Continue", "Stop"} :
              d' = [s EXCEPT !.decision = step, !.actions = n] /\ pc' = "apply" /\ spent' = spent
        \/ \E e \in {"Behavior", "TransitionPanicked"} :
              d' = Reject(s, e) /\ pc' = "loop" /\ spent' = spent \cup {n}
    BY Zenon, <1>3 DEF Fold, Goto
  <2> HIDE DEF s
  <2>3. CASE \E step \in {"Continue", "Stop"} :
              d' = [s EXCEPT !.decision = step, !.actions = n] /\ pc' = "apply" /\ spent' = spent
    <3> HIDE DEF n
    <3>1. turn' = n /\ pc' = "apply" /\ spent' = spent
                 /\ d'.decision # "None" /\ d'.actions = n
                 /\ d'.environment = d.environment /\ d'.activation = d.activation
                 /\ d'.interpretation = d.interpretation /\ d'.source_input = d.source_input
                 /\ d'.source_received = d.source_received /\ d'.source_index = d.source_index
                 /\ d'.settlements = d.settlements /\ d'.retirement_input = d.retirement_input
                 /\ d'.residual = d.residual
                 /\ d'.phase = d.phase /\ d'.disposition = d.disposition
      BY ZenonT(60), ZenonT(30), <1>2, <2>1, <2>3 DEF DriverType, SameButIngress
    <3> QED
      BY Zenon, <1>1, <3>1 DEF n
  <2>4. CASE \E e \in {"Behavior", "TransitionPanicked"} :
              d' = Reject(s, e) /\ pc' = "loop" /\ spent' = spent \cup {n}
    <3>1. Stopping(s, d')
      BY Zenon, <1>2, <1>f, <2>4, StoppingReject
    <3>2. SameButIngress(d, d') /\ d'.phase = "Retiring" /\ d'.disposition # "None"
      BY Zenon, <1>2, <3>1 DEF Stopping, SameSlots, SameButIngress
    <3> QED
      BY Zenon, <1>1, <2>1, <2>4, <3>2
  <2> QED
    BY Zenon, <2>2, <2>3, <2>4
<1>4. CASE NoEvent
  <2>1. d' \in {Complete(s, "Exhausted"), Complete(s, "RetirementRequested"),
                Reject(s, "InterpreterContractFailed")}
        /\ pc' = "loop" /\ turn' = turn /\ spent' = spent
    BY <1>4 DEF NoEvent, Goto, custody
  <2> HIDE DEF s
  <2>2. Stopping(s, d')
    BY Zenon, <1>2, <1>f, <2>1, StoppingReject, StoppingComplete
  <2>3. SameButIngress(d, d') /\ d'.phase = "Retiring" /\ d'.disposition # "None"
    BY ZenonT(60), <1>2, <2>2 DEF Stopping, SameSlots, SameButIngress
  <2> QED
    BY Zenon, <1>1, <2>1, <2>3
<1> QED
  BY Zenon, <1>3, <1>4

\* A returned apply goes on only with an interpretation and no actions left behind.
LEMMA ApplyEffect ==
    ASSUME IInv, ApplyReturns
    PROVE  \/ Stopping(d, d')
           \/ d' = d /\ d.actions = None /\ d.interpretation # None
<1>1. d \in DriverType /\ d.phase \notin Ended /\ d.disposition = "None"
  BY DEF IInv, TypeOK, DispositionPhase, ApplyReturns, PcPhase, Running, Ended
<1>2. PICK n \in 0 .. 2 : d' = Applied(d, n)
  BY DEF ApplyReturns, LoanFailures
<1>f. "HostExecutionPanicked" \in Failures /\ "None" \notin Failures
  BY DEF Failures
<1> DEFINE f == ReceiveFailures(d, "HostExecutionPanicked", n)
<1>3. d' = IF f.actions # None \/ f.interpretation = None THEN ContractFailed(f) ELSE f
  BY Zenon, <1>2 DEF Applied
<1>4. f \in DriverType /\ SameSlots(d, f) /\ (n = 0 => f = d)
      /\ (n # 0 => f.phase = "Retiring" /\ f.disposition # "None")
  BY Zenon, <1>1, <1>f, ReceiveFailuresLemma
<1>5. CASE f.actions # None \/ f.interpretation = None
  BY Zenon, <1>1, <1>3, <1>5, <1>f, ContractStops
<1>6. CASE ~(f.actions # None \/ f.interpretation = None)
  BY Zenon, <1>3, <1>4, <1>6 DEF Stopping, SameSlots
<1> QED
  BY Zenon, <1>5, <1>6

\* The list the retirement barrier receives: the queue with an unoffered row back in place.
LEMMA CollectedEffect ==
    ASSUME d \in DriverType, IndexInQueue
    PROVE  LET t == Collected(d) IN
           \/ t = d
           \/ /\ d.retirement_input = NoInput /\ d.active
              /\ t.settlements = <<>> /\ t.retirement_input # NoInput
              /\ t.environment = d.environment /\ t.actions = d.actions /\ t.activation = d.activation
              /\ t.interpretation = d.interpretation /\ t.decision = d.decision
              /\ t.source_received = d.source_received /\ t.residual = d.residual
              /\ t.phase = d.phase /\ t.disposition = d.disposition
              /\ \/ /\ d.source_input # None /\ d.source_index # None
                    /\ t.source_input = None /\ t.source_index = None
                    /\ LET rows == InsertAt(d.settlements, d.source_index,
                                            [turn |-> "Retained", of |-> d.source_input])
                       IN  t.retirement_input = [i \in 1 .. Len(rows) |-> rows[i].of]
                 \/ /\ t.source_input = d.source_input /\ t.source_index = d.source_index
                    /\ t.retirement_input = Queued(d)
<1>1. CASE d.retirement_input # NoInput \/ ~d.active
  BY Zenon, <1>1 DEF Collected
<1>2. CASE d.retirement_input = NoInput /\ d.active
  <2> DEFINE back == [turn |-> "Retained", of |-> d.source_input]
             held == d.source_input # None /\ d.source_index # None
             rows == IF held THEN InsertAt(d.settlements, d.source_index, back) ELSE d.settlements
             q == IF held THEN [d EXCEPT !.source_input = None, !.source_index = None, !.settlements = rows]
                  ELSE d
             list == [i \in 1 .. Len(rows) |-> rows[i].of]
  <2>1. rows \in Seq(Rows)
    <3>1. d.settlements \in Seq(Rows) /\ d.source_input \in Slot
      BY DEF DriverType
    <3>2. CASE held
      <4>1. back \in Rows
        BY Zenon, <3>1, <3>2 DEF Rows, Slot
      <4> HIDE DEF back
      <4>2. d.source_index \in 1 .. (Len(d.settlements) + 1)
        BY Zenon, <1>2, <3>2 DEF IndexInQueue
      <4> QED
        BY <3>1, <3>2, <4>1, <4>2, InsertAtType
    <3> QED
      BY Zenon, <3>1, <3>2
  <2>2. q.settlements = rows
    BY DEF DriverType
  <2>3. Collected(d) = [q EXCEPT !.settlements = <<>>, !.retirement_input = list]
    BY <1>2, <2>2 DEF Collected
  <2>4. list # NoInput
    <3>1. ASSUME list = NoInput PROVE FALSE
      <4>1. Len(rows) \in Nat /\ \A i \in 1 .. Len(rows) : rows[i].of \in Turns
        <5>1. \A i \in 1 .. Len(rows) : rows[i] \in Rows
          BY Zenon, <2>1, ElementOfSeq
        <5> HIDE DEF rows
        <5> QED
          BY <2>1, <5>1 DEF Rows
      <4> HIDE DEF rows
      <4>2. Len(rows) = 1 /\ list[1] = None
        BY <3>1, <4>1 DEF NoInput
      <4> QED
        BY <4>1, <4>2 DEF Turns, None
    <3> QED
      BY Zenon, <3>1
  <2>5. held => list = LET r == InsertAt(d.settlements, d.source_index, back)
                       IN  [i \in 1 .. Len(r) |-> r[i].of]
    BY Zenon
  <2>6. ~held => list = Queued(d)
    BY Zenon DEF Queued
  <2> HIDE DEF rows, back
  <2>7. /\ q \in DriverType /\ q.phase = d.phase /\ q.disposition = d.disposition
        /\ q.environment = d.environment /\ q.actions = d.actions /\ q.activation = d.activation
        /\ q.interpretation = d.interpretation /\ q.decision = d.decision
        /\ q.source_received = d.source_received /\ q.residual = d.residual
        /\ held => q.source_input = None /\ q.source_index = None
        /\ ~held => q.source_input = d.source_input /\ q.source_index = d.source_index
    <3>1. None \in Slot /\ None \in Int
      BY DEF Slot, None
    <3> QED
      BY ZenonT(60), <2>1, <3>1 DEF DriverType
  <2> HIDE DEF q, list
  <2>8. /\ Collected(d).settlements = <<>> /\ Collected(d).retirement_input = list
        /\ Collected(d).phase = q.phase /\ Collected(d).disposition = q.disposition
        /\ Collected(d).environment = q.environment /\ Collected(d).actions = q.actions
        /\ Collected(d).activation = q.activation
        /\ Collected(d).interpretation = q.interpretation /\ Collected(d).decision = q.decision
        /\ Collected(d).source_received = q.source_received /\ Collected(d).residual = q.residual
        /\ Collected(d).source_input = q.source_input /\ Collected(d).source_index = q.source_index
    BY ZenonT(60), <2>3, <2>7 DEF DriverType
  <2> QED
    BY ZenonT(60), <1>2, <2>4, <2>5, <2>6, <2>7, <2>8 DEF back
<1> QED
  BY Zenon, <1>1, <1>2

\* What a host's move leaves alone: the loop's control, its queue and the source slots.
SameControl(s, t) == t.phase = s.phase /\ t.disposition = s.disposition /\ t.decision = s.decision
SameQueue(s, t) ==
    t.source_index = s.source_index /\ t.settlements = s.settlements /\ t.retirement_input = s.retirement_input
SameSource(s, t) == t.source_input = s.source_input /\ t.source_received = s.source_received

\* A host that takes the environment takes the actions loaned with it, and nothing else.
LEMMA TakesEnvironmentEffect ==
    ASSUME IInv, HostTakesEnvironment \/ HostTakesPrepared
    PROVE  /\ SameControl(d, d') /\ SameQueue(d, d') /\ SameSource(d, d')
           /\ ~d'.environment /\ d'.actions = None /\ d'.activation = d.activation
           /\ d'.interpretation = d.interpretation /\ d'.residual = d.residual
<1>1. d \in DriverType
  BY DEF IInv, TypeOK
<1>2. d' = [d EXCEPT !.environment = FALSE, !.actions = None]
  BY Zenon DEF HostTakesEnvironment, HostTakesPrepared
<1> QED
  BY ZenonT(30), <1>1, <1>2 DEF DriverType, SameControl, SameQueue, SameSource

\* An activation reply fills its slot and moves no other.
LEMMA RepliesActivationEffect ==
    ASSUME IInv, HostRepliesActivation
    PROVE  /\ SameControl(d, d') /\ SameQueue(d, d') /\ SameSource(d, d')
           /\ d'.environment = d.environment /\ d'.actions = d.actions /\ d'.activation # "None"
           /\ d'.interpretation = d.interpretation /\ d'.residual = d.residual
<1>1. d \in DriverType
  BY DEF IInv, TypeOK
<1>2. PICK result \in {"Ok", "Err"} : d' = [d EXCEPT !.activation = result]
  BY Zenon DEF HostRepliesActivation
<1> QED
  BY ZenonT(30), <1>1, <1>2 DEF DriverType, SameControl, SameQueue, SameSource

\* A host takes the offered settlement, or replies with the custody of one it holds.
LEMMA HostSourceEffect ==
    ASSUME IInv, HostTakesSource \/ HostRepliesSource
    PROVE  /\ SameControl(d, d') /\ SameQueue(d, d')
           /\ d'.environment = d.environment /\ d'.actions = d.actions /\ d'.activation = d.activation
           /\ d'.interpretation = d.interpretation /\ d'.residual = d.residual
           /\ \/ /\ d.source_input # None /\ d.source_received = NoCustody
                 /\ d'.source_input = None /\ d'.source_received = d.source_received
                 /\ host' = host \cup {d.source_input}
              \/ /\ d.source_received = NoCustody
                 /\ d'.source_input = d.source_input
                 /\ \E t \in host \cup ({d.source_input} \ {None}) :
                       d'.source_received.of = t /\ host' = host \ {t}
<1>1. d \in DriverType
  BY DEF IInv, TypeOK
<1>2. CASE HostTakesSource
  <2>1. d' = [d EXCEPT !.source_input = None]
    BY Zenon, <1>2 DEF HostTakesSource
  <2>2. d.source_input # None /\ d.source_received = NoCustody /\ host' = host \cup {d.source_input}
    BY Zenon, <1>2 DEF HostTakesSource
  <2> QED
    BY ZenonT(30), <1>1, <2>1, <2>2 DEF DriverType, SameControl, SameQueue
<1>3. CASE HostRepliesSource
  <2>1. PICK t \in host \cup ({d.source_input} \ {None}), c \in Custodies :
           d' = [d EXCEPT !.source_received = [custody |-> c, of |-> t]] /\ host' = host \ {t}
    BY Zenon, <1>3 DEF HostRepliesSource
  <2> DEFINE x == [custody |-> c, of |-> t]
  <2>2. x.of = t
    OBVIOUS
  <2>3. d' = [d EXCEPT !.source_received = x]
    BY <2>1
  <2>4. d.source_received = NoCustody
    BY Zenon, <1>3 DEF HostRepliesSource
  <2> HIDE DEF x
  <2> QED
    BY ZenonT(30), <1>1, <2>1, <2>2, <2>3, <2>4 DEF DriverType, SameControl, SameQueue
<1> QED
  BY Zenon, <1>2, <1>3

\* A host takes the actions, or replies with the interpretation of the current turn.
LEMMA HostActionsEffect ==
    ASSUME IInv, HostTakesActions \/ HostRepliesInterpretation
    PROVE  /\ SameControl(d, d') /\ SameQueue(d, d') /\ SameSource(d, d')
           /\ d'.environment = d.environment /\ d'.activation = d.activation
           /\ d'.residual = d.residual /\ d.interpretation = None
           /\ \/ /\ d.actions # None /\ d'.actions = None /\ d'.interpretation = d.interpretation
                 /\ host' = host \cup {d.actions}
              \/ /\ d'.actions = d.actions /\ d'.interpretation = turn
                 /\ host' = host \ {turn} /\ turn \in host \cup {d.actions}
<1>1. d \in DriverType
  BY DEF IInv, TypeOK
<1>2. CASE HostTakesActions
  <2>1. d' = [d EXCEPT !.actions = None]
    BY Zenon, <1>2 DEF HostTakesActions
  <2>2. d.actions # None /\ d.interpretation = None /\ host' = host \cup {d.actions}
    BY Zenon, <1>2 DEF HostTakesActions
  <2> QED
    BY ZenonT(30), <1>1, <2>1, <2>2 DEF DriverType, SameControl, SameQueue, SameSource
<1>3. CASE HostRepliesInterpretation
  <2>1. d' = [d EXCEPT !.interpretation = turn] /\ host' = host \ {turn} /\ turn \in host \cup {d.actions}
    BY Zenon, <1>3 DEF HostRepliesInterpretation
  <2>2. d.interpretation = None
    BY Zenon, <1>3 DEF HostRepliesInterpretation
  <2> QED
    BY ZenonT(30), <1>1, <2>1, <2>2 DEF DriverType, SameControl, SameQueue, SameSource
<1> QED
  BY Zenon, <1>2, <1>3

\* At the barrier the active host takes everything loaned to it, or itself alone.
LEMMA TakesActiveEffect ==
    ASSUME IInv, HostTakesActive
    PROVE  /\ SameControl(d, d')
           /\ d'.environment = d.environment /\ d'.activation = d.activation
           /\ d'.residual = d.residual /\ d'.source_input = d.source_input /\ d'.settlements = d.settlements
           /\ \/ /\ d'.actions = None /\ d'.interpretation = None /\ d'.source_received = NoCustody
                 /\ d'.source_index = None /\ d'.retirement_input = NoInput
                 /\ host' = host \cup (({d.actions, d.interpretation, d.source_received.of}
                                          \cup Range(d.retirement_input)) \ {None})
              \/ /\ d'.actions = d.actions /\ d'.interpretation = d.interpretation
                 /\ d'.source_received = d.source_received /\ d'.source_index = d.source_index
                 /\ d'.retirement_input = d.retirement_input
                 /\ host' = host
<1>1. d \in DriverType
  BY DEF IInv, TypeOK
<1> DEFINE more == host \cup (({d.actions, d.interpretation, d.source_received.of}
                                 \cup Range(d.retirement_input)) \ {None})
<1>2. \/ /\ d' = [d EXCEPT !.active = FALSE, !.actions = None, !.interpretation = None,
                            !.source_received = NoCustody, !.source_index = None,
                            !.ingress = "None", !.retirement_input = NoInput]
         /\ host' = more
      \/ d' = [d EXCEPT !.active = FALSE] /\ host' = host
  BY Zenon DEF HostTakesActive
<1> HIDE DEF more
<1>3. CASE /\ d' = [d EXCEPT !.active = FALSE, !.actions = None, !.interpretation = None,
                            !.source_received = NoCustody, !.source_index = None,
                            !.ingress = "None", !.retirement_input = NoInput]
           /\ host' = more
  BY ZenonT(60), <1>1, <1>3 DEF DriverType, SameControl, more
<1>4. CASE d' = [d EXCEPT !.active = FALSE] /\ host' = host
  BY ZenonT(60), <1>1, <1>4 DEF DriverType, SameControl
<1> QED
  BY Zenon, <1>2, <1>3, <1>4

\* The residual acquires what the host holds; a returned barrier moves no slot.
LEMMA BarrierEffect ==
    ASSUME IInv, HostRepliesResidual \/ RetireReturns
    PROVE  /\ SameControl(d, d') /\ SameQueue(d, d') /\ SameSource(d, d')
           /\ d'.environment = d.environment /\ d'.actions = d.actions /\ d'.activation = d.activation
           /\ d'.interpretation = d.interpretation
           /\ \/ d'.residual = [acquired |-> TRUE, of |-> host] /\ HostRepliesResidual
              \/ d'.residual = d.residual /\ RetireReturns
<1>1. d \in DriverType
  BY DEF IInv, TypeOK
<1>2. CASE HostRepliesResidual
  <2> DEFINE x == [acquired |-> TRUE, of |-> host]
  <2>1. d' = [d EXCEPT !.residual = x]
    BY Zenon, <1>2 DEF HostRepliesResidual
  <2> HIDE DEF x
  <2>2. SameControl(d, d') /\ SameQueue(d, d') /\ SameSource(d, d')
           /\ d'.environment = d.environment /\ d'.actions = d.actions /\ d'.activation = d.activation
           /\ d'.interpretation = d.interpretation /\ d'.residual = x
    BY ZenonT(30), <1>1, <2>1 DEF DriverType, SameControl, SameQueue, SameSource
  <2> QED
    BY Zenon, <1>2, <2>2 DEF x
<1>3. CASE RetireReturns
  <2>1. PICK x : d' = [d EXCEPT !.additional_failures = x]
    BY ZenonT(30), <1>3 DEF RetireReturns
  <2> QED
    BY ZenonT(30), <1>1, <1>3, <2>1 DEF DriverType, SameControl, SameQueue, SameSource
<1> QED
  BY Zenon, <1>2, <1>3

\* ExecutionPhase::Retiring moves nothing but what Collected moves.
LEMMA RetireEffect ==
    ASSUME IInv, Retire
    PROVE  \E t : /\ t = d \/ (t = Collected(d) /\ ~(d.source_input # None /\ d.source_received # NoCustody))
                  /\ d'.phase \in Ended /\ d'.disposition = d.disposition /\ d'.decision = t.decision
                  /\ SameQueue(t, d') /\ SameSource(t, d')
                  /\ d'.environment = t.environment /\ d'.actions = t.actions /\ d'.activation = t.activation
                  /\ d'.interpretation = t.interpretation /\ d'.residual = t.residual
                  /\ d'.residual.acquired => d'.phase = d.phase
<1>1. d \in DriverType /\ d.phase = "Retiring" /\ IndexInQueue
  BY DEF IInv, TypeOK, Retire
<1>2. CASE d' = d
  BY Zenon, <1>1, <1>2 DEF SameQueue, SameSource, Ended
<1>3. CASE ~(d.source_input # None /\ d.source_received # NoCustody)
  <2> DEFINE t == Collected(d)
  <2>1. t \in DriverType /\ t.phase = "Retiring" /\ t.disposition = d.disposition
    BY Zenon, <1>1, <1>3, CollectedLemma
  <2>2. \/ d' = t
        \/ d' = [t EXCEPT !.phase = "RetirementAttempted"] /\ ~t.residual.acquired
    BY Zenon, <1>3 DEF Retire
  <2> HIDE DEF t
  <2>3. /\ d'.phase \in Ended /\ d'.disposition = d.disposition /\ d'.decision = t.decision
        /\ SameQueue(t, d') /\ SameSource(t, d')
        /\ d'.environment = t.environment /\ d'.actions = t.actions /\ d'.activation = t.activation
        /\ d'.interpretation = t.interpretation /\ d'.residual = t.residual
        /\ d'.residual.acquired => d'.phase = d.phase
    BY ZenonT(60), <1>1, <2>1, <2>2 DEF DriverType, SameQueue, SameSource, Ended
  <2> QED
    BY Zenon, <1>3, <2>3 DEF t
<1> QED
  BY Zenon, <1>2, <1>3 DEF Retire
=============================================================================
