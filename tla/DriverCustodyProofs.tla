------------------------ MODULE DriverCustodyProofs ------------------------
(***************************************************************************)
(* One decision at a time, and custody of every decision's product, for    *)
(* every bound and every host, when no caller drops the future at the      *)
(* await that commits a turn: the run driver_cancelled_apply shows that    *)
(* the assumption is needed.                                               *)
(***************************************************************************)
EXTENDS DriverProofs

\* A leaf that names no prover is tried with SMT, then Zenon, then SMT twice more with more time.
USE SMTT(20), Zenon, SMTT(40), SMTT(60)

-----------------------------------------------------------------------------
(* One decision at a time *)

\* A decision is outstanding from its fold until its interpretation is classified, and
\* no event is requested before that.
TurnInv ==
    /\ d.phase = "Prepared" => d.decision = "None" /\ turn = None
    /\ d.phase = "Activating" => turn = 0
    /\ d.phase \in Running /\ d.decision # "None" => d.interpretation # None \/ pc = "apply"
    /\ pc \in {"nextSource", "next", "fold"} => d.interpretation = None

\* Between the cancellable awaits, moving the future moves no decision.
LEMMA CallerTurn ==
    ASSUME "apply" \notin CancelPoints, IInv, TurnInv,
           Loan \/ Cancel \/ ReceiveAgain \/ Finished \/ Deliver \/ CallActivate \/ CallOffer
                \/ CallNext \/ AlreadyAttempted
    PROVE  d' = d /\ turn' = turn /\ TurnInv'
<1>1. d' = d /\ turn' = turn
  BY DEF Loan, Cancel, ReceiveAgain, Finished, Deliver, CallActivate, CallOffer, CallNext,
         AlreadyAttempted, vars
<1>2. pc' \in {"nextSource", "next", "fold"} => d.interpretation = None
  BY DEF TurnInv, Loan, Cancel, ReceiveAgain, Finished, Deliver, CallActivate, CallOffer, CallNext,
         AlreadyAttempted, Turning, Goto, vars
<1>3. pc = "apply" /\ d.phase \in Running => pc' = "apply"
  BY DEF Loan, Cancel, ReceiveAgain, Finished, Deliver, CallActivate, CallOffer, CallNext,
         AlreadyAttempted, Turning, Goto, vars
<1> QED
  BY <1>1, <1>2, <1>3 DEF TurnInv

\* The stage CausalTurns gives this state.
StageOf(s) == IF s.disposition # "None" THEN "ended"
              ELSE IF s.phase = "Prepared" THEN "new"
              ELSE IF s.decision # "None" THEN "committing" ELSE "ready"

\* A step of the abstract protocol, or one it does not see.
TurnStep ==
    \/ StageOf(d') = StageOf(d) /\ turn' = turn
    \/ StageOf(d) = "new" /\ StageOf(d') \in {"committing", "ended"} /\ turn' = 0
    \/ StageOf(d) = "committing" /\ StageOf(d') \in {"ready", "ended"} /\ turn' = turn
    \/ StageOf(d) = "ready" /\ StageOf(d') \in {"committing", "ended"} /\ turn' = turn + 1
    \/ StageOf(d) # "ended" /\ StageOf(d') = "ended" /\ turn' = turn

\* behavior::initialize begins turn 0, or ends the protocol.
LEMMA InitializeTurn ==
    ASSUME IInv, TurnInv, Initialize
    PROVE  TurnInv' /\ TurnStep
<1>1. d.phase = "Prepared" /\ d.disposition = "None" /\ pc' = "loop" /\ turn' = 0
  BY DEF IInv, DispositionPhase, Initialize, Ended
<1>2. \/ d'.phase = "Activating" /\ d'.disposition = "None" /\ d'.decision # "None"
      \/ d'.phase = "Retiring" /\ d'.disposition # "None"
  BY Zenon, InitializeEffect DEF Stopping
<1> QED
  BY <1>1, <1>2 DEF TurnInv, TurnStep, StageOf, Running

\* Steps that keep the decision, or end it.
LEMMA QuietTurn ==
    ASSUME IInv, TurnInv, turn' = turn, d'.phase # "Prepared", d.phase # "Prepared",
           \/ d'.phase \in Ended /\ d'.disposition # "None"
           \/ /\ d'.disposition = d.disposition /\ d'.decision = d.decision
              /\ d'.phase = "Activating" => d.phase = "Activating"
              /\ d'.phase \in Running /\ d'.decision # "None" => d'.interpretation # None \/ pc' = "apply",
           pc' \in {"nextSource", "next", "fold"} => d'.interpretation = None
    PROVE  TurnInv' /\ TurnStep
BY DEF TurnInv, TurnStep, StageOf, Running, Ended

\* Activation keeps the decision of turn 0, or ends the protocol.
LEMMA ActivationTurn ==
    ASSUME IInv, TurnInv, HostTakesEnvironment \/ HostRepliesActivation \/ ActivateReturns
    PROVE  TurnInv' /\ TurnStep
<1>1. d.phase = "Activating" /\ turn' = turn /\ pc' \in {"activate", "loop"}
  BY DEF IInv, PcPhase, HostTakesEnvironment, HostRepliesActivation, ActivateReturns, Goto
<1>2. CASE HostTakesEnvironment \/ HostRepliesActivation
  <2>1. SameControl(d, d')
    BY Zenon, <1>2, TakesEnvironmentEffect, RepliesActivationEffect
  <2> QED
    BY <1>1, <2>1, QuietTurn DEF SameControl, Running
<1>3. CASE ActivateReturns
  <2>1. d.disposition = "None"
    BY <1>1 DEF IInv, DispositionPhase, Ended
  <2>2. \/ d'.phase = "Retiring" /\ d'.disposition # "None"
        \/ d'.phase = "Initializing" /\ d'.disposition = "None" /\ d'.decision = d.decision
             /\ d'.interpretation = 0
    BY ZenonT(30), <1>3, ActivateEffect DEF Stopping
  <2> QED
    BY <1>1, <2>1, <2>2, QuietTurn DEF Running, Ended, None
<1> QED
  BY Zenon, <1>2, <1>3

\* Classification commits the decision, or ends the protocol.
LEMMA ClassifyTurn ==
    ASSUME IInv, TurnInv, Classify
    PROVE  TurnInv' /\ TurnStep
<1>1. d.phase \in Running /\ turn' = turn /\ pc' = "loop" /\ d.disposition = "None"
  BY DEF Classify, IInv, DispositionPhase, Running, Ended
<1>2. \/ d'.phase = "Retiring" /\ d'.disposition # "None"
      \/ d'.decision = "None" /\ d'.phase \in Running /\ d'.disposition = "None"
  BY ZenonT(30), ClassifyEffect DEF Stopping
<1> QED
  BY <1>1, <1>2 DEF TurnInv, TurnStep, StageOf, Running

\* Settlement custody moves no decision.
LEMMA SettlementTurn ==
    ASSUME IInv, TurnInv,
           SelectOffer \/ HostTakesSource \/ HostRepliesSource \/ OfferReturns \/ ReceiveAcquired \/ SelectAwait
    PROVE  TurnInv' /\ TurnStep
<1>1. d.phase \in Running /\ turn' = turn /\ d.disposition = "None"
      /\ pc' \in {"loop", "offer", "nextSource"} /\ pc \in {"loop", "offer"}
  BY ZenonT(60) DEF IInv, PcPhase, DispositionPhase, SelectOffer, HostTakesSource, HostRepliesSource, OfferReturns,
         ReceiveAcquired, SelectAwait, Turning, Goto, Running, Ended
<1>2. pc' = "nextSource" => d.interpretation = None
  BY Zenon, <1>1 DEF SelectOffer, HostTakesSource, HostRepliesSource, OfferReturns,
         ReceiveAcquired, SelectAwait, Turning, Goto
<1>3. \/ d'.phase = "Retiring" /\ d'.disposition # "None" /\ d'.interpretation = d.interpretation
      \/ /\ d'.phase = d.phase /\ d'.disposition = d.disposition /\ d'.decision = d.decision
         /\ d'.interpretation = d.interpretation
  <2>1. CASE SelectOffer \/ SelectAwait
    BY Zenon, <2>1, SelectOfferEffect, SelectAwaitEffect
  <2>2. CASE HostTakesSource \/ HostRepliesSource
    BY Zenon, <2>2, HostSourceEffect DEF SameControl
  <2>3. CASE OfferReturns \/ ReceiveAcquired
    BY ZenonT(30), <2>3, SourceEffect DEF GoesOn, Stopping, SameSlots
  <2> QED
    BY Zenon, <2>1, <2>2, <2>3
<1>4. d.decision # "None" => d.interpretation # None
  BY <1>1 DEF TurnInv
<1> QED
  BY <1>1, <1>2, <1>3, <1>4, QuietTurn DEF Running, Ended

\* Publication and event requests happen with no decision outstanding.
LEMMA EventTurn ==
    ASSUME IInv, TurnInv, Publish \/ IngressReturns
    PROVE  TurnInv' /\ TurnStep
<1>1. d.phase \in Running /\ turn' = turn /\ d.disposition = "None" /\ d.interpretation = None
      /\ pc # "apply"
  BY DEF IInv, PcPhase, DispositionPhase, TurnInv, Publish, IngressReturns, Turning, Running, Ended
<1>2. d.decision = "None"
  BY <1>1 DEF TurnInv
<1>3. /\ d'.decision = d.decision /\ d'.interpretation = d.interpretation
      /\ \/ d'.phase = "Retiring" /\ d'.disposition # "None"
         \/ d'.phase \in Running /\ d'.disposition = d.disposition
  BY ZenonT(30), <1>1, PublishEffect, IngressEffect DEF SameButIngress, GoesOn, Running
<1> QED
  BY <1>1, <1>2, <1>3, QuietTurn DEF Running, Ended

\* A fold begins the next turn, or ends the protocol.
LEMMA FoldTurn ==
    ASSUME IInv, TurnInv, Fold \/ NoEvent
    PROVE  TurnInv' /\ TurnStep
<1>1. d.phase \in Running /\ pc = "fold" /\ d.disposition = "None" /\ d.interpretation = None
      /\ turn \in Int
  BY FoldEffect, MaxTurnsAssumption DEF IInv, TypeOK, DispositionPhase, TurnInv, Running, Ended, Slot, Turns, None
<1>2. d.decision = "None"
  BY <1>1 DEF TurnInv
<1>3. \/ /\ turn' = turn + 1 /\ pc' = "apply" /\ d'.decision # "None" /\ d'.interpretation = d.interpretation
         /\ d'.phase = d.phase /\ d'.disposition = d.disposition
      \/ /\ d'.phase = "Retiring" /\ d'.disposition # "None" /\ pc' = "loop"
         /\ turn' = turn + 1 \/ turn' = turn
  BY ZenonT(30), FoldEffect DEF SameButIngress
<1> QED
  BY <1>1, <1>2, <1>3 DEF TurnInv, TurnStep, StageOf, Running

\* apply keeps its decision until it returns an interpretation.
LEMMA ApplyTurn ==
    ASSUME IInv, TurnInv, HostTakesActions \/ HostRepliesInterpretation \/ ApplyReturns
    PROVE  TurnInv' /\ TurnStep
<1>1. d.phase \in Running /\ turn' = turn /\ d.disposition = "None" /\ pc = "apply" /\ pc' \in {"apply", "loop"}
      /\ (HostTakesActions \/ HostRepliesInterpretation => pc' = "apply")
  BY DEF IInv, PcPhase, DispositionPhase, HostTakesActions, HostRepliesInterpretation, ApplyReturns, Goto,
         Running, Ended
<1>2. CASE HostTakesActions \/ HostRepliesInterpretation
  <2>1. SameControl(d, d')
    BY Zenon, <1>2, HostActionsEffect
  <2> QED
    BY <1>1, <1>2, <2>1, QuietTurn DEF SameControl, Running, Ended
<1>3. CASE ApplyReturns
  <2>1. \/ d'.phase = "Retiring" /\ d'.disposition # "None"
        \/ d' = d /\ d.interpretation # None
    BY Zenon, <1>3, ApplyEffect DEF Stopping
  <2> QED
    BY <1>1, <2>1, QuietTurn DEF Running, Ended
<1> QED
  BY ZenonT(60), <1>2, <1>3

\* Retirement happens after the protocol ended.
LEMMA RetirementTurn ==
    ASSUME IInv, TurnInv,
           Retire \/ HostTakesPrepared \/ HostTakesActive \/ HostRepliesResidual \/ RetireReturns
    PROVE  TurnInv' /\ TurnStep
<1>1. d.phase \in Ended /\ turn' = turn /\ d.disposition # "None"
      /\ pc' \notin {"nextSource", "next", "fold"}
  BY DEF IInv, PcPhase, DispositionPhase, Retire, HostTakesPrepared, HostTakesActive, HostRepliesResidual,
         RetireReturns, Goto, Ended
<1>2. d'.phase \in Ended /\ d'.disposition = d.disposition
  <2>1. CASE Retire
    BY Zenon, <2>1, RetireEffect
  <2>2. CASE HostTakesPrepared \/ HostTakesActive \/ HostRepliesResidual \/ RetireReturns
    BY Zenon, <1>1, <2>2, TakesEnvironmentEffect, TakesActiveEffect, BarrierEffect DEF SameControl
  <2> QED
    BY Zenon, <2>1, <2>2
<1> QED
  BY <1>1, <1>2, QuietTurn DEF Ended

\* Every step of the Driver is a step of the protocol, or one it does not see.
LEMMA NextTurn ==
    ASSUME "apply" \notin CancelPoints, IInv, TurnInv, [Next]_vars
    PROVE  TurnInv' /\ TurnStep
<1>1. CASE UNCHANGED vars
  <2>1. d' = d /\ pc' = pc /\ turn' = turn
    BY Zenon, <1>1 DEF vars
  <2> QED
    BY Zenon, <2>1 DEF TurnInv, TurnStep
<1>2. CASE Loan \/ Cancel \/ ReceiveAgain \/ Finished \/ Deliver \/ CallActivate \/ CallOffer
                \/ CallNext \/ AlreadyAttempted
  <2>1. d' = d /\ turn' = turn /\ TurnInv'
    BY Zenon, <1>2, CallerTurn
  <2> QED
    BY Zenon, <2>1 DEF TurnStep
<1> QED
  BY ZenonT(60), <1>1, <1>2, InitializeTurn, ActivationTurn, ClassifyTurn, SettlementTurn, EventTurn, FoldTurn,
     ApplyTurn, RetirementTurn DEF Next, Drive, HostReplies, HostReturns

\* D-TURN-1: for every bound and every host, drive implements the protocol of one decision
\* at a time, when the caller does not drop the future inside apply: an event is folded
\* only after the interpretation of the decision before it was classified.
THEOREM TurnsRefined ==
    ASSUME "apply" \notin CancelPoints
    PROVE  Spec => OneCausalTurn
<1>1. Init => TurnInv /\ Turns1!Init
  BY DEF Init, TurnInv, Turns1!Init, Running, None
<1>2. IInv /\ TurnInv /\ [Next]_vars => TurnInv' /\ [Turns1!Next]_(Turns1!vars)
  <2> SUFFICES ASSUME IInv, TurnInv, [Next]_vars
               PROVE  TurnInv' /\ [Turns1!Next]_(Turns1!vars)
    BY Zenon
  <2>1. TurnInv' /\ TurnStep
    BY Zenon, NextTurn
  <2>2. [Turns1!Next]_(Turns1!vars)
    BY <2>1 DEF TurnStep, StageOf, Turns1!Next, Turns1!Begin, Turns1!Commit, Turns1!Turn, Turns1!End, Turns1!vars
  <2> QED
    BY Zenon, <2>1, <2>2
<1> QED
  BY <1>1, <1>2, Inductive, PTL DEF Spec, OneCausalTurn, Turns1!Spec

-----------------------------------------------------------------------------
(* The products the slots own *)

\* The turns a queue of rows, and a retirement input, hold the products of.
OfRows(q) == {q[i].of : i \in 1 .. Len(q)}
OfList(l) == IF l = NoInput THEN {} ELSE Range(l)

\* A row in front of a queue adds its turn.
LEMMA OfRowsCons ==
    ASSUME NEW q \in Seq(Rows), NEW row \in Rows
    PROVE  OfRows(<<row>> \o q) = OfRows(q) \cup {row.of}
<1> DEFINE e == <<row>> \o q
<1>1. Len(e) = Len(q) + 1 /\ Len(q) \in Nat /\ \A j \in 1 .. (Len(q) + 1) : e[j] = IF j = 1 THEN row ELSE q[j - 1]
  OBVIOUS
<1> HIDE DEF e
<1>2. ASSUME NEW x \in OfRows(e) PROVE x \in OfRows(q) \cup {row.of}
  <2>1. PICK j \in 1 .. (Len(q) + 1) : x = e[j].of
    BY <1>1 DEF OfRows
  <2>2. CASE j = 1
    BY <1>1, <2>1, <2>2
  <2>3. CASE j # 1
    <3>1. j - 1 \in 1 .. Len(q) /\ x = q[j - 1].of
      BY <1>1, <2>1, <2>3
    <3> QED
      BY Zenon, <3>1 DEF OfRows
  <2> QED
    BY Zenon, <2>2, <2>3
<1>3. ASSUME NEW x \in OfRows(q) \cup {row.of} PROVE x \in OfRows(e)
  <2>1. CASE x = row.of
    <3>1. 1 \in 1 .. Len(e) /\ e[1] = row
      BY <1>1
    <3> QED
      BY Zenon, <2>1, <3>1 DEF OfRows
  <2>2. CASE x \in OfRows(q)
    <3>1. PICK j \in 1 .. Len(q) : x = q[j].of
      BY Zenon, <2>2 DEF OfRows
    <3>2. j + 1 \in 1 .. Len(e) /\ e[j + 1] = q[j]
      BY <1>1, <3>1
    <3> QED
      BY Zenon, <3>1, <3>2 DEF OfRows
  <2> QED
    BY Zenon, <1>3, <2>1, <2>2
<1> QED
  BY Zenon, <1>2, <1>3 DEF e

\* A row inserted into a queue adds its turn.
LEMMA OfRowsInsert ==
    ASSUME NEW q \in Seq(Rows), NEW i \in 1 .. (Len(q) + 1), NEW row \in Rows
    PROVE  OfRows(InsertAt(q, i, row)) = OfRows(q) \cup {row.of}
<1> DEFINE e == InsertAt(q, i, row)
<1>1. Len(e) = Len(q) + 1 /\ \A j \in 1 .. (Len(q) + 1) : e[j] = IF j < i THEN q[j] ELSE IF j = i THEN row ELSE q[j - 1]
  <2>1. RowAt(InsertAt(q, i, row), q, i, row)
    BY Zenon, RowInserted
  <2> QED
    BY Zenon, <2>1 DEF RowAt
<1>0. Len(q) \in Nat
  OBVIOUS
<1> HIDE DEF e
<1>2. ASSUME NEW x \in OfRows(e) PROVE x \in OfRows(q) \cup {row.of}
  <2>1. PICK j \in 1 .. (Len(q) + 1) : x = e[j].of
    BY Zenon, <1>1 DEF OfRows
  <2>2. CASE j = i
    BY <1>1, <2>1, <2>2
  <2>3. CASE j < i
    <3>1. j \in 1 .. Len(q) /\ x = q[j].of
      BY <1>0, <1>1, <2>1, <2>3
    <3> QED
      BY Zenon, <3>1 DEF OfRows
  <2>4. CASE j > i
    <3>1. j - 1 \in 1 .. Len(q) /\ x = q[j - 1].of
      BY <1>0, <1>1, <2>1, <2>4
    <3> QED
      BY Zenon, <3>1 DEF OfRows
  <2> QED
    BY <1>0, <2>2, <2>3, <2>4
<1>3. ASSUME NEW x \in OfRows(q) \cup {row.of} PROVE x \in OfRows(e)
  <2>1. CASE x = row.of
    <3>1. i \in 1 .. Len(e) /\ e[i] = row
      BY <1>0, <1>1
    <3> QED
      BY Zenon, <2>1, <3>1 DEF OfRows
  <2>2. CASE x \in OfRows(q)
    <3>1. PICK j \in 1 .. Len(q) : x = q[j].of
      BY Zenon, <2>2 DEF OfRows
    <3>2. CASE j < i
      <4>1. j \in 1 .. Len(e) /\ e[j] = q[j]
        BY <1>0, <1>1, <3>1, <3>2
      <4> QED
        BY Zenon, <3>1, <4>1 DEF OfRows
    <3>3. CASE j >= i
      <4>1. j + 1 \in 1 .. Len(e) /\ e[j + 1] = q[j]
        BY <1>0, <1>1, <3>1, <3>3
      <4> QED
        BY Zenon, <3>1, <4>1 DEF OfRows
    <3> QED
      BY <1>0, <3>2, <3>3
  <2> QED
    BY Zenon, <1>3, <2>1, <2>2
<1> QED
  BY Zenon, <1>2, <1>3 DEF e

\* A row removed from a queue takes at most its own turn away.
LEMMA OfRowsRemove ==
    ASSUME NEW q \in Seq(Rows), NEW i \in 1 .. Len(q)
    PROVE  OfRows(q) \subseteq OfRows(RemoveAt(q, i)) \cup {q[i].of}
<1> DEFINE e == RemoveAt(q, i)
<1>1. Len(e) = Len(q) - 1 /\ \A j \in 1 .. (Len(q) - 1) : e[j] = IF j < i THEN q[j] ELSE q[j + 1]
  BY Zenon, RemoveAtElements
<1>0. Len(q) \in Nat
  OBVIOUS
<1> HIDE DEF e
<1>2. ASSUME NEW x \in OfRows(q) PROVE x \in OfRows(e) \cup {q[i].of}
  <2>1. PICK j \in 1 .. Len(q) : x = q[j].of
    BY Zenon DEF OfRows
  <2>2. CASE j = i
    BY <2>1, <2>2
  <2>3. CASE j < i
    <3>1. j \in 1 .. Len(e) /\ x = e[j].of
      BY <1>0, <1>1, <2>1, <2>3
    <3> QED
      BY Zenon, <3>1 DEF OfRows
  <2>4. CASE j > i
    <3> DEFINE k == j - 1
    <3>1. k \in 1 .. (Len(q) - 1) /\ ~(k < i) /\ k + 1 = j
      BY <1>0, <2>4
    <3> HIDE DEF k
    <3>2. k \in 1 .. Len(e) /\ x = e[k].of
      BY <1>1, <2>1, <3>1
    <3> QED
      BY Zenon, <3>2 DEF OfRows
  <2> QED
    BY <1>0, <2>2, <2>3, <2>4
<1> QED
  BY Zenon, <1>2 DEF e

\* Offering a row again changes no turn.
LEMMA OfRowsOffer ==
    ASSUME NEW q \in Seq(Rows), NEW i \in 1 .. Len(q)
    PROVE  OfRows([q EXCEPT ![i] = [q[i] EXCEPT !.turn = "Offer"]]) = OfRows(q)
<1> DEFINE r == [q[i] EXCEPT !.turn = "Offer"]
           e == [q EXCEPT ![i] = r]
<1>1. r.of = q[i].of
  <2>1. q[i] \in Rows
    BY Zenon, ElementOfSeq
  <2> QED
    BY <2>1 DEF Rows
<1> HIDE DEF r
<1>2. Len(e) = Len(q) /\ \A j \in 1 .. Len(q) : e[j] = IF j = i THEN r ELSE q[j]
  OBVIOUS
<1> HIDE DEF e
<1>3. \A j \in 1 .. Len(q) : e[j].of = q[j].of
  BY Zenon, <1>1, <1>2
<1>4. OfRows(e) = OfRows(q)
  BY Zenon, <1>2, <1>3 DEF OfRows
<1> QED
  BY Zenon, <1>4 DEF e, r

\* The list of a queue holds the turns of its rows.
LEMMA OfListRows ==
    ASSUME NEW q \in Seq(Rows)
    PROVE  Range([i \in 1 .. Len(q) |-> q[i].of]) = OfRows(q)
BY Zenon DEF Range, OfRows

\* What the slots hold, and everything that owns a product.
Held(s) ==
    {s.actions, s.interpretation, s.source_input, s.source_received.of}
    \cup (IF s.activation = "None" THEN {} ELSE {0})
    \cup OfRows(s.settlements) \cup OfList(s.retirement_input) \cup s.residual.of
Owned == Held(d) \cup host \cup spent \cup lost
Covered == \A t \in 0 .. turn : t \in Owned

SourceEmpty(s) == s.source_input = None /\ s.source_received = NoCustody

\* Which slots are empty where the loop, or the host, is about to fill them.
SlotsInv ==
    /\ d.phase \in {"Prepared", "Activating"} =>
          /\ d.interpretation = None /\ d.source_index = None /\ d.settlements = <<>>
          /\ d.actions \in {None, 0} /\ host \subseteq {0}
    /\ d.phase = "Prepared" \/ (d.phase = "Activating" /\ d.activation # "None") => host = {}
    /\ d.source_index = None /\ d.phase \notin Ended => SourceEmpty(d)
    /\ d.phase \in Running /\ d.actions # None => pc = "apply"
    /\ d.phase \notin Ended => d.residual = NoResidual
    /\ ~d.residual.acquired => d.residual.of = {}
    /\ d.residual.acquired => host = {} /\ (d.phase = "RetirementAttempted" \/ d.disposition = "Activation")
    /\ reply = "Ok" => Ready(d)

\* Moving the future moves no slot; a dropped one takes with it what the host had moved in.
LEMMA CallerCustody ==
    ASSUME "apply" \notin CancelPoints, IInv, SlotsInv, Covered,
           Loan \/ Cancel \/ ReceiveAgain \/ Finished \/ Deliver \/ CallActivate \/ CallOffer
                \/ CallNext \/ AlreadyAttempted
    PROVE  SlotsInv' /\ Covered'
<1>1. d' = d /\ turn' = turn /\ spent' = spent
  BY DEF Loan, Cancel, ReceiveAgain, Finished, Deliver, CallActivate, CallOffer, CallNext,
         AlreadyAttempted, custody, vars
<1>2. pc = "apply" /\ d.phase \in Running => pc' = "apply"
  BY DEF Loan, Cancel, ReceiveAgain, Finished, Deliver, CallActivate, CallOffer, CallNext,
         AlreadyAttempted, Turning, Goto, vars
<1>3. host' \subseteq host /\ host \cup lost \subseteq host' \cup lost'
  BY DEF Loan, Cancel, ReceiveAgain, Finished, Deliver, CallActivate, CallOffer, CallNext,
         AlreadyAttempted, custody, vars
<1>4. reply' = "Ok" => Ready(d)
  BY DEF SlotsInv, Loan, Cancel, ReceiveAgain, Finished, Deliver, CallActivate, CallOffer, CallNext,
         AlreadyAttempted, vars
<1>5. SlotsInv'
  BY Zenon, <1>1, <1>2, <1>3, <1>4 DEF SlotsInv, SourceEmpty, Ready
<1>6. Covered'
  BY Zenon, <1>1, <1>3 DEF Covered, Owned
<1> QED
  BY Zenon, <1>5, <1>6

\* Selecting retirement moves nothing, whatever the step adds to what was discharged.
LEMMA StopCustody ==
    ASSUME IInv, SlotsInv, Covered, d.phase \notin Ended, SameButIngress(d, d'), d'.phase = "Retiring",
           reply' = reply, host' \subseteq host, host \cup lost \subseteq host' \cup lost',
           spent \subseteq spent', \A t \in 0 .. turn' : t \in 0 .. turn \/ t \in spent'
    PROVE  SlotsInv' /\ Covered'
<1>1. reply' # "Ok" /\ d.residual = NoResidual
  BY DEF IInv, PcPhase, SlotsInv, Ended
<1>2. SlotsInv'
  BY <1>1 DEF SlotsInv, SameButIngress, Ended, Running, NoResidual
<1>3. Held(d') = Held(d)
  BY Zenon DEF Held, SameButIngress
<1>4. Covered'
  BY Zenon, <1>3 DEF Covered, Owned
<1> QED
  BY Zenon, <1>2, <1>4

\* Turn 0: its actions, the activation that takes them, and what it returns.
LEMMA InitializeCustody ==
    ASSUME IInv, TurnInv, SlotsInv, Covered, Initialize
    PROVE  SlotsInv' /\ Covered'
<1>1. /\ d.phase = "Prepared" /\ turn' = 0 /\ turn = None /\ reply' = reply
      /\ host' = host /\ lost' = lost
  BY DEF Initialize, TurnInv
<1>2. 0 .. 0 = {0}
  OBVIOUS
<1>3. CASE Stopping(d, d') /\ spent' = spent \cup {0}
  <2>1. SameButIngress(d, d') /\ d'.phase = "Retiring"
    BY Zenon, <1>3 DEF Stopping, SameSlots, SameButIngress
  <2>2. \A t \in 0 .. turn' : t \in 0 .. turn \/ t \in spent'
    BY Zenon, <1>1, <1>2, <1>3
  <2> QED
    BY Zenon, <1>1, <1>3, <2>1, <2>2, StopCustody DEF Ended
<1>4. CASE ~Stopping(d, d')
  <2>1. /\ d'.phase = "Activating" /\ d'.actions = 0 /\ d'.activation = d.activation
        /\ d'.interpretation = d.interpretation /\ d'.source_input = d.source_input
        /\ d'.source_received = d.source_received /\ d'.source_index = d.source_index
        /\ d'.settlements = d.settlements /\ d'.residual = d.residual
    BY Zenon, <1>4, InitializeEffect
  <2>3. reply' # "Ok"
    BY <1>1 DEF IInv, PcPhase, Ended
  <2>4. SlotsInv'
    BY <1>1, <2>1, <2>3 DEF SlotsInv, SourceEmpty, Ended, Running, NoResidual
  <2>5. 0 \in Held(d')
    BY Zenon, <2>1 DEF Held
  <2> QED
    BY Zenon, <1>1, <1>2, <2>4, <2>5 DEF Covered, Owned
<1> QED
  BY ZenonT(30), <1>3, <1>4, InitializeEffect DEF Stopping

\* The host moves the actions of turn 0 into its work, then into the activation reply.
LEMMA ActivationCustody ==
    ASSUME IInv, TurnInv, SlotsInv, Covered, HostTakesEnvironment \/ HostRepliesActivation
    PROVE  SlotsInv' /\ Covered'
<1>1. /\ d.phase = "Activating" /\ turn' = turn /\ reply' = reply /\ spent' = spent /\ lost' = lost
      /\ pc' = pc /\ d.activation = "None" /\ d.residual = NoResidual /\ reply' # "Ok"
  BY DEF IInv, PcPhase, SlotsInv, HostTakesEnvironment, HostRepliesActivation, Ended
<1>2. SameControl(d, d') /\ SameQueue(d, d') /\ SameSource(d, d')
      /\ d'.interpretation = d.interpretation /\ d'.residual = d.residual
  BY Zenon, TakesEnvironmentEffect, RepliesActivationEffect
<1>3. OfRows(d'.settlements) = OfRows(d.settlements) /\ OfList(d'.retirement_input) = OfList(d.retirement_input)
  BY Zenon, <1>2 DEF SameQueue
<1>4. CASE HostTakesEnvironment
  <2>1. d'.actions = None /\ d'.activation = d.activation /\ host' = host \cup {d.actions} /\ d.actions # None
    BY Zenon, <1>4, TakesEnvironmentEffect DEF HostTakesEnvironment
  <2>2. SlotsInv'
    BY <1>1, <1>2, <2>1 DEF SlotsInv, SourceEmpty, SameControl, SameQueue, SameSource, Running, Ended, NoResidual
  <2>3. Held(d) \subseteq Held(d') \cup host'
    BY ZenonT(30), <1>1, <1>2, <1>3, <2>1 DEF Held, SameSource
  <2>4. Covered'
    BY Zenon, <1>1, <2>1, <2>3 DEF Covered, Owned
  <2> QED
    BY Zenon, <2>2, <2>4
<1>5. CASE HostRepliesActivation
  <2>1. d'.actions = d.actions /\ d'.activation # "None" /\ host' = {}
    BY Zenon, <1>5, RepliesActivationEffect DEF HostRepliesActivation
  <2>2. SlotsInv'
    BY <1>1, <1>2, <2>1 DEF SlotsInv, SourceEmpty, SameControl, SameQueue, SameSource, Running, Ended, NoResidual
  <2>3. host \subseteq {0} /\ 0 \in Held(d')
    BY Zenon, <1>1, <2>1 DEF SlotsInv, Held
  <2>4. Held(d) \subseteq Held(d')
    BY ZenonT(30), <1>1, <1>2, <1>3, <2>1 DEF Held, SameSource
  <2>5. Covered'
    BY Zenon, <1>1, <2>3, <2>4 DEF Covered, Owned
  <2> QED
    BY ZenonT(60), <2>2, <2>5
<1> QED
  BY Zenon, <1>4, <1>5

\* A returned activation leaves the product of turn 0 in a slot or in the residual.
LEMMA ActivatedCustody ==
    ASSUME IInv, TurnInv, SlotsInv, Covered, ActivateReturns
    PROVE  SlotsInv' /\ Covered'
<1>1. /\ d.phase = "Activating" /\ turn' = turn /\ reply' = reply /\ spent' = spent
      /\ turn = 0 /\ d.residual = NoResidual /\ reply' # "Ok"
      /\ host' \subseteq host /\ host \cup lost \subseteq host' \cup lost' /\ pc' = "loop"
  BY DEF IInv, PcPhase, SlotsInv, TurnInv, ActivateReturns, Ended, Goto
<1>2. CASE Stopping(d, d')
  <2>1. SameButIngress(d, d') /\ d'.phase = "Retiring"
    BY Zenon, <1>2 DEF Stopping, SameSlots, SameButIngress
  <2> QED
    BY ZenonT(30), <1>1, <2>1, StopCustody DEF Ended
<1>3. CASE ~Stopping(d, d')
  <2>1. 0 .. 0 = {0}
    OBVIOUS
  <2>2. \/ /\ d.activation = "Ok" /\ d'.actions = None /\ d'.interpretation = 0
           /\ d'.source_input = d.source_input /\ d'.source_received = d.source_received
           /\ d'.source_index = d.source_index /\ d'.residual = d.residual
           /\ d'.phase \in {"Initializing", "Retiring"}
        \/ /\ d.activation = "Err"
           /\ d'.residual = [acquired |-> TRUE, of |-> {0}]
           /\ d'.phase = "Retiring" /\ d'.disposition = "Activation"
    BY ZenonT(30), <1>3, ActivateEffect
  <2>3. host = {}
    BY Zenon, <1>1, <2>2 DEF SlotsInv
  <2>4. 0 \in Held(d')
    <3>1. CASE d'.residual = [acquired |-> TRUE, of |-> {0}]
      <4>1. d'.residual.of = {0}
        BY <3>1
      <4> QED
        BY Zenon, <4>1 DEF Held
    <3>2. CASE d'.interpretation = 0
      BY Zenon, <3>2 DEF Held
    <3> QED
      BY Zenon, <2>2, <3>1, <3>2
  <2>5. SlotsInv'
    BY <1>1, <2>2, <2>3 DEF SlotsInv, SourceEmpty, Running, Ended, NoResidual
  <2> QED
    BY Zenon, <1>1, <2>1, <2>4, <2>5 DEF Covered, Owned
<1> QED
  BY Zenon, <1>2, <1>3

\* A classified interpretation moves to the front of the queue.
LEMMA ClassifyCustody ==
    ASSUME IInv, TurnInv, SlotsInv, Covered, Classify
    PROVE  SlotsInv' /\ Covered'
<1>1. /\ d.phase \in Running /\ d.phase \notin Ended /\ turn' = turn /\ reply' = reply /\ spent' = spent
      /\ host' = host /\ lost' = lost /\ pc = "loop" /\ pc' = "loop" /\ d.interpretation # None
      /\ d.residual = NoResidual /\ reply' # "Ok"
  BY DEF IInv, PcPhase, SlotsInv, Classify, Running, Ended, custody
<1>2. CASE Stopping(d, d')
  <2>1. SameButIngress(d, d') /\ d'.phase = "Retiring"
    BY ZenonT(60), <1>2 DEF Stopping, SameSlots, SameButIngress
  <2> QED
    BY ZenonT(30), <1>1, <2>1, StopCustody DEF Ended
<1>3. CASE ~Stopping(d, d')
  <2> DEFINE row == [turn |-> "Offer", of |-> d.interpretation]
  <2>1. /\ d'.settlements = <<row>> \o d.settlements
        /\ d'.interpretation = None
        /\ d'.actions = d.actions /\ d'.activation = d.activation
        /\ d'.source_input = d.source_input /\ d'.source_received = d.source_received
        /\ d'.source_index = d.source_index
        /\ d'.retirement_input = d.retirement_input /\ d'.residual = d.residual
        /\ d'.phase \in Running \cup {"Retiring"}
    BY ZenonT(30), <1>3, ClassifyEffect
  <2>2. row \in Rows /\ row.of = d.interpretation /\ d.settlements \in Seq(Rows)
    BY <1>1 DEF IInv, TypeOK, DriverType, Rows, Slot
  <2> HIDE DEF row
  <2>3. OfRows(d'.settlements) = OfRows(d.settlements) \cup {d.interpretation}
    BY Zenon, <2>1, <2>2, OfRowsCons
  <2>4. Held(d) \subseteq Held(d')
    BY ZenonT(30), <2>1, <2>3 DEF Held
  <2>5. Covered'
    BY Zenon, <1>1, <2>4 DEF Covered, Owned
  <2>6. SlotsInv'
    BY <1>1, <2>1 DEF SlotsInv, SourceEmpty, Running, Ended, NoResidual
  <2> QED
    BY Zenon, <2>5, <2>6
<1> QED
  BY ZenonT(60), <1>2, <1>3

\* Selecting a row for its source moves it to the source slots, which are empty.
LEMMA SelectCustody ==
    ASSUME IInv, TurnInv, SlotsInv, Covered, SelectOffer \/ SelectAwait
    PROVE  SlotsInv' /\ Covered'
<1>1. /\ d.phase \in Running /\ d.phase \notin Ended /\ turn' = turn /\ reply' = reply /\ spent' = spent
      /\ host' = host /\ lost' = lost /\ pc = "loop" /\ pc' # "apply" /\ d.source_index = None
      /\ d.residual = NoResidual /\ reply' # "Ok" /\ d.actions = None
  BY Zenon DEF IInv, PcPhase, SlotsInv, SelectOffer, SelectAwait, Turning, Running, Ended, custody, Goto
<1>2. SourceEmpty(d) /\ d.settlements \in Seq(Rows)
  BY <1>1 DEF SlotsInv, IInv, TypeOK, DriverType
<1>3. CASE SelectOffer
  <2>1. PICK i \in Progressing(d) :
              /\ d'.source_index = i /\ d'.source_input = d.settlements[i].of
              /\ d'.settlements = RemoveAt(d.settlements, i)
              /\ d'.actions = d.actions /\ d'.activation = d.activation
              /\ d'.interpretation = d.interpretation
              /\ d'.source_received = d.source_received
              /\ d'.retirement_input = d.retirement_input /\ d'.residual = d.residual
              /\ d'.phase = d.phase
    BY Zenon, <1>3, SelectOfferEffect
  <2>2. i \in 1 .. Len(d.settlements) /\ i # None
    BY <1>2 DEF Progressing, None
  <2>3. OfRows(d.settlements) \subseteq OfRows(d'.settlements) \cup {d'.source_input}
    BY Zenon, <1>2, <2>1, <2>2, OfRowsRemove
  <2>4. Held(d) \subseteq Held(d') \cup {None}
    BY ZenonT(30), <1>2, <2>1, <2>3 DEF Held, SourceEmpty
  <2>5. None \notin 0 .. turn
    BY DEF None
  <2>6. Covered'
    BY Zenon, <1>1, <2>4, <2>5 DEF Covered, Owned
  <2>7. SlotsInv'
    BY <1>1, <2>1, <2>2 DEF SlotsInv, Running, Ended, NoResidual
  <2> QED
    BY Zenon, <2>6, <2>7
<1>4. CASE SelectAwait
  <2>1. PICK i \in Progressing(d) :
              /\ d'.settlements = [d.settlements EXCEPT ![i] = [d.settlements[i] EXCEPT !.turn = "Offer"]]
              /\ d'.source_index = d.source_index /\ d'.source_input = d.source_input
              /\ d'.actions = d.actions /\ d'.activation = d.activation
              /\ d'.interpretation = d.interpretation
              /\ d'.source_received = d.source_received
              /\ d'.retirement_input = d.retirement_input /\ d'.residual = d.residual
              /\ d'.phase = d.phase
    BY Zenon, <1>4, SelectAwaitEffect
  <2>2. i \in 1 .. Len(d.settlements)
    BY <1>2 DEF Progressing
  <2>3. OfRows(d'.settlements) = OfRows(d.settlements)
    BY Zenon, <1>2, <2>1, <2>2, OfRowsOffer
  <2>4. Held(d') = Held(d)
    BY ZenonT(30), <2>1, <2>3 DEF Held
  <2>5. Covered'
    BY Zenon, <1>1, <2>4 DEF Covered, Owned
  <2>6. SlotsInv'
    BY <1>1, <1>2, <2>1 DEF SlotsInv, SourceEmpty, Running, Ended, NoResidual
  <2> QED
    BY ZenonT(60), <2>5, <2>6
<1> QED
  BY ZenonT(60), <1>3, <1>4

\* The host takes the offered settlement, or acquires its custody reply.
LEMMA HostSourceCustody ==
    ASSUME IInv, TurnInv, SlotsInv, Covered, HostTakesSource \/ HostRepliesSource
    PROVE  SlotsInv' /\ Covered'
<1>1. /\ d.phase \in Running /\ d.phase \notin Ended /\ turn' = turn /\ reply' = reply /\ spent' = spent
      /\ lost' = lost /\ pc = "offer" /\ pc' = pc /\ d.source_index # None
      /\ d.residual = NoResidual /\ reply' # "Ok"
  BY DEF IInv, PcPhase, SlotsInv, HostTakesSource, HostRepliesSource, Running, Ended
<1>2. /\ SameControl(d, d') /\ SameQueue(d, d')
      /\ d'.actions = d.actions /\ d'.activation = d.activation
      /\ d'.interpretation = d.interpretation /\ d'.residual = d.residual
  BY Zenon, HostSourceEffect
<1>3. OfRows(d'.settlements) = OfRows(d.settlements) /\ OfList(d'.retirement_input) = OfList(d.retirement_input)
  BY Zenon, <1>2 DEF SameQueue
<1>4. SlotsInv'
  BY <1>1, <1>2 DEF SlotsInv, SameControl, SameQueue, Running, Ended, NoResidual
<1>5. None \notin 0 .. turn /\ NoCustody.of = None
  BY DEF None, NoCustody
<1>6. Held(d) \cup host \subseteq Held(d') \cup host' \cup {None}
  <2>1. CASE /\ d'.source_input = None /\ d'.source_received = d.source_received
             /\ host' = host \cup {d.source_input}
    BY ZenonT(60), ZenonT(30), <1>2, <1>3, <2>1 DEF Held
  <2>2. ASSUME NEW t, d.source_received = NoCustody, d'.source_input = d.source_input,
               d'.source_received.of = t, host' = host \ {t}
        PROVE  Held(d) \cup host \subseteq Held(d') \cup host' \cup {None}
    <3>1. Held(d) \subseteq Held(d') \cup {None}
      BY ZenonT(60), ZenonT(30), <1>2, <1>3, <1>5, <2>2 DEF Held
    <3>2. t \in Held(d')
      BY Zenon, <2>2 DEF Held
    <3> QED
      BY Zenon, <2>2, <3>1, <3>2
  <2> QED
    BY Zenon, <2>1, <2>2, HostSourceEffect
<1>7. Covered'
  BY Zenon, <1>1, <1>5, <1>6 DEF Covered, Owned
<1> QED
  BY ZenonT(60), <1>4, <1>7

\* The source branch puts the settlement back, or discharges it.
LEMMA ReceivedCustody ==
    ASSUME IInv, TurnInv, SlotsInv, Covered, OfferReturns \/ ReceiveAcquired
    PROVE  SlotsInv' /\ Covered'
<1>1. /\ d.phase \in Running /\ d.phase \notin Ended /\ turn' = turn /\ reply' = reply
      /\ host' = host /\ lost' = lost /\ pc # "apply" /\ pc' # "apply" /\ d.source_index # None
      /\ d.residual = NoResidual /\ reply' # "Ok" /\ d.actions = None
  BY DEF IInv, PcPhase, SlotsInv, OfferReturns, ReceiveAcquired, Turning, Running, Ended, Goto
<1>2. CASE Stopping(d, d') /\ spent' = spent
  <2>1. SameButIngress(d, d') /\ d'.phase = "Retiring"
    BY Zenon, <1>2 DEF Stopping, SameSlots, SameButIngress
  <2> QED
    BY ZenonT(30), <1>1, <1>2, <2>1, StopCustody DEF Ended
<1>3. CASE ~(Stopping(d, d') /\ spent' = spent)
  <2> DEFINE Back(row) == [turn |-> row, of |-> d.source_received.of]
             P(row) == d'.settlements = InsertAt(d.settlements, d.source_index, Back(row))
  <2>1. /\ d.source_input = None /\ d.source_received # NoCustody
        /\ d'.source_index = None /\ d'.source_received = NoCustody /\ d'.source_input = None
        /\ d'.actions = d.actions /\ d'.activation = d.activation
        /\ d'.interpretation = d.interpretation
        /\ d'.retirement_input = d.retirement_input /\ d'.residual = d.residual
        /\ d'.phase \in {d.phase, "Retiring"}
        /\ \/ d'.settlements = d.settlements /\ spent' = spent \cup {d.source_received.of}
           \/ spent' = spent /\ \E row \in {"Offer", "AwaitSource", "Retained"} : P(row)
    BY ZenonT(60), <1>3, SourceEffect DEF GoesOn
  <2>2. OfRows(d.settlements) \cup {d.source_received.of} \subseteq OfRows(d'.settlements) \cup spent'
    <3>1. ASSUME NEW row \in {"Offer", "AwaitSource", "Retained"}, P(row)
          PROVE  OfRows(d'.settlements) = OfRows(d.settlements) \cup {d.source_received.of}
      <4>1. Back(row) \in Rows /\ Back(row).of = d.source_received.of
        BY <2>1 DEF IInv, TypeOK, DriverType, Receipts, Rows
      <4>2. d.settlements \in Seq(Rows) /\ d.source_index \in 1 .. (Len(d.settlements) + 1)
        BY <1>1 DEF IInv, TypeOK, DriverType, IndexInQueue, OwnerPhase
      <4> DEFINE back == Back(row)
      <4>3. d'.settlements = InsertAt(d.settlements, d.source_index, back)
        BY Zenon, <3>1
      <4>4. back \in Rows /\ back.of = d.source_received.of
        BY Zenon, <4>1
      <4> HIDE DEF back
      <4>5. OfRows(InsertAt(d.settlements, d.source_index, back)) = OfRows(d.settlements) \cup {back.of}
        BY Zenon, <4>2, <4>4, OfRowsInsert
      <4> QED
        BY Zenon, <4>3, <4>4, <4>5
    <3> HIDE DEF P
    <3> QED
      BY Zenon, <2>1, <3>1
  <2> HIDE DEF P
  <2>3. spent \subseteq spent'
    BY Zenon, <2>1
  <2>4. Held(d) \subseteq Held(d') \cup spent'
    BY ZenonT(60), ZenonT(30), <2>1, <2>2 DEF Held
  <2>5. Covered'
    BY Zenon, <1>1, <2>3, <2>4 DEF Covered, Owned
  <2>6. SlotsInv'
    BY <1>1, <2>1 DEF SlotsInv, SourceEmpty, Running, Ended, NoResidual
  <2> QED
    BY Zenon, <2>5, <2>6
<1> QED
  BY Zenon, <1>2, <1>3

\* A step that keeps the slots and stays in a running phase.
LEMMA StayCustody ==
    ASSUME IInv, SlotsInv, Covered, d.phase \in Running, SameButIngress(d, d'), d'.phase \in Running,
           reply' = reply, host' = host, spent' = spent, lost' = lost, turn' = turn, d.actions = None
    PROVE  SlotsInv' /\ Covered'
<1>1. reply' # "Ok" /\ d.residual = NoResidual
  BY DEF IInv, PcPhase, SlotsInv, Ended, Running
<1>2. SlotsInv'
  BY <1>1 DEF SlotsInv, SameButIngress, SourceEmpty, Ended, Running, NoResidual
<1>3. Held(d') = Held(d)
  BY Zenon DEF Held, SameButIngress
<1>4. Covered'
  BY Zenon, <1>3 DEF Covered, Owned
<1> QED
  BY Zenon, <1>2, <1>4

\* Publication and event requests move no product.
LEMMA EventCustody ==
    ASSUME IInv, TurnInv, SlotsInv, Covered, Publish \/ IngressReturns
    PROVE  SlotsInv' /\ Covered'
<1>1. /\ d.phase \in Running /\ d.phase \notin Ended /\ turn' = turn /\ reply' = reply
      /\ host' = host /\ lost' = lost /\ spent' = spent /\ d.actions = None
  BY DEF IInv, PcPhase, SlotsInv, Publish, IngressReturns, Turning, Running, Ended, custody
<1>2. SameButIngress(d, d') /\ (d'.phase = "Retiring" \/ d'.phase \in Running)
  BY Zenon, <1>1, PublishEffect, IngressEffect DEF GoesOn, Running
<1>3. \A t \in 0 .. turn' : t \in 0 .. turn \/ t \in spent'
  BY Zenon, <1>1
<1> QED
  BY Zenon, <1>1, <1>2, <1>3, StopCustody, StayCustody

\* The product of a fold is in the actions slot, or there is none.
LEMMA FoldCustody ==
    ASSUME IInv, TurnInv, SlotsInv, Covered, Fold \/ NoEvent
    PROVE  SlotsInv' /\ Covered'
<1>1. /\ d.phase \in Running /\ d.phase \notin Ended /\ reply' = reply /\ turn \in Int
      /\ host' = host /\ lost' = lost /\ d.actions = None /\ d.residual = NoResidual /\ reply' # "Ok"
  BY FoldEffect, MaxTurnsAssumption
     DEF IInv, TypeOK, PcPhase, SlotsInv, Fold, NoEvent, Running, Ended, custody, Slot, Turns, None
<1>2. \A t \in 0 .. (turn + 1) : t \in 0 .. turn \/ t = turn + 1
  BY <1>1
<1>3. CASE /\ SameButIngress(d, d') /\ d'.phase = "Retiring"
           /\ \/ turn' = turn + 1 /\ spent' = spent \cup {turn + 1}
              \/ turn' = turn /\ spent' = spent
  <2>1. spent \subseteq spent' /\ \A t \in 0 .. turn' : t \in 0 .. turn \/ t \in spent'
    BY Zenon, <1>2, <1>3
  <2> QED
    BY Zenon, <1>1, <1>3, <2>1, StopCustody
<1>4. CASE /\ turn' = turn + 1 /\ pc' = "apply" /\ spent' = spent
           /\ d'.actions = turn + 1
           /\ d'.activation = d.activation
           /\ d'.interpretation = d.interpretation /\ d'.source_input = d.source_input
           /\ d'.source_received = d.source_received /\ d'.source_index = d.source_index
           /\ d'.settlements = d.settlements /\ d'.retirement_input = d.retirement_input
           /\ d'.residual = d.residual /\ d'.phase = d.phase
  <2>1. SlotsInv'
    BY <1>1, <1>4 DEF SlotsInv, SourceEmpty, Ended, Running, NoResidual
  <2>2. Held(d) \subseteq Held(d') \cup {None} /\ turn + 1 \in Held(d')
    BY ZenonT(30), <1>1, <1>4 DEF Held
  <2>3. None \notin 0 .. turn
    BY DEF None
  <2>4. Covered'
    BY ZenonT(60), <1>1, <1>2, <1>4, <2>2, <2>3 DEF Covered, Owned
  <2> QED
    BY ZenonT(60), <2>1, <2>4
<1> QED
  BY ZenonT(30), <1>3, <1>4, FoldEffect

\* The active environment takes the actions and acquires the interpretation.
LEMMA ApplyCustody ==
    ASSUME IInv, TurnInv, SlotsInv, Covered, HostTakesActions \/ HostRepliesInterpretation
    PROVE  SlotsInv' /\ Covered'
<1>1. /\ d.phase \in Running /\ d.phase \notin Ended /\ reply' = reply /\ pc' = "apply"
      /\ lost' = lost /\ spent' = spent /\ turn' = turn /\ d.residual = NoResidual /\ reply' # "Ok"
  BY DEF IInv, PcPhase, SlotsInv, HostTakesActions, HostRepliesInterpretation, Running, Ended
<1>2. /\ SameControl(d, d') /\ SameQueue(d, d') /\ SameSource(d, d')
      /\ d'.activation = d.activation /\ d'.residual = d.residual /\ d.interpretation = None
  BY Zenon, HostActionsEffect
<1>3. OfRows(d'.settlements) = OfRows(d.settlements) /\ OfList(d'.retirement_input) = OfList(d.retirement_input)
      /\ d'.source_input = d.source_input /\ d'.source_received.of = d.source_received.of
  BY Zenon, <1>2 DEF SameQueue, SameSource
<1>4. SlotsInv'
  BY <1>1, <1>2 DEF SlotsInv, SourceEmpty, SameControl, SameQueue, SameSource, Running, Ended, NoResidual
<1>5. None \notin 0 .. turn
  BY DEF None
<1>6. Held(d) \cup host \subseteq Held(d') \cup host' \cup {None}
  <2>1. CASE d'.actions = None /\ d'.interpretation = d.interpretation /\ host' = host \cup {d.actions}
    BY ZenonT(60), ZenonT(30), <1>2, <1>3, <2>1 DEF Held
  <2>2. CASE d'.actions = d.actions /\ d'.interpretation = turn /\ host' = host \ {turn}
    <3>1. Held(d) \subseteq Held(d') \cup {None}
      BY ZenonT(30), <1>2, <1>3, <2>2 DEF Held
    <3>2. turn \in Held(d')
      BY Zenon, <2>2 DEF Held
    <3> QED
      BY Zenon, <2>2, <3>1, <3>2
  <2> QED
    BY Zenon, <2>1, <2>2, HostActionsEffect
<1>7. Covered'
  BY Zenon, <1>1, <1>5, <1>6 DEF Covered, Owned
<1> QED
  BY ZenonT(60), <1>4, <1>7

\* A returned apply moves no product.
LEMMA AppliedCustody ==
    ASSUME IInv, TurnInv, SlotsInv, Covered, ApplyReturns
    PROVE  SlotsInv' /\ Covered'
<1>1. /\ d.phase \in Running /\ d.phase \notin Ended /\ turn' = turn /\ reply' = reply
      /\ host' = host /\ lost' = lost /\ spent' = spent
  BY DEF IInv, PcPhase, ApplyReturns, Running, Ended, custody
<1>2. \A t \in 0 .. turn' : t \in 0 .. turn \/ t \in spent'
  BY Zenon, <1>1
<1>3. CASE Stopping(d, d')
  BY Zenon, <1>1, <1>2, <1>3, StopCustody DEF Stopping, SameSlots, SameButIngress
<1>4. CASE d' = d /\ d.actions = None
  BY Zenon, <1>1, <1>4, StayCustody DEF SameButIngress
<1> QED
  BY Zenon, <1>3, <1>4, ApplyEffect

\* The queue becomes the retirement input, with an unoffered row back in its place.
LEMMA CollectedHeld ==
    ASSUME d \in DriverType, IndexInQueue
    PROVE  Held(d) \subseteq Held(Collected(d)) \cup {None}
<1> DEFINE t == Collected(d)
<1>1. CASE t = d
  BY Zenon, <1>1
<1>2. CASE t # d
  <2>0. d.settlements \in Seq(Rows) /\ d.source_input \in Slot
    BY DEF DriverType
  <2>1. /\ d.retirement_input = NoInput
        /\ t.settlements = <<>> /\ t.retirement_input # NoInput
        /\ t.actions = d.actions /\ t.activation = d.activation
        /\ t.interpretation = d.interpretation
        /\ t.source_received = d.source_received /\ t.residual = d.residual
    BY ZenonT(30), <1>2, CollectedEffect
  <2> DEFINE row == [turn |-> "Retained", of |-> d.source_input]
             rows == InsertAt(d.settlements, d.source_index, row)
  <2>2. \/ /\ d.source_input # None /\ d.source_index # None /\ t.source_input = None
           /\ t.retirement_input = [i \in 1 .. Len(rows) |-> rows[i].of]
        \/ t.source_input = d.source_input /\ t.retirement_input = Queued(d)
    BY ZenonT(30), <1>2, CollectedEffect
  <2> HIDE DEF t
  <2>3. OfRows(d.settlements) \cup {d.source_input} \subseteq OfList(t.retirement_input) \cup {t.source_input}
    <3>1. CASE t.source_input = d.source_input /\ t.retirement_input = Queued(d)
      BY Zenon, <2>0, <2>1, <3>1, OfListRows DEF OfList, Queued
    <3>2. CASE /\ d.source_input # None /\ d.source_index # None
               /\ t.retirement_input = [i \in 1 .. Len(rows) |-> rows[i].of]
      <4>1. row \in Rows /\ row.of = d.source_input
        BY <2>0, <3>2 DEF Rows, Slot
      <4>2. d.source_index \in 1 .. (Len(d.settlements) + 1)
        BY Zenon, <2>1, <3>2 DEF IndexInQueue
      <4> HIDE DEF row
      <4>3. rows \in Seq(Rows) /\ OfRows(rows) = OfRows(d.settlements) \cup {row.of}
        <5>1. rows \in Seq(Rows)
          BY Zenon, <2>0, <4>1, <4>2, RowInserted DEF RowAt
        <5> QED
          BY Zenon, <2>0, <4>1, <4>2, <5>1, OfRowsInsert
      <4> HIDE DEF rows
      <4> QED
        BY ZenonT(60), <2>1, <3>2, <4>1, <4>3, OfListRows DEF OfList
    <3> QED
      BY Zenon, <2>2, <3>1, <3>2
  <2>4. OfList(d.retirement_input) = {}
    BY Zenon, <2>1 DEF OfList
  <2>5. Held(d) \subseteq Held(t)
    BY ZenonT(60), ZenonT(30), <2>1, <2>3, <2>4 DEF Held
  <2> QED
    BY Zenon, <2>5 DEF t
<1> QED
  BY Zenon, <1>1, <1>2

\* Retirement moves products to the list the barrier receives.
LEMMA RetireCustody ==
    ASSUME IInv, TurnInv, SlotsInv, Covered, Retire
    PROVE  SlotsInv' /\ Covered'
<1>1. /\ d.phase \in Ended /\ turn' = turn /\ reply' = reply /\ spent' = spent
      /\ host' = host /\ lost' = lost /\ reply' # "Ok"
  BY DEF IInv, PcPhase, Retire, Ended, custody
<1>2. PICK t : /\ t = d \/ t = Collected(d)
               /\ d'.phase \in Ended /\ d'.disposition = d.disposition
               /\ SameQueue(t, d') /\ SameSource(t, d')
               /\ d'.actions = t.actions /\ d'.activation = t.activation
               /\ d'.interpretation = t.interpretation /\ d'.residual = t.residual
               /\ d'.residual.acquired => d'.phase = d.phase
  BY Zenon, RetireEffect
<1>3. Held(d') = Held(t)
  BY ZenonT(30), <1>2 DEF Held, SameQueue, SameSource
<1>4. d \in DriverType /\ IndexInQueue
  BY Zenon DEF IInv, TypeOK
<1>5. Held(d) \subseteq Held(d') \cup {None}
  BY Zenon, <1>2, <1>3, <1>4, CollectedHeld
<1>6. None \notin 0 .. turn
  BY DEF None
<1>7. Covered'
  BY Zenon, <1>1, <1>5, <1>6 DEF Covered, Owned
<1>8. d'.residual = d.residual
  <2>1. CASE Collected(d) = d
    BY Zenon, <1>2, <2>1
  <2>2. CASE Collected(d) # d
    <3>1. Collected(d).residual = d.residual
      BY ZenonT(30), <1>4, <2>2, CollectedEffect
    <3> QED
      BY Zenon, <1>2, <3>1
  <2> QED
    BY Zenon, <2>1, <2>2
<1>9. SlotsInv'
  BY <1>1, <1>2, <1>8 DEF SlotsInv, Ended, Running
<1> QED
  BY ZenonT(60), <1>7, <1>9

\* The host takes what is loaned to it; a barrier it does not cross keeps the rest.
LEMMA TakesCustody ==
    ASSUME IInv, TurnInv, SlotsInv, Covered, HostTakesPrepared \/ HostTakesActive
    PROVE  SlotsInv' /\ Covered'
<1>1. /\ d.phase \in Ended /\ turn' = turn /\ reply' = reply /\ spent' = spent
      /\ lost' = lost /\ reply' # "Ok" /\ ~d.residual.acquired
  BY DEF IInv, PcPhase, HostTakesPrepared, HostTakesActive, Ended
<1>2. None \notin 0 .. turn /\ NoCustody.of = None /\ NoInput = <<None>>
  BY DEF None, NoCustody, NoInput
<1>3. d'.phase = d.phase /\ d'.activation = d.activation /\ d'.residual = d.residual
      /\ d'.settlements = d.settlements /\ d'.source_input = d.source_input
  BY Zenon, TakesEnvironmentEffect, TakesActiveEffect DEF SameControl, SameQueue, SameSource
<1>4. SlotsInv'
  BY <1>1, <1>3 DEF SlotsInv, Ended, Running
<1>5. Held(d) \cup host \subseteq Held(d') \cup host' \cup {None}
  <2>1. CASE HostTakesPrepared
    <3>1. /\ d'.actions = None /\ d'.interpretation = d.interpretation
          /\ d'.source_received = d.source_received /\ d'.retirement_input = d.retirement_input
      BY Zenon, <2>1, TakesEnvironmentEffect DEF SameQueue, SameSource
    <3>2. host' = host \cup ({d.actions} \ {None})
      BY Zenon, <2>1 DEF HostTakesPrepared
    <3> QED
      BY ZenonT(60), ZenonT(30), <1>3, <3>1, <3>2 DEF Held
  <2>2. CASE HostTakesActive
    <3>1. CASE /\ d'.actions = d.actions /\ d'.interpretation = d.interpretation
               /\ d'.source_received = d.source_received
               /\ d'.retirement_input = d.retirement_input /\ host' = host
      BY ZenonT(30), <1>3, <3>1 DEF Held
    <3>2. CASE host' = host \cup (({d.actions, d.interpretation, d.source_received.of}
                                      \cup Range(d.retirement_input)) \ {None})
      <4>1. OfList(d.retirement_input) \subseteq Range(d.retirement_input)
        BY Zenon DEF OfList
      <4> QED
        BY ZenonT(60), ZenonT(30), <1>3, <3>2, <4>1 DEF Held
    <3> QED
      BY Zenon, <2>2, <3>1, <3>2, TakesActiveEffect
  <2> QED
    BY Zenon, <2>1, <2>2
<1>6. Covered'
  BY Zenon, <1>1, <1>2, <1>5 DEF Covered, Owned
<1> QED
  BY ZenonT(60), <1>4, <1>6

\* The residual owns what the host held; a barrier that unwinds loses it.
LEMMA BarrierCustody ==
    ASSUME IInv, TurnInv, SlotsInv, Covered, HostRepliesResidual \/ RetireReturns
    PROVE  SlotsInv' /\ Covered'
<1>1. /\ d.phase = "RetirementAttempted" /\ turn' = turn /\ reply' = reply /\ spent' = spent
      /\ reply' # "Ok"
  BY DEF IInv, PcPhase, HostRepliesResidual, RetireReturns, Ended
<1>2. /\ d'.phase = d.phase /\ d'.actions = d.actions /\ d'.activation = d.activation
      /\ d'.interpretation = d.interpretation /\ d'.settlements = d.settlements
      /\ d'.retirement_input = d.retirement_input /\ d'.source_input = d.source_input
      /\ d'.source_received = d.source_received
  BY ZenonT(60), BarrierEffect DEF SameControl, SameQueue, SameSource
<1>3. CASE HostRepliesResidual
  <2>1. host' = {} /\ lost' = lost /\ ~d.residual.acquired
    BY Zenon, <1>3 DEF HostRepliesResidual
  <2>2. d'.residual.acquired /\ d'.residual.of = host
    BY <1>3 DEF HostRepliesResidual, IInv, TypeOK, DriverType
  <2>3. d.residual.of = {}
    BY Zenon, <2>1 DEF SlotsInv
  <2>4. Held(d) \cup host \subseteq Held(d')
    BY ZenonT(30), <1>2, <2>2, <2>3 DEF Held
  <2>5. Covered'
    BY ZenonT(60), <1>1, <2>1, <2>4 DEF Covered, Owned
  <2>6. SlotsInv'
    BY <1>1, <1>2, <2>1, <2>2 DEF SlotsInv, Ended, Running
  <2> QED
    BY ZenonT(60), <2>5, <2>6
<1>4. CASE RetireReturns
  <2>1. host' \subseteq host /\ host \cup lost \subseteq host' \cup lost'
    BY Zenon, <1>4 DEF RetireReturns
  <2>2. d'.residual = d.residual
    BY <1>4 DEF RetireReturns, IInv, TypeOK, DriverType
  <2>3. Held(d') = Held(d)
    BY ZenonT(30), <1>2, <2>2 DEF Held
  <2>4. Covered'
    BY Zenon, <1>1, <2>1, <2>3 DEF Covered, Owned
  <2>5. SlotsInv'
    BY <1>1, <1>2, <2>1, <2>2 DEF SlotsInv, Ended, Running
  <2> QED
    BY ZenonT(60), <2>4, <2>5
<1> QED
  BY ZenonT(60), <1>3, <1>4

\* Every step keeps every product owned.
LEMMA NextCustody ==
    ASSUME "apply" \notin CancelPoints, IInv, TurnInv, SlotsInv, Covered, [Next]_vars
    PROVE  SlotsInv' /\ Covered'
<1>1. CASE UNCHANGED vars
  <2>1. /\ d' = d /\ pc' = pc /\ turn' = turn /\ reply' = reply /\ host' = host /\ spent' = spent
        /\ lost' = lost
    BY Zenon, <1>1 DEF vars
  <2> QED
    BY Zenon, <2>1 DEF SlotsInv, SourceEmpty, Ready, Covered, Owned
<1> QED
  BY ZenonT(60), <1>1, CallerCustody, InitializeCustody, ActivationCustody, ActivatedCustody, ClassifyCustody,
     SelectCustody, HostSourceCustody, ReceivedCustody, EventCustody, FoldCustody, ApplyCustody,
     AppliedCustody, RetireCustody, TakesCustody, BarrierCustody DEF Next, Drive, HostReplies, HostReturns

\* The invariant says where every product is, and what a complete reply left behind.
LEMMA CustodyFollows ==
    ASSUME IInv, SlotsInv, Covered
    PROVE  Custody
<1>1. d.settlements \in Seq(Rows)
  BY DEF IInv, TypeOK, DriverType
<1>2. Range(Queued(d)) = OfRows(d.settlements)
  BY Zenon, <1>1, OfListRows DEF Queued
<1>3. OfList(d.retirement_input) = Range(Listed(d))
  BY DEF OfList, Listed, Range
<1>4. ASSUME NEW t \in 0 .. turn
      PROVE  \E i \in DOMAIN Owners : t \in Owners[i]
  <2>1. t # None
    BY DEF None
  <2>2. \/ t \in {d.actions} \ {None} \/ t \in (IF d.activation = "None" THEN {} ELSE {0})
        \/ t \in {d.interpretation} \ {None} \/ t \in {d.source_input} \ {None}
        \/ t \in {d.source_received.of} \ {None} \/ t \in Range(Queued(d)) \/ t \in Range(Listed(d))
        \/ t \in host \/ t \in d.residual.of \/ t \in spent \/ t \in lost
    BY ZenonT(60), ZenonT(30), <1>2, <1>3, <1>4, <2>1 DEF Covered, Owned, Held
  <2>3. /\ DOMAIN Owners = 1 .. 11
        /\ Owners[1] = {d.actions} \ {None} /\ Owners[2] = (IF d.activation = "None" THEN {} ELSE {0})
        /\ Owners[3] = {d.interpretation} \ {None} /\ Owners[4] = {d.source_input} \ {None}
        /\ Owners[5] = {d.source_received.of} \ {None} /\ Owners[6] = Range(Queued(d))
        /\ Owners[7] = Range(Listed(d))
        /\ Owners[8] = host /\ Owners[9] = d.residual.of /\ Owners[10] = spent /\ Owners[11] = lost
    BY DEF Owners
  <2>4. \/ t \in Owners[1] \/ t \in Owners[2] \/ t \in Owners[3] \/ t \in Owners[4] \/ t \in Owners[5]
        \/ t \in Owners[6] \/ t \in Owners[7] \/ t \in Owners[8] \/ t \in Owners[9] \/ t \in Owners[10]
        \/ t \in Owners[11]
    BY Zenon, <2>2, <2>3
  <2>5. DOMAIN Owners = 1 .. 11
    BY Zenon, <2>3
  <2> QED
    BY <2>4, <2>5
<1>5. ASSUME reply = "Ok"
      PROVE  /\ 0 .. turn \subseteq d.residual.of \cup spent \cup lost
             /\ host = {} /\ (calls.retire = 1 \/ d.disposition = "Activation")
  <2>1. Ready(d)
    BY Zenon, <1>5 DEF SlotsInv
  <2>2. host = {} /\ (d.phase = "RetirementAttempted" \/ d.disposition = "Activation")
    BY Zenon, <2>1 DEF SlotsInv, Ready
  <2>3. d.phase = "RetirementAttempted" => calls.retire = 1
    BY DEF IInv, CallsPhase
  <2>4. OfRows(d.settlements) = {}
    BY <2>1 DEF OfRows, Ready
  <2>5. OfList(d.retirement_input) = {} /\ d.source_received.of = None
    BY <2>1 DEF OfList, Ready, NoCustody
  <2>6. Held(d) \subseteq d.residual.of \cup {None}
    BY ZenonT(30), <2>1, <2>4, <2>5 DEF Held, Ready
  <2>7. None \notin 0 .. turn
    BY DEF None
  <2> QED
    BY Zenon, <2>2, <2>3, <2>6, <2>7 DEF Covered, Owned
<1> QED
  BY Zenon, <1>4, <1>5 DEF Custody

\* D-SETTLE-1, D-RETIRE-1: for every bound and every host, the product of every fold is in
\* a slot, with the host, in the residual, discharged, or destroyed with the host work that
\* held it; a complete reply leaves everything that remains in its residual.  It holds when
\* the caller does not drop the future inside apply: there the actions slot would be
\* overwritten by the next fold.
THEOREM CustodyKept ==
    ASSUME "apply" \notin CancelPoints
    PROVE  Spec => []Custody
<1>1. Init => TurnInv /\ SlotsInv /\ Covered
  <2> SUFFICES ASSUME Init PROVE TurnInv /\ SlotsInv /\ Covered
    OBVIOUS
  <2>1. TurnInv
    BY DEF Init, TurnInv, Running, None
  <2>2. SlotsInv
    BY DEF Init, SlotsInv, SourceEmpty, Running, Ended, None, NoResidual, NoCustody
  <2>3. 0 .. turn = {}
    BY DEF Init, None
  <2> QED
    BY Zenon, <2>1, <2>2, <2>3 DEF Covered
<1>2. IInv /\ TurnInv /\ SlotsInv /\ Covered /\ [Next]_vars => TurnInv' /\ SlotsInv' /\ Covered'
  BY Zenon, NextTurn, NextCustody
<1>3. IInv /\ SlotsInv /\ Covered => Custody
  BY Zenon, CustodyFollows
<1> QED
  BY <1>1, <1>2, <1>3, Inductive, PTL DEF Spec
=============================================================================
