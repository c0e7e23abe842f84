------------------------- MODULE DriverOrderProofs -------------------------
(***************************************************************************)
(* The causal order of the settlement queue, for every bound and every     *)
(* host, under the assumption of DriverCustodyProofs.                      *)
(***************************************************************************)
EXTENDS DriverCustodyProofs

\* A leaf that names no prover is tried with SMT, then Zenon, then SMT twice more with more time.
USE SMTT(20), Zenon, SMTT(40), SMTT(60)

-----------------------------------------------------------------------------
(* Decreasing sequences *)

\* t may stand at position i of q.
Fits(q, i, t) ==
    /\ i \in 1 .. (Len(q) + 1)
    /\ \A j \in 1 .. Len(q) : IF j < i THEN q[j] > t ELSE t > q[j]

\* w is q with t at position i.
Extends(w, q, i, t) ==
    /\ Len(w) = Len(q) + 1
    /\ \A j \in 1 .. (Len(q) + 1) : w[j] = IF j < i THEN q[j] ELSE IF j = i THEN t ELSE q[j - 1]

\* InsertAt extends a sequence.
LEMMA InsertAtExtends ==
    ASSUME NEW S, NEW q \in Seq(S), NEW i \in 1 .. (Len(q) + 1), NEW t \in S
    PROVE  Extends(InsertAt(q, i, t), q, i, t)
<1>1. /\ Len(InsertAt(q, i, t)) = Len(q) + 1
      /\ \A j \in 1 .. (Len(q) + 1) :
            InsertAt(q, i, t)[j] = IF j < i THEN q[j] ELSE IF j = i THEN t ELSE q[j - 1]
  BY InsertAtElements
<1> QED
  BY Zenon, <1>1 DEF Extends

\* What fits extends a decreasing sequence to a decreasing one.
LEMMA DecreasingExtends ==
    ASSUME NEW q \in Seq(Int), NEW i \in Int, NEW t \in Int, NEW w, Extends(w, q, i, t),
           Fits(q, i, t), Decreasing(q)
    PROVE  Decreasing(w)
<1>1. Len(q) \in Nat /\ \A j \in 1 .. Len(q) : q[j] \in Int
  OBVIOUS
<1>2. ASSUME NEW j \in 1 .. Len(w), NEW k \in 1 .. Len(w), j < k
      PROVE  w[j] > w[k]
  <2>0. j \in 1 .. (Len(q) + 1) /\ k \in 1 .. (Len(q) + 1)
    BY DEF Extends
  <2>1. CASE k < i
    <3>1. w[j] = q[j] /\ w[k] = q[k] /\ j \in 1 .. Len(q) /\ k \in 1 .. Len(q)
      BY <1>1, <1>2, <2>0, <2>1 DEF Extends, Fits
    <3> QED
      BY <1>2, <3>1 DEF Decreasing
  <2>2. CASE k = i
    <3>1. w[j] = q[j] /\ w[k] = t /\ j \in 1 .. Len(q)
      BY <1>1, <1>2, <2>0, <2>2 DEF Extends, Fits
    <3> QED
      BY <1>2, <2>2, <3>1 DEF Fits
  <2>3. CASE k > i /\ j < i
    <3>1. w[j] = q[j] /\ w[k] = q[k - 1] /\ j \in 1 .. Len(q) /\ k - 1 \in 1 .. Len(q) /\ j < k - 1
      BY <1>1, <1>2, <2>0, <2>3 DEF Extends, Fits
    <3> QED
      BY <3>1 DEF Decreasing
  <2>4. CASE k > i /\ j = i
    <3>1. w[j] = t /\ w[k] = q[k - 1] /\ k - 1 \in 1 .. Len(q) /\ ~(k - 1 < i)
      BY <1>1, <1>2, <2>0, <2>4 DEF Extends, Fits
    <3> QED
      BY <3>1 DEF Fits
  <2>5. CASE k > i /\ j > i
    <3>1. /\ w[j] = q[j - 1] /\ w[k] = q[k - 1] /\ j - 1 \in 1 .. Len(q) /\ k - 1 \in 1 .. Len(q)
          /\ j - 1 < k - 1
      BY <1>1, <1>2, <2>0, <2>5 DEF Extends, Fits
    <3> QED
      BY Zenon, <3>1 DEF Decreasing
  <2> QED
    BY <1>1, <2>0, <2>1, <2>2, <2>3, <2>4, <2>5
<1> QED
  BY Zenon, <1>2 DEF Decreasing

\* Taking an element out of a decreasing sequence leaves one in which it fits.
LEMMA DecreasingShrinks ==
    ASSUME NEW q \in Seq(Int), NEW i \in 1 .. Len(q), NEW w,
           Len(w) = Len(q) - 1, \A j \in 1 .. (Len(q) - 1) : w[j] = IF j < i THEN q[j] ELSE q[j + 1],
           Decreasing(q)
    PROVE  Decreasing(w) /\ Fits(w, i, q[i])
<1>1. Len(q) \in Nat /\ \A j \in 1 .. Len(q) : q[j] \in Int
  OBVIOUS
<1>2. ASSUME NEW j \in 1 .. Len(w), NEW k \in 1 .. Len(w), j < k
      PROVE  w[j] > w[k]
  <2> DEFINE a == IF j < i THEN j ELSE j + 1
             b == IF k < i THEN k ELSE k + 1
  <2>1. j \in 1 .. (Len(q) - 1) /\ k \in 1 .. (Len(q) - 1) /\ i \in Int
    BY <1>1
  <2>2. a \in 1 .. Len(q) /\ b \in 1 .. Len(q) /\ a < b
    BY <1>1, <1>2, <2>1
  <2>3. w[j] = q[a]
    BY <2>1
  <2>4. w[k] = q[b]
    BY <2>1
  <2> HIDE DEF a, b
  <2> QED
    BY <2>2, <2>3, <2>4 DEF Decreasing
<1>3. ASSUME NEW j \in 1 .. Len(w)
      PROVE  IF j < i THEN w[j] > q[i] ELSE q[i] > w[j]
  <2>1. CASE j < i
    <3>1. w[j] = q[j] /\ j \in 1 .. Len(q)
      BY <1>1, <2>1
    <3> QED
      BY <1>1, <2>1, <3>1 DEF Decreasing
  <2>2. CASE ~(j < i)
    <3>1. w[j] = q[j + 1] /\ j + 1 \in 1 .. Len(q) /\ i < j + 1
      BY <1>1, <2>2
    <3>2. q[i] > q[j + 1]
      BY <3>1 DEF Decreasing
    <3> QED
      BY <2>2, <3>1, <3>2
  <2> QED
    BY Zenon, <2>1, <2>2
<1>4. i \in 1 .. (Len(w) + 1)
  BY <1>1
<1> QED
  BY Zenon, <1>2, <1>3, <1>4 DEF Decreasing, Fits

-----------------------------------------------------------------------------
(* The queue and the source slots *)

\* The turns of a queue of rows.
OfSeq(q) == [i \in 1 .. Len(q) |-> q[i].of]

\* What the turns of a queue are.
LEMMA OfSeqElements ==
    ASSUME NEW q \in Seq(Rows)
    PROVE  /\ OfSeq(q) \in Seq(Int) /\ Len(OfSeq(q)) = Len(q) /\ Len(q) \in Nat
           /\ \A i \in 1 .. Len(q) : OfSeq(q)[i] = q[i].of /\ q[i].of \in Int /\ q[i] \in Rows
<1>1. Len(q) \in Nat /\ \A i \in 1 .. Len(q) : q[i] \in Rows
  OBVIOUS
<1>2. \A i \in 1 .. Len(q) : q[i].of \in Int
  BY <1>1, MaxTurnsAssumption DEF Rows, Turns
<1> QED
  BY <1>1, <1>2 DEF OfSeq

\* Inserting a row inserts its turn.
LEMMA OfSeqExtends ==
    ASSUME NEW q \in Seq(Rows), NEW i \in 1 .. (Len(q) + 1), NEW row \in Rows
    PROVE  Extends(OfSeq(InsertAt(q, i, row)), OfSeq(q), i, row.of)
<1> DEFINE e == InsertAt(q, i, row)
<1>1. /\ e \in Seq(Rows) /\ Len(e) = Len(q) + 1
      /\ \A j \in 1 .. (Len(q) + 1) : e[j] = IF j < i THEN q[j] ELSE IF j = i THEN row ELSE q[j - 1]
<2>1. RowAt(InsertAt(q, i, row), q, i, row)
  BY Zenon, RowInserted
<2> QED
  BY Zenon, <2>1 DEF RowAt
<1> HIDE DEF e
<1> DEFINE w == OfSeq(e)
           v == OfSeq(q)
<1>2. /\ Len(v) = Len(q) /\ Len(q) \in Nat /\ \A j \in 1 .. Len(q) : v[j] = q[j].of
      /\ Len(w) = Len(e) /\ \A j \in 1 .. Len(e) : w[j] = e[j].of
  BY Zenon, <1>1, OfSeqElements
<1> HIDE DEF w, v
<1>3. ASSUME NEW j \in 1 .. (Len(q) + 1)
      PROVE  w[j] = IF j < i THEN v[j] ELSE IF j = i THEN row.of ELSE v[j - 1]
  <2>1. w[j] = e[j].of
    BY <1>1, <1>2
  <2>2. CASE j < i
    BY <1>1, <1>2, <2>1, <2>2
  <2>3. CASE j = i
    BY <1>1, <1>2, <2>1, <2>3
  <2>4. CASE j > i
    <3>1. j - 1 \in 1 .. Len(q) /\ e[j] = q[j - 1] /\ ~(j < i) /\ j # i
      BY <1>1, <1>2, <2>4
    <3> QED
      BY Zenon, <1>2, <2>1, <3>1
  <2> QED
    BY <1>2, <2>2, <2>3, <2>4
<1>4. Len(w) = Len(v) + 1 /\ Len(v) = Len(q)
  BY Zenon, <1>1, <1>2
<1>5. Extends(w, v, i, row.of)
  BY ONLY <1>3, <1>4 DEF Extends
<1> QED
  BY Zenon, <1>5 DEF w, v, e

\* The settlements in the order the retirement barrier sees them.
Waiting(s) == IF s.retirement_input = NoInput THEN OfSeq(s.settlements) ELSE s.retirement_input

\* The row taken out for its source is in the source slots or with the host.
TakenBy(s, h) == {s.source_input, s.source_received.of} \cup h

QueueInv ==
    /\ Decreasing(Waiting(d))
    /\ d.source_index # None =>
        /\ d.source_index \in 1 .. (Len(Waiting(d)) + 1)
        /\ \A t \in TakenBy(d, host) : t # None => Fits(Waiting(d), d.source_index, t)

\* No row at a position before n can progress; no row awaits its source.
RetainedBefore(s, n) == \A j \in 1 .. (n - 1) : s.settlements[j].turn = "Retained"
NoneAwaits(s) == \A i \in 1 .. Len(s.settlements) : s.settlements[i].turn # "AwaitSource"
AwaitsFirst(s) ==
    \A i \in 1 .. Len(s.settlements) : s.settlements[i].turn = "AwaitSource" => RetainedBefore(s, i)

\* While an event is requested, folded or applied no row is out for its source and none
\* awaits it, and the rows in the queue are older than the turn being applied.
RowsInv ==
    /\ d.retirement_input # NoInput => d.settlements = <<>>
    /\ d.environment => d.source_index = None
    /\ d.phase \in Running =>
        /\ AwaitsFirst(d)
        /\ d.source_index # None => NoneAwaits(d) /\ RetainedBefore(d, d.source_index)
        /\ pc \in {"nextSource", "next", "fold", "apply"} \/ d.interpretation # None =>
              d.source_index = None /\ NoneAwaits(d)
        /\ \A i \in 1 .. Len(d.settlements) : d.settlements[i].of <= turn
        /\ pc = "apply" \/ d.interpretation # None =>
              \A i \in 1 .. Len(d.settlements) : d.settlements[i].of < turn
        /\ d.interpretation \in {None, turn} /\ d.actions \in {None, turn} /\ turn # None

\* What a running host holds: the turn it applies, or the one row offered to it.
HostInv ==
    d.phase \in Running =>
        /\ d.source_index = None =>
              IF pc = "apply" /\ d.actions = None /\ d.interpretation = None
              THEN host \subseteq {turn} ELSE host = {}
        /\ d.source_index # None =>
              /\ d.source_input # None \/ d.source_received # NoCustody => host = {}
              /\ \A x, y \in host : x = y
              /\ \A t \in TakenBy(d, host) : t <= turn

OrderInv == QueueInv /\ RowsInv /\ HostInv

\* A step that keeps the queue, and the row that is out or nothing.
LEMMA QueueFrame ==
    ASSUME QueueInv, Waiting(d') = Waiting(d),
           \/ d'.source_index = None
           \/ /\ d'.source_index = d.source_index
              /\ \A t \in TakenBy(d', host') : t # None => t \in TakenBy(d, host)
    PROVE  QueueInv'
<1>1. Decreasing(Waiting(d'))
  BY Zenon DEF QueueInv
<1>2. ASSUME d'.source_index # None
      PROVE  /\ d'.source_index \in 1 .. (Len(Waiting(d')) + 1)
             /\ \A t \in TakenBy(d', host') : t # None => Fits(Waiting(d'), d'.source_index, t)
  BY Zenon, <1>2 DEF QueueInv
<1> QED
  BY Zenon, <1>1, <1>2 DEF QueueInv, Waiting, TakenBy

\* A step that ends in retirement with the queue and the source slots as they were.
LEMMA StopOrder ==
    ASSUME IInv, OrderInv, SameButIngress(d, d'), d'.phase \in Ended, host' \subseteq host
    PROVE  OrderInv'
<1>1. Waiting(d') = Waiting(d) /\ TakenBy(d', host') \subseteq TakenBy(d, host)
  BY Zenon DEF SameButIngress, Waiting, TakenBy
<1>2. QueueInv'
  BY Zenon, <1>1, QueueFrame DEF OrderInv, SameButIngress
<1>3. RowsInv' /\ HostInv'
  BY DEF OrderInv, RowsInv, HostInv, SameButIngress, Ended, Running
<1> QED
  BY Zenon, <1>2, <1>3 DEF OrderInv

-----------------------------------------------------------------------------
(* The steps *)

\* Moving the future moves no row; an event is requested only when no row can progress.
LEMMA CallerOrder ==
    ASSUME "apply" \notin CancelPoints, IInv, OrderInv,
           Loan \/ Cancel \/ ReceiveAgain \/ Finished \/ Deliver \/ CallActivate \/ CallOffer
                \/ CallNext \/ AlreadyAttempted
    PROVE  OrderInv'
<1>1. d' = d /\ turn' = turn /\ host' \subseteq host
  BY DEF Loan, Cancel, ReceiveAgain, Finished, Deliver, CallActivate, CallOffer, CallNext,
         AlreadyAttempted, custody, vars
<1>2. d.phase \in Running => (pc' = "apply" <=> pc = "apply")
  BY DEF Loan, Cancel, ReceiveAgain, Finished, Deliver, CallActivate, CallOffer, CallNext,
         AlreadyAttempted, Turning, Goto, vars
<1>3. \/ pc' \in {"nextSource", "next", "fold", "apply"} => pc' = pc
      \/ CallNext
  BY DEF Loan, Cancel, ReceiveAgain, Finished, Deliver, CallActivate, CallOffer, CallNext,
         AlreadyAttempted, Turning, Goto, vars
<1>4. QueueInv'
  <2>1. TakenBy(d', host') \subseteq TakenBy(d, host)
    BY Zenon, <1>1 DEF TakenBy
  <2> QED
    BY Zenon, <1>1, <2>1, QueueFrame DEF OrderInv
<1>5. ASSUME CallNext, d.phase \in Running
      PROVE  d.source_index = None /\ NoneAwaits(d)
  <2>1. d.source_index = None /\ Progressing(d) = {} /\ AwaitsFirst(d)
    BY Zenon, <1>5 DEF CallNext, OrderInv, RowsInv
  <2>2. d.settlements \in Seq(Rows)
    BY DEF IInv, TypeOK, DriverType
  <2>3. ASSUME NEW i \in 1 .. Len(d.settlements), d.settlements[i].turn = "AwaitSource" PROVE FALSE
    <3>1. RetainedBefore(d, i) /\ i \in DOMAIN d.settlements
      BY <2>1, <2>2, <2>3 DEF AwaitsFirst
    <3>2. d.settlements[i].turn # "Retained"
      BY <2>3
    <3>3. i \in Progressing(d)
      BY Zenon, <3>1, <3>2 DEF Progressing, RetainedBefore
    <3> QED
      BY Zenon, <2>1, <3>3
  <2> QED
    BY Zenon, <2>1, <2>3 DEF NoneAwaits
<1>6. RowsInv'
  BY ZenonT(30), <1>1, <1>2, <1>3, <1>5 DEF OrderInv, RowsInv
<1>7. HostInv'
  BY ZenonT(30), <1>1, <1>2 DEF OrderInv, HostInv, TakenBy
<1> QED
  BY Zenon, <1>4, <1>6, <1>7 DEF OrderInv

\* Before the first turn runs the queue is empty and no row is out.
LEMMA EarlyOrder ==
    ASSUME IInv, SlotsInv, OrderInv, Initialize \/ HostTakesEnvironment \/ HostRepliesActivation
    PROVE  OrderInv'
<1>1. d.phase \in {"Prepared", "Activating"} /\ d.source_index = None
  BY DEF IInv, PcPhase, SlotsInv, Initialize, HostTakesEnvironment, HostRepliesActivation
<1>2. /\ d'.source_index = d.source_index /\ d'.settlements = d.settlements
      /\ d'.retirement_input = d.retirement_input
      /\ d'.phase \notin Running
  <2>1. CASE Initialize
    BY ZenonT(30), <2>1, InitializeEffect DEF Stopping, SameSlots, Running
  <2>2. CASE HostTakesEnvironment \/ HostRepliesActivation
    BY Zenon, <1>1, <2>2, TakesEnvironmentEffect, RepliesActivationEffect DEF SameControl, SameQueue, Running
  <2> QED
    BY Zenon, <2>1, <2>2
<1>3. Waiting(d') = Waiting(d)
  BY Zenon, <1>2 DEF Waiting
<1>4. QueueInv'
  BY Zenon, <1>1, <1>2, <1>3, QueueFrame DEF OrderInv
<1>5. RowsInv' /\ HostInv'
  BY Zenon, <1>1, <1>2 DEF OrderInv, RowsInv, HostInv
<1> QED
  BY Zenon, <1>4, <1>5 DEF OrderInv

\* The first turn runs with an empty queue.
LEMMA ActivatedOrder ==
    ASSUME IInv, TurnInv, SlotsInv, OrderInv, ActivateReturns
    PROVE  OrderInv'
<1>1. /\ d.phase = "Activating" /\ turn' = turn /\ turn = 0 /\ d.source_index = None
      /\ d.settlements = <<>> /\ host' \subseteq host /\ pc' = "loop"
  BY DEF IInv, PcPhase, SlotsInv, TurnInv, ActivateReturns, Goto
<1>2. CASE Stopping(d, d')
  BY Zenon, <1>1, <1>2, StopOrder DEF Stopping, SameSlots, SameButIngress, Ended
<1>3. CASE ~Stopping(d, d')
  <2>1. /\ d.activation # "None" /\ d'.actions = None
        /\ d'.source_index = d.source_index /\ d'.settlements = d.settlements
        /\ d'.retirement_input = d.retirement_input
        /\ d'.phase \in Running => d'.interpretation = 0
    BY ZenonT(30), <1>3, ActivateEffect DEF Running
  <2>2. Waiting(d') = Waiting(d)
    BY Zenon, <2>1 DEF Waiting
  <2>3. QueueInv'
    BY Zenon, <1>1, <2>1, <2>2, QueueFrame DEF OrderInv
  <2>4. host' = {}
    BY Zenon, <1>1, <2>1 DEF SlotsInv
  <2>5. RowsInv'
    BY <1>1, <2>1 DEF OrderInv, RowsInv, AwaitsFirst, NoneAwaits, None
  <2>6. HostInv'
    BY <1>1, <2>1, <2>4 DEF HostInv
  <2> QED
    BY Zenon, <2>3, <2>5, <2>6 DEF OrderInv
<1> QED
  BY Zenon, <1>2, <1>3

\* A queue with a row in front of it.
LEMMA ConsElements ==
    ASSUME NEW q \in Seq(Rows), NEW row \in Rows
    PROVE  LET e == <<row>> \o q IN
           /\ e \in Seq(Rows) /\ Len(e) = Len(q) + 1
           /\ \A j \in 1 .. (Len(q) + 1) : e[j] = IF j = 1 THEN row ELSE q[j - 1]
           /\ Extends(OfSeq(e), OfSeq(q), 1, row.of)
<1> DEFINE e == <<row>> \o q
<1>1. e \in Seq(Rows) /\ Len(e) = Len(q) + 1 /\ Len(q) \in Nat
      /\ \A j \in 1 .. (Len(q) + 1) : e[j] = IF j = 1 THEN row ELSE q[j - 1]
  OBVIOUS
<1> HIDE DEF e
<1> DEFINE w == OfSeq(e)
           v == OfSeq(q)
<1>2. /\ Len(v) = Len(q) /\ Len(q) \in Nat /\ \A j \in 1 .. Len(q) : v[j] = q[j].of
      /\ Len(w) = Len(e) /\ \A j \in 1 .. Len(e) : w[j] = e[j].of
  BY Zenon, <1>1, OfSeqElements
<1> HIDE DEF w, v
<1>3. ASSUME NEW j \in 1 .. (Len(q) + 1)
      PROVE  w[j] = IF j < 1 THEN v[j] ELSE IF j = 1 THEN row.of ELSE v[j - 1]
  <2>1. w[j] = e[j].of /\ ~(j < 1)
    BY <1>1, <1>2
  <2>2. CASE j = 1
    BY <1>1, <1>2, <2>1, <2>2
  <2>3. CASE j # 1
    <3>1. j - 1 \in 1 .. Len(q) /\ e[j] = q[j - 1]
      BY <1>1, <1>2, <2>3
    <3> QED
      BY Zenon, <1>2, <2>1, <2>3, <3>1
  <2> QED
    BY Zenon, <2>2, <2>3
<1>4. Len(w) = Len(v) + 1 /\ Len(v) = Len(q)
  BY Zenon, <1>1, <1>2
<1>5. Extends(w, v, 1, row.of)
  BY ONLY <1>3, <1>4 DEF Extends
<1> QED
  BY Zenon, <1>1, <1>5 DEF w, v, e

\* The settlement that joins the queue is newer than every row of it.
LEMMA ClassifyOrder ==
    ASSUME IInv, OrderInv, Classify
    PROVE  OrderInv'
<1>1. /\ d.phase \in Running /\ d.phase \notin Ended /\ turn' = turn /\ host' = host
      /\ pc = "loop" /\ pc' = "loop" /\ d.interpretation # None /\ d.retirement_input = NoInput
      /\ turn \in Int /\ d.settlements \in Seq(Rows)
  BY MaxTurnsAssumption
     DEF IInv, TypeOK, DriverType, OwnerPhase, Classify, Running, Ended, custody, Slot, Turns, None
<1>2. CASE Stopping(d, d')
  BY Zenon, <1>1, <1>2, StopOrder DEF Stopping, SameSlots, SameButIngress, Ended
<1>3. CASE ~Stopping(d, d')
  <2> DEFINE row == [turn |-> "Offer", of |-> d.interpretation]
             e == <<row>> \o d.settlements
  <2>1. /\ d'.settlements = e /\ d'.interpretation = None /\ d'.environment = d.environment
        /\ d'.actions = d.actions /\ d'.source_index = d.source_index
        /\ d'.retirement_input = d.retirement_input
    BY ZenonT(30), <1>3, ClassifyEffect
  <2>2. /\ d.source_index = None /\ NoneAwaits(d) /\ d.interpretation = turn
        /\ \A i \in 1 .. Len(d.settlements) : d.settlements[i].of < turn
        /\ d.actions \in {None, turn} /\ (d.environment => d.source_index = None)
    BY Zenon, <1>1 DEF OrderInv, RowsInv
  <2>3. row \in Rows /\ row.of = turn /\ row.turn = "Offer"
    BY <1>1, <2>2 DEF IInv, TypeOK, DriverType, Rows, Slot
  <2> HIDE DEF row
  <2>4. /\ e \in Seq(Rows) /\ Len(e) = Len(d.settlements) + 1
        /\ \A j \in 1 .. (Len(d.settlements) + 1) : e[j] = IF j = 1 THEN row ELSE d.settlements[j - 1]
        /\ Extends(OfSeq(e), OfSeq(d.settlements), 1, turn)
    BY Zenon, <1>1, <2>3, ConsElements
  <2> HIDE DEF e
  <2>5. /\ OfSeq(d.settlements) \in Seq(Int) /\ Len(OfSeq(d.settlements)) = Len(d.settlements)
        /\ Len(d.settlements) \in Nat
        /\ \A i \in 1 .. Len(d.settlements) :
              OfSeq(d.settlements)[i] = d.settlements[i].of /\ d.settlements[i].of \in Int
    BY Zenon, <1>1, OfSeqElements
  <2>6. Waiting(d) = OfSeq(d.settlements) /\ Waiting(d') = OfSeq(e)
    BY Zenon, <1>1, <2>1 DEF Waiting
  <2>7. Fits(OfSeq(d.settlements), 1, turn)
    <3> DEFINE v == OfSeq(d.settlements)
    <3>1. Len(v) \in Nat /\ \A i \in 1 .. Len(v) : v[i] < turn /\ v[i] \in Int
      BY Zenon, <2>2, <2>5
    <3> HIDE DEF v
    <3>2. Fits(v, 1, turn)
      BY <1>1, <3>1 DEF Fits
    <3> QED
      BY Zenon, <3>2 DEF v
  <2>8. Decreasing(OfSeq(e))
    <3>1. Decreasing(OfSeq(d.settlements))
      BY Zenon, <2>6 DEF OrderInv, QueueInv
    <3> QED
      BY <1>1, <2>4, <2>5, <2>7, <3>1, DecreasingExtends
  <2>9. QueueInv'
    BY Zenon, <2>1, <2>2, <2>6, <2>8 DEF QueueInv
  <2>10. ASSUME NEW j \in 1 .. Len(d'.settlements)
         PROVE  d'.settlements[j].turn # "AwaitSource" /\ d'.settlements[j].of <= turn
    <3>1. j \in 1 .. (Len(d.settlements) + 1)
      BY Zenon, <2>1, <2>4
    <3>2. CASE j = 1
      BY <1>1, <2>1, <2>3, <2>4, <3>1, <3>2
    <3>3. CASE j # 1
      <4> DEFINE k == j - 1
      <4>1. k \in 1 .. Len(d.settlements)
        BY <2>5, <3>1, <3>3
      <4>2. d'.settlements[j] = d.settlements[k]
        BY Zenon, <2>1, <2>4, <3>1, <3>3
      <4> HIDE DEF k
      <4>3. d.settlements[k].of < turn /\ d.settlements[k].of \in Int /\ d.settlements[k].turn # "AwaitSource"
        BY Zenon, <2>2, <2>5, <4>1 DEF NoneAwaits
      <4> QED
        BY <1>1, <4>2, <4>3
    <3> QED
      BY Zenon, <3>2, <3>3
  <2>11. RowsInv'
    BY Zenon, <1>1, <2>1, <2>2, <2>10 DEF RowsInv, AwaitsFirst, NoneAwaits
  <2>12. HostInv'
    BY <1>1, <2>1, <2>2 DEF OrderInv, HostInv
  <2> QED
    BY Zenon, <2>9, <2>11, <2>12 DEF OrderInv
<1> QED
  BY Zenon, <1>2, <1>3

\* The rows beside the first row that can progress: retained before it, none awaiting.
LEMMA FirstProgressing ==
    ASSUME IInv, AwaitsFirst(d), NEW i \in Progressing(d)
    PROVE  /\ i \in 1 .. Len(d.settlements) /\ RetainedBefore(d, i) /\ Len(d.settlements) \in Nat
           /\ d.settlements \in Seq(Rows)
           /\ \A k \in 1 .. Len(d.settlements) : k # i => d.settlements[k].turn # "AwaitSource"
<1>1. d.settlements \in Seq(Rows) /\ Len(d.settlements) \in Nat
  BY DEF IInv, TypeOK, DriverType
<1>2. i \in 1 .. Len(d.settlements) /\ RetainedBefore(d, i) /\ d.settlements[i].turn # "Retained"
  BY <1>1 DEF Progressing, RetainedBefore
<1>3. ASSUME NEW k \in 1 .. Len(d.settlements), k # i, d.settlements[k].turn = "AwaitSource" PROVE FALSE
  <2>1. CASE k < i
    <3>1. k \in 1 .. (i - 1)
      BY <1>1, <1>2, <2>1
    <3> QED
      BY <1>2, <1>3, <3>1 DEF RetainedBefore
  <2>2. CASE k > i
    <3>1. i \in 1 .. (k - 1)
      BY <1>1, <1>2, <2>2
    <3>2. RetainedBefore(d, k)
      BY Zenon, <1>3 DEF AwaitsFirst
    <3> QED
      BY Zenon, <1>2, <3>1, <3>2 DEF RetainedBefore
  <2> QED
    BY <1>1, <1>2, <1>3, <2>1, <2>2
<1> QED
  BY Zenon, <1>1, <1>2, <1>3

\* The row taken out for its source fits where it was.
LEMMA SelectOfferOrder ==
    ASSUME IInv, SlotsInv, OrderInv, SelectOffer
    PROVE  OrderInv'
<1>1. /\ d.phase \in Running /\ turn' = turn /\ host' = host
      /\ pc = "loop" /\ pc' = "loop" /\ d.interpretation = None /\ d.retirement_input = NoInput
      /\ d.source_index = None /\ d.actions = None /\ d.source_received = NoCustody /\ ~d.environment
  BY DEF IInv, OwnerPhase, SlotsInv, SourceEmpty, SelectOffer, Turning, Running, Ended, custody
<1>2. /\ AwaitsFirst(d) /\ host = {} /\ turn # None /\ Decreasing(OfSeq(d.settlements))
      /\ \A k \in 1 .. Len(d.settlements) : d.settlements[k].of <= turn
  BY Zenon, <1>1 DEF OrderInv, QueueInv, RowsInv, HostInv, Waiting
<1>3. PICK i \in Progressing(d) :
          /\ d'.source_index = i /\ d'.source_input = d.settlements[i].of
          /\ d'.settlements = RemoveAt(d.settlements, i)
          /\ d'.environment = d.environment /\ d'.actions = d.actions
          /\ d'.interpretation = d.interpretation /\ d'.source_received = d.source_received
          /\ d'.retirement_input = d.retirement_input /\ d'.phase = d.phase
  BY Zenon, SelectOfferEffect
<1>4. /\ i \in 1 .. Len(d.settlements) /\ RetainedBefore(d, i) /\ Len(d.settlements) \in Nat
      /\ d.settlements \in Seq(Rows)
      /\ \A k \in 1 .. Len(d.settlements) : k # i => d.settlements[k].turn # "AwaitSource"
  BY Zenon, <1>2, FirstProgressing
<1> DEFINE q == d.settlements
           e == RemoveAt(q, i)
<1>5. /\ e \in Seq(Rows) /\ Len(e) = Len(q) - 1
      /\ \A j \in 1 .. (Len(q) - 1) : e[j] = IF j < i THEN q[j] ELSE q[j + 1]
  BY Zenon, <1>4, RemoveAtElements
<1>6. d'.settlements = e
  BY Zenon, <1>3
<1> HIDE DEF e
<1>7. ASSUME NEW j \in 1 .. Len(e)
      PROVE  \E k \in 1 .. Len(q) : k # i /\ e[j] = q[k] /\ (j < i => k = j)
  <2>1. CASE j < i
    BY <1>4, <1>5, <2>1
  <2>2. CASE ~(j < i)
    <3> DEFINE k == j + 1
    <3>1. k \in 1 .. Len(q) /\ k # i /\ e[j] = q[k]
      BY <1>4, <1>5, <2>2
    <3> HIDE DEF k
    <3> QED
      BY Zenon, <2>2, <3>1
  <2> QED
    BY Zenon, <2>1, <2>2
<1>8. NoneAwaits(d') /\ \A j \in 1 .. Len(e) : e[j].of <= turn
  <2>1. \A j \in 1 .. Len(e) : e[j].turn # "AwaitSource" /\ e[j].of <= turn
    BY Zenon, <1>2, <1>4, <1>7
  <2> QED
    BY Zenon, <1>6, <2>1 DEF NoneAwaits
<1>9. RetainedBefore(d', i)
  <2>1. ASSUME NEW j \in 1 .. (i - 1) PROVE e[j].turn = "Retained"
    <3>1. j \in 1 .. (Len(q) - 1) /\ j < i
      BY <1>4
    <3>2. e[j] = q[j]
      BY Zenon, <1>5, <3>1
    <3> QED
      BY Zenon, <1>4, <3>2 DEF RetainedBefore
  <2> QED
    BY Zenon, <1>6, <2>1 DEF RetainedBefore
<1>10. RowsInv'
  BY ZenonT(60), <1>1, <1>2, <1>3, <1>6, <1>8, <1>9 DEF RowsInv, AwaitsFirst, NoneAwaits
<1>11. HostInv'
  <2>1. NoCustody.of = None /\ None <= turn
    BY MaxTurnsAssumption DEF NoCustody, None, IInv, TypeOK, Slot, Turns
  <2>2. \A t \in TakenBy(d', host') : t <= turn
    BY Zenon, <1>1, <1>2, <1>3, <1>4, <2>1 DEF TakenBy
  <2> QED
    BY ZenonT(60), <1>1, <1>2, <1>3, <2>2 DEF HostInv, TakenBy
<1>12. QueueInv'
  <2> DEFINE v == OfSeq(q)
             w == OfSeq(e)
  <2>1. /\ v \in Seq(Int) /\ Len(v) = Len(q) /\ \A j \in 1 .. Len(q) : v[j] = q[j].of
        /\ Len(w) = Len(e) /\ \A j \in 1 .. Len(e) : w[j] = e[j].of
    BY Zenon, <1>4, <1>5, OfSeqElements
  <2>2. Decreasing(v)
    BY Zenon, <1>2
  <2>3. Waiting(d') = w
    BY Zenon, <1>1, <1>3, <1>6 DEF Waiting
  <2> HIDE DEF v, w
  <2>4. ASSUME NEW j \in 1 .. (Len(v) - 1) PROVE w[j] = IF j < i THEN v[j] ELSE v[j + 1]
    <3>1. j \in 1 .. Len(e) /\ j \in 1 .. (Len(q) - 1) /\ j \in 1 .. Len(q) /\ j + 1 \in 1 .. Len(q)
      BY <1>4, <1>5, <2>1
    <3>2. CASE j < i
      BY Zenon, <1>5, <2>1, <3>1, <3>2
    <3>3. CASE ~(j < i)
      BY Zenon, <1>5, <2>1, <3>1, <3>3
    <3> QED
      BY Zenon, <3>2, <3>3
  <2>5. Len(w) = Len(v) - 1 /\ i \in 1 .. Len(v)
    BY Zenon, <1>4, <1>5, <2>1
  <2>6. Decreasing(w) /\ Fits(w, i, v[i])
    BY <2>1, <2>2, <2>4, <2>5, DecreasingShrinks
  <2>7. v[i] = d'.source_input
    BY Zenon, <1>3, <1>4, <2>1
  <2>8. NoCustody.of = None
    BY DEF NoCustody
  <2>9. \A t \in TakenBy(d', host') : t # None => t = d'.source_input
    BY Zenon, <1>1, <1>2, <1>3, <2>8 DEF TakenBy
  <2>10. i \in 1 .. (Len(w) + 1)
    BY Zenon, <2>6 DEF Fits
  <2> QED
    BY ZenonT(60), <1>3, <2>3, <2>6, <2>7, <2>9, <2>10 DEF QueueInv
<1> QED
  BY Zenon, <1>10, <1>11, <1>12 DEF OrderInv

\* Turning the awaiting row into an offer changes no turn, and no row awaits after it.
LEMMA SelectAwaitOrder ==
    ASSUME IInv, SlotsInv, OrderInv, SelectAwait
    PROVE  OrderInv'
<1>1. /\ d.phase \in Running /\ turn' = turn /\ host' = host
      /\ pc = "loop" /\ pc' = "nextSource" /\ d.interpretation = None /\ d.retirement_input = NoInput
      /\ d.source_index = None /\ d.actions = None /\ ~d.environment
  BY DEF IInv, OwnerPhase, SlotsInv, SelectAwait, Turning, Running, Ended, custody, Goto
<1>2. /\ AwaitsFirst(d) /\ host = {} /\ turn # None
      /\ \A k \in 1 .. Len(d.settlements) : d.settlements[k].of <= turn
  BY Zenon, <1>1 DEF OrderInv, RowsInv, HostInv
<1>3. PICK i \in Progressing(d) :
          /\ d'.settlements = [d.settlements EXCEPT ![i] = [d.settlements[i] EXCEPT !.turn = "Offer"]]
          /\ d'.source_index = d.source_index
          /\ d'.environment = d.environment /\ d'.actions = d.actions
          /\ d'.interpretation = d.interpretation
          /\ d'.retirement_input = d.retirement_input /\ d'.phase = d.phase
  BY Zenon, SelectAwaitEffect
<1>4. /\ i \in 1 .. Len(d.settlements) /\ Len(d.settlements) \in Nat
      /\ d.settlements \in Seq(Rows)
      /\ \A k \in 1 .. Len(d.settlements) : k # i => d.settlements[k].turn # "AwaitSource"
  BY Zenon, <1>2, FirstProgressing
<1> DEFINE q == d.settlements
           r == [q[i] EXCEPT !.turn = "Offer"]
           e == [q EXCEPT ![i] = r]
<1>5. r.of = q[i].of /\ r.turn = "Offer"
  <2>1. q[i] \in Rows
    BY Zenon, <1>4, ElementOfSeq
  <2> QED
    BY <2>1 DEF Rows
<1>6. d'.settlements = e
  BY Zenon, <1>3
<1> HIDE DEF r
<1>7. Len(e) = Len(q) /\ \A j \in 1 .. Len(q) : e[j] = IF j = i THEN r ELSE q[j]
  BY <1>4
<1> HIDE DEF e
<1>8. \A j \in 1 .. Len(q) : e[j].of = q[j].of /\ e[j].turn # "AwaitSource"
  BY Zenon, <1>4, <1>5, <1>7
<1>9. OfSeq(e) = OfSeq(q)
  BY Zenon, <1>7, <1>8 DEF OfSeq
<1>10. QueueInv'
  <2>1. Waiting(d') = Waiting(d)
    BY Zenon, <1>1, <1>3, <1>6, <1>9 DEF Waiting
  <2> QED
    BY Zenon, <1>1, <1>3, <2>1, QueueFrame DEF OrderInv
<1>11. NoneAwaits(d') /\ \A j \in 1 .. Len(d'.settlements) : d'.settlements[j].of <= turn
  BY Zenon, <1>2, <1>6, <1>7, <1>8 DEF NoneAwaits
<1>12. RowsInv'
  BY Zenon, <1>1, <1>2, <1>3, <1>11 DEF RowsInv, AwaitsFirst, NoneAwaits
<1>13. HostInv'
  BY Zenon, <1>1, <1>2, <1>3 DEF HostInv
<1> QED
  BY Zenon, <1>10, <1>12, <1>13 DEF OrderInv

\* Offering moves the row that is out between its slots and the host.
LEMMA HostSourceOrder ==
    ASSUME IInv, OrderInv, HostTakesSource \/ HostRepliesSource
    PROVE  OrderInv'
<1>1. d.phase \in Running /\ turn' = turn /\ pc = "offer" /\ pc' = pc /\ d.source_index # None
  BY DEF IInv, PcPhase, HostTakesSource, HostRepliesSource
<1>2. /\ SameControl(d, d') /\ SameQueue(d, d') /\ d'.environment = d.environment
      /\ d'.actions = d.actions /\ d'.interpretation = d.interpretation
  BY Zenon, HostSourceEffect
<1>3. /\ d.source_input # None \/ d.source_received # NoCustody => host = {}
      /\ \A x, y \in host : x = y
  BY Zenon, <1>1 DEF OrderInv, HostInv
<1>4. /\ d'.source_input # None \/ d'.source_received # NoCustody => host' = {}
      /\ \A x, y \in host' : x = y
      /\ \A t \in TakenBy(d', host') : t # None => t \in TakenBy(d, host)
  <2>1. CASE /\ d.source_input # None /\ d.source_received = NoCustody
             /\ d'.source_input = None /\ d'.source_received = d.source_received
             /\ host' = host \cup {d.source_input}
    BY Zenon, <1>3, <2>1 DEF TakenBy
  <2>2. ASSUME NEW t \in host \cup ({d.source_input} \ {None}),
               d.source_received = NoCustody, d'.source_input = d.source_input,
               d'.source_received.of = t, host' = host \ {t}
        PROVE  /\ d'.source_input # None \/ d'.source_received # NoCustody => host' = {}
               /\ \A x, y \in host' : x = y
               /\ \A u \in TakenBy(d', host') : u # None => u \in TakenBy(d, host)
    BY Zenon, <1>3, <2>2 DEF TakenBy
  <2> QED
    BY Zenon, <2>1, <2>2, HostSourceEffect
<1>5. Waiting(d') = Waiting(d)
  BY Zenon, <1>2 DEF Waiting, SameQueue
<1>6. QueueInv'
  BY Zenon, <1>2, <1>4, <1>5, QueueFrame DEF OrderInv, SameQueue
<1>7. RowsInv'
  BY Zenon, <1>1, <1>2
     DEF OrderInv, RowsInv, SameControl, SameQueue, AwaitsFirst, NoneAwaits, RetainedBefore
<1>8. HostInv'
  <2>1. None <= turn
    BY MaxTurnsAssumption DEF None, IInv, TypeOK, Slot, Turns
  <2>2. \A t \in TakenBy(d', host') : t <= turn
    BY Zenon, <1>1, <1>4, <2>1 DEF OrderInv, HostInv
  <2> QED
    BY Zenon, <1>1, <1>2, <1>4, <2>2 DEF HostInv, SameQueue, TakenBy
<1> QED
  BY Zenon, <1>6, <1>7, <1>8 DEF OrderInv

\* Custody puts the row back where it came from, or discharges it.
LEMMA ReceivedOrder ==
    ASSUME IInv, SlotsInv, OrderInv, OfferReturns \/ ReceiveAcquired
    PROVE  OrderInv'
<1>1. /\ d.phase \in Running /\ turn' = turn /\ host' = host
      /\ pc # "apply" /\ pc' = "loop" /\ d.retirement_input = NoInput
      /\ d.source_index # None /\ d.actions = None /\ ~d.environment
      /\ d.settlements \in Seq(Rows) /\ turn \in Int
      /\ d.source_index \in 1 .. (Len(d.settlements) + 1)
  BY MaxTurnsAssumption
     DEF IInv, TypeOK, DriverType, PcPhase, OwnerPhase, IndexInQueue, SlotsInv, OfferReturns, ReceiveAcquired,
         Turning, Running, Ended, Goto, Slot, Turns, None
<1>2. CASE Stopping(d, d')
  BY Zenon, <1>1, <1>2, StopOrder DEF Stopping, SameSlots, SameButIngress, Ended
<1>3. CASE ~Stopping(d, d')
  <2> DEFINE n == d.source_index
             got == d.source_received.of
             q == d.settlements
             Back(row) == [turn |-> row, of |-> got]
  <2>1. /\ d.source_received # NoCustody
        /\ d'.source_index = None /\ d'.environment = d.environment /\ d'.actions = d.actions
        /\ d'.interpretation = d.interpretation
        /\ d'.retirement_input = d.retirement_input
        /\ d'.phase \in {d.phase, "Retiring"}
        /\ \/ d'.settlements = d.settlements
           \/ \E row \in {"Offer", "AwaitSource", "Retained"} :
                /\ d'.settlements = InsertAt(q, n, Back(row))
                /\ row = "Offer" => d'.phase = "Retiring"
    BY ZenonT(60), <1>3, SourceEffect DEF GoesOn
  <2>2. /\ host = {} /\ turn # None /\ NoneAwaits(d) /\ RetainedBefore(d, n) /\ d.interpretation = None
        /\ \A k \in 1 .. Len(q) : q[k].of <= turn
        /\ got <= turn
    BY Zenon, <1>1, <2>1 DEF OrderInv, RowsInv, HostInv, TakenBy
  <2>3. /\ OfSeq(q) \in Seq(Int) /\ Len(q) \in Nat /\ Decreasing(OfSeq(q))
        /\ Waiting(d) = OfSeq(q) /\ Waiting(d') = OfSeq(d'.settlements)
    BY Zenon, <1>1, <2>1, OfSeqElements DEF OrderInv, QueueInv, Waiting
  <2>4. HostInv'
    BY Zenon, <1>1, <2>1, <2>2 DEF HostInv
  <2>5. CASE d'.settlements = d.settlements
    <3>1. QueueInv'
      BY Zenon, <2>1, <2>3, <2>5, QueueFrame DEF OrderInv
    <3>2. NoneAwaits(d')
      BY Zenon, <2>2, <2>5 DEF NoneAwaits
    <3>3. RowsInv'
      BY Zenon, <1>1, <2>1, <2>2, <2>5, <3>2 DEF RowsInv, AwaitsFirst, NoneAwaits
    <3> QED
      BY Zenon, <2>4, <3>1, <3>3 DEF OrderInv
  <2>6. ASSUME NEW row \in {"Offer", "AwaitSource", "Retained"},
               d'.settlements = InsertAt(q, n, Back(row)),
               row = "Offer" => d'.phase = "Retiring"
        PROVE  OrderInv'
    <3> DEFINE back == Back(row)
               e == InsertAt(q, n, back)
    <3>1. back \in Rows /\ back.of = got /\ back.turn = row /\ got \in Int /\ got # None
      BY <2>1, MaxTurnsAssumption DEF IInv, TypeOK, DriverType, Receipts, Rows, Turns, None
    <3>2. d'.settlements = e
      BY Zenon, <2>6
    <3> HIDE DEF back
    <3>3. /\ Len(e) = Len(q) + 1
          /\ \A j \in 1 .. (Len(q) + 1) : e[j] = IF j < n THEN q[j] ELSE IF j = n THEN back ELSE q[j - 1]
      <4>1. q \in Seq(Rows) /\ n \in 1 .. (Len(q) + 1) /\ back \in Rows
        BY Zenon, <1>1, <3>1
      <4> HIDE DEF q, n
      <4>2. RowAt(InsertAt(q, n, back), q, n, back)
        BY ONLY <4>1, RowInserted, Zenon
      <4> QED
        BY Zenon, <4>2 DEF RowAt
    <3>4. Extends(OfSeq(e), OfSeq(q), n, got)
      BY Zenon, <1>1, <3>1, OfSeqExtends
    <3>5. Fits(OfSeq(q), n, got)
      BY Zenon, <1>1, <2>3, <3>1 DEF OrderInv, QueueInv, TakenBy
    <3> HIDE DEF e, got
    <3>6. Decreasing(OfSeq(e))
      BY <1>1, <2>3, <3>1, <3>4, <3>5, DecreasingExtends
    <3>7. QueueInv'
      BY ZenonT(60), <2>1, <2>3, <3>2, <3>6 DEF QueueInv
    <3>8. ASSUME NEW j \in 1 .. Len(e)
          PROVE  /\ e[j].of <= turn
                 /\ row # "AwaitSource" \/ j # n => e[j].turn # "AwaitSource"
                 /\ j < n => e[j].turn = "Retained"
      <4>0. j \in 1 .. (Len(q) + 1)
        BY Zenon, <3>3
      <4>1. CASE j = n
        <5>1. e[j] = back
          BY <1>1, <3>3, <4>0, <4>1
        <5> QED
          BY <1>1, <2>2, <3>1, <4>1, <5>1
      <4>2. CASE j < n
        <5>1. e[j] = q[j] /\ j \in 1 .. Len(q) /\ j \in 1 .. (n - 1) /\ j # n
          BY <1>1, <2>3, <3>3, <4>0, <4>2
        <5> QED
          BY <2>2, <5>1 DEF NoneAwaits, RetainedBefore
      <4>3. CASE j > n
        <5>1. e[j] = q[j - 1] /\ j - 1 \in 1 .. Len(q) /\ ~(j < n)
          BY <1>1, <2>3, <3>3, <4>0, <4>3
        <5> QED
          BY Zenon, <2>2, <5>1 DEF NoneAwaits
      <4> QED
        BY <1>1, <4>0, <4>1, <4>2, <4>3
    <3>9. AwaitsFirst(d') /\ \A j \in 1 .. Len(d'.settlements) : d'.settlements[j].of <= turn
      <4>1. ASSUME NEW j \in 1 .. Len(e), e[j].turn = "AwaitSource", NEW k \in 1 .. (j - 1)
            PROVE  e[k].turn = "Retained"
        <5>1. j = n
          BY Zenon, <3>8, <4>1
        <5>2. k \in 1 .. Len(e) /\ k < n
          BY <1>1, <2>3, <3>3, <4>1, <5>1
        <5> QED
          BY Zenon, <3>8, <5>2
      <4> QED
        BY Zenon, <3>2, <3>8, <4>1 DEF AwaitsFirst, RetainedBefore
    <3>10. RowsInv'
      BY Zenon, <1>1, <2>1, <2>2, <3>9 DEF RowsInv
    <3> QED
      BY ZenonT(60), <2>4, <3>7, <3>10 DEF OrderInv
  <2> QED
    BY Zenon, <2>1, <2>5, <2>6
<1> QED
  BY ZenonT(60), <1>2, <1>3

\* A step that keeps the slots and the turn, and requests no event it did not request.
LEMMA StayOrder ==
    ASSUME IInv, OrderInv, d.phase \in Running, d'.phase \in Running, SameButIngress(d, d'),
           turn' = turn, host' = host, d'.interpretation = None \/ pc = "apply",
           pc' \in {"nextSource", "next", "fold", "apply"} => pc \in {"nextSource", "next", "fold", "apply"},
           pc' = "apply" => pc = "apply",
           pc = "apply" => d'.actions # None \/ d'.interpretation # None
    PROVE  OrderInv'
<1>1. Waiting(d') = Waiting(d) /\ TakenBy(d', host') = TakenBy(d, host)
  BY Zenon DEF SameButIngress, Waiting, TakenBy
<1>2. QueueInv'
  BY Zenon, <1>1, QueueFrame DEF OrderInv, SameButIngress
<1>3. RowsInv'
  BY ZenonT(60) DEF OrderInv, RowsInv, SameButIngress, AwaitsFirst, NoneAwaits, RetainedBefore
<1>4. HostInv'
  BY ZenonT(60), <1>1 DEF OrderInv, HostInv, SameButIngress
<1> QED
  BY Zenon, <1>2, <1>3, <1>4 DEF OrderInv

\* Publication and event requests move no row.
LEMMA EventOrder ==
    ASSUME IInv, TurnInv, SlotsInv, OrderInv, Publish \/ IngressReturns
    PROVE  OrderInv'
<1>1. /\ d.phase \in Running /\ turn' = turn /\ host' = host /\ d.interpretation = None
      /\ pc # "apply" /\ pc' # "apply"
      /\ pc' \in {"nextSource", "next", "fold", "apply"} => pc \in {"nextSource", "next", "fold", "apply"}
  BY DEF IInv, PcPhase, TurnInv, Publish, IngressReturns, Turning, custody, Goto
<1>2. SameButIngress(d, d') /\ (d'.phase \in Ended \/ d'.phase \in Running)
  BY Zenon, <1>1, PublishEffect, IngressEffect DEF GoesOn, Running, Ended
<1>3. d'.interpretation = None
  BY Zenon, <1>1, <1>2 DEF SameButIngress
<1> QED
  BY Zenon, <1>1, <1>2, <1>3, StopOrder, StayOrder

\* A fold makes every row older than the turn it begins.
LEMMA FoldOrder ==
    ASSUME IInv, TurnInv, SlotsInv, OrderInv, Fold \/ NoEvent
    PROVE  OrderInv'
<1>1. /\ d.phase \in Running /\ pc = "fold" /\ host' = host /\ turn \in Int /\ d.actions = None
      /\ d.interpretation = None /\ d.settlements \in Seq(Rows)
  BY FoldEffect, MaxTurnsAssumption
     DEF IInv, TypeOK, DriverType, TurnInv, SlotsInv, Fold, NoEvent, custody, Slot, Turns, None
<1>2. CASE SameButIngress(d, d') /\ d'.phase = "Retiring"
  BY Zenon, <1>1, <1>2, StopOrder DEF Ended
<1>3. CASE /\ turn' = turn + 1 /\ pc' = "apply"
           /\ d'.actions = turn + 1 /\ d'.environment = d.environment
           /\ d'.interpretation = d.interpretation /\ d'.source_index = d.source_index
           /\ d'.settlements = d.settlements /\ d'.retirement_input = d.retirement_input
           /\ d'.phase = d.phase
  <2>1. /\ d.source_index = None /\ NoneAwaits(d) /\ AwaitsFirst(d) /\ host = {}
        /\ \A i \in 1 .. Len(d.settlements) : d.settlements[i].of <= turn
        /\ d.retirement_input # NoInput => d.settlements = <<>>
    BY Zenon, <1>1 DEF OrderInv, RowsInv, HostInv
  <2>2. ASSUME NEW i \in 1 .. Len(d.settlements)
        PROVE  d.settlements[i].of < turn + 1 /\ d.settlements[i].of <= turn + 1
    <3>1. d.settlements[i].of \in Int /\ d.settlements[i].of <= turn
      BY Zenon, <1>1, <2>1, OfSeqElements
    <3> QED
      BY <1>1, <3>1
  <2>3. Waiting(d') = Waiting(d) /\ turn + 1 # None
    <3>1. turn + 1 # None
      BY MaxTurnsAssumption DEF IInv, TypeOK, Slot, Turns, None
    <3> QED
      BY Zenon, <1>3, <3>1 DEF Waiting
  <2>4. QueueInv'
    BY Zenon, <1>3, <2>1, <2>3, QueueFrame DEF OrderInv
  <2>5. RowsInv'
    BY ZenonT(60), <1>1, <1>3, <2>1, <2>2, <2>3 DEF RowsInv, AwaitsFirst, NoneAwaits, RetainedBefore
  <2>6. HostInv'
    BY ZenonT(60), <1>1, <1>3, <2>1 DEF HostInv
  <2> QED
    BY Zenon, <2>4, <2>5, <2>6 DEF OrderInv
<1> QED
  BY ZenonT(60), ZenonT(30), <1>2, <1>3, FoldEffect

\* The host moves the turn it applies; no row is out.
LEMMA ApplyOrder ==
    ASSUME IInv, OrderInv, HostTakesActions \/ HostRepliesInterpretation
    PROVE  OrderInv'
<1>1. d.phase \in Running /\ pc = "apply" /\ pc' = "apply" /\ turn' = turn
  BY DEF IInv, PcPhase, HostTakesActions, HostRepliesInterpretation
<1>2. /\ SameControl(d, d') /\ SameQueue(d, d') /\ d'.environment = d.environment /\ d.interpretation = None
  BY Zenon, HostActionsEffect
<1>3. /\ d.source_index = None /\ d.actions \in {None, turn}
      /\ IF d.actions = None THEN host \subseteq {turn} ELSE host = {}
  BY Zenon, <1>1, <1>2 DEF OrderInv, RowsInv, HostInv
<1>4. /\ d'.interpretation \in {None, turn} /\ d'.actions \in {None, turn}
      /\ IF d'.actions = None /\ d'.interpretation = None THEN host' \subseteq {turn} ELSE host' = {}
  <2>1. turn # None
    BY Zenon, <1>1 DEF OrderInv, RowsInv
  <2>2. CASE d.actions # None /\ d'.actions = None /\ d'.interpretation = d.interpretation
             /\ host' = host \cup {d.actions}
    BY Zenon, <1>2, <1>3, <2>2
  <2>3. CASE d'.actions = d.actions /\ d'.interpretation = turn /\ host' = host \ {turn}
    BY Zenon, <1>3, <2>1, <2>3
  <2> QED
    BY Zenon, <2>2, <2>3, HostActionsEffect
<1>5. Waiting(d') = Waiting(d)
  BY Zenon, <1>2 DEF Waiting, SameQueue
<1>6. QueueInv'
  BY ZenonT(60), <1>2, <1>3, <1>5, QueueFrame DEF OrderInv, SameQueue
<1>7. RowsInv'
  BY ZenonT(60), <1>1, <1>2, <1>4
     DEF OrderInv, RowsInv, SameControl, SameQueue, AwaitsFirst, NoneAwaits, RetainedBefore
<1>8. HostInv'
  BY Zenon, <1>1, <1>2, <1>3, <1>4 DEF HostInv, SameQueue
<1> QED
  BY ZenonT(60), <1>6, <1>7, <1>8 DEF OrderInv

\* A returned apply moves no row.
LEMMA AppliedOrder ==
    ASSUME IInv, OrderInv, ApplyReturns
    PROVE  OrderInv'
<1>1. d.phase \in Running /\ turn' = turn /\ host' = host /\ pc = "apply" /\ pc' = "loop"
  BY DEF IInv, PcPhase, ApplyReturns, custody, Goto
<1>2. CASE Stopping(d, d')
  BY Zenon, <1>1, <1>2, StopOrder DEF Stopping, SameSlots, SameButIngress, Ended
<1>3. CASE d' = d /\ d.interpretation # None
  <2>1. SameButIngress(d, d')
    BY Zenon, <1>3 DEF SameButIngress
  <2> QED
    BY ZenonT(60), <1>1, <1>3, <2>1, StayOrder
<1> QED
  BY Zenon, <1>2, <1>3, ApplyEffect

\* The retirement input is the queue, with an unoffered row back in its place.
LEMMA RetireOrder ==
    ASSUME IInv, OrderInv, Retire
    PROVE  OrderInv'
<1>1. host' = host /\ d \in DriverType /\ IndexInQueue /\ d.settlements \in Seq(Rows) /\ d.source_input \in Slot
  BY DEF Retire, custody, IInv, TypeOK, DriverType
<1>2. PICK t : /\ t = d \/ t = Collected(d)
               /\ d'.phase \in Ended
               /\ SameQueue(t, d') /\ SameSource(t, d') /\ d'.environment = t.environment
  BY Zenon, RetireEffect
<1>3. Waiting(d') = Waiting(t) /\ TakenBy(d', host') = TakenBy(t, host)
  BY Zenon, <1>1, <1>2 DEF Waiting, TakenBy, SameQueue, SameSource
<1>4. HostInv'
  BY <1>2 DEF HostInv, Ended, Running
<1>5. CASE t = d
  <2>1. QueueInv'
    BY ZenonT(60), <1>2, <1>3, <1>5, QueueFrame DEF OrderInv, SameQueue
  <2>2. RowsInv'
    BY <1>2, <1>5 DEF OrderInv, RowsInv, SameQueue, Ended, Running
  <2> QED
    BY Zenon, <1>4, <2>1, <2>2 DEF OrderInv
<1>6. CASE t # d
  <2>0. t = Collected(d)
    BY Zenon, <1>2, <1>6
  <2> DEFINE row == [turn |-> "Retained", of |-> d.source_input]
             rows == InsertAt(d.settlements, d.source_index, row)
  <2>1. /\ d.retirement_input = NoInput
        /\ t.settlements = <<>> /\ t.retirement_input # NoInput /\ t.environment = d.environment
        /\ t.source_received = d.source_received
        /\ \/ /\ d.source_input # None /\ d.source_index # None
              /\ t.source_index = None
              /\ t.retirement_input = OfSeq(rows)
           \/ /\ t.source_input = d.source_input /\ t.source_index = d.source_index
              /\ t.retirement_input = OfSeq(d.settlements)
    BY ZenonT(60), ZenonT(60), <1>1, <1>6, <2>0, CollectedEffect DEF OfSeq, Queued
  <2>2. RowsInv'
    BY <1>2, <2>1 DEF OrderInv, RowsInv, SameQueue, Ended, Running
  <2>3. Waiting(d) = OfSeq(d.settlements) /\ Waiting(t) = t.retirement_input
    BY Zenon, <2>1 DEF Waiting
  <2>4. CASE t.source_index = d.source_index /\ t.source_input = d.source_input
             /\ t.retirement_input = OfSeq(d.settlements)
    <3>1. TakenBy(d', host') = TakenBy(d, host)
      BY Zenon, <1>3, <2>1, <2>4 DEF TakenBy
    <3>2. QueueInv'
      BY ZenonT(60), <1>2, <1>3, <2>3, <2>4, <3>1, QueueFrame DEF OrderInv, SameQueue
    <3> QED
      BY Zenon, <1>4, <2>2, <3>2 DEF OrderInv
  <2>5. CASE /\ d.source_input # None /\ d.source_index # None
             /\ t.source_index = None
             /\ t.retirement_input = OfSeq(rows)
    <3>1. row \in Rows /\ row.of = d.source_input /\ d.source_input \in Int
      BY <1>1, <2>5, MaxTurnsAssumption DEF Rows, Slot, Turns, None
    <3>2. d.source_index \in 1 .. (Len(d.settlements) + 1)
      BY Zenon, <1>1, <2>1, <2>5 DEF IndexInQueue
    <3> HIDE DEF row
    <3>3. Extends(OfSeq(rows), OfSeq(d.settlements), d.source_index, d.source_input)
      BY Zenon, <1>1, <3>1, <3>2, OfSeqExtends
    <3> HIDE DEF rows
    <3>4. OfSeq(d.settlements) \in Seq(Int) /\ Len(d.settlements) \in Nat
      BY Zenon, <1>1, OfSeqElements
    <3>5. Decreasing(OfSeq(d.settlements)) /\ Fits(OfSeq(d.settlements), d.source_index, d.source_input)
      BY Zenon, <2>3, <2>5 DEF OrderInv, QueueInv, TakenBy
    <3>6. d.source_index \in Int
      BY <3>2, <3>4
    <3>7. Decreasing(OfSeq(rows))
      BY ZenonT(60), <3>1, <3>3, <3>4, <3>5, <3>6, DecreasingExtends
    <3>8. QueueInv'
      BY ZenonT(60), <1>2, <1>3, <2>3, <2>5, <3>7 DEF QueueInv, SameQueue
    <3> QED
      BY ZenonT(60), <1>4, <2>2, <3>8 DEF OrderInv
  <2> QED
    BY Zenon, <2>1, <2>4, <2>5
<1> QED
  BY Zenon, <1>5, <1>6

\* The host takes rows away at the barrier, and the position with them.
LEMMA BarrierOrder ==
    ASSUME IInv, OrderInv, HostTakesPrepared \/ HostTakesActive \/ HostRepliesResidual \/ RetireReturns
    PROVE  OrderInv'
<1>1. d.phase \in Ended
  BY DEF IInv, PcPhase, HostTakesPrepared, HostTakesActive, HostRepliesResidual, RetireReturns, Ended
<1>2. d'.phase = d.phase /\ d'.settlements = d.settlements /\ d'.environment \in {d.environment, FALSE}
  <2>1. CASE HostTakesPrepared
    <3>1. d.environment /\ ~d'.environment
      BY Zenon, <2>1, TakesEnvironmentEffect DEF HostTakesPrepared
    <3>2. d'.environment \in BOOLEAN
      BY <2>1 DEF HostTakesPrepared, IInv, TypeOK, DriverType
    <3> QED
      BY Zenon, <2>1, <3>1, <3>2, TakesEnvironmentEffect DEF SameControl, SameQueue
  <2>2. CASE HostTakesActive \/ HostRepliesResidual \/ RetireReturns
    BY Zenon, <2>2, TakesActiveEffect, BarrierEffect DEF SameControl, SameQueue
  <2> QED
    BY Zenon, <2>1, <2>2
<1>3. HostInv'
  BY <1>1, <1>2 DEF HostInv, Ended, Running
<1>4. CASE SameQueue(d, d')
  <2>1. Waiting(d') = Waiting(d)
    BY Zenon, <1>4 DEF Waiting, SameQueue
  <2>2. RowsInv'
    BY Zenon, <1>1, <1>2, <1>4 DEF OrderInv, RowsInv, SameQueue, Ended, Running
  <2>3. d'.source_index = None \/ \A t \in TakenBy(d', host') : t # None => t \in TakenBy(d, host)
    <3>1. CASE HostTakesPrepared
      <4>1. d.environment
        BY Zenon, <3>1 DEF HostTakesPrepared
      <4> QED
        BY Zenon, <1>4, <4>1 DEF OrderInv, RowsInv, SameQueue
    <3>2. CASE HostTakesActive
      <4>1. d'.source_input = d.source_input
        BY Zenon, <3>2, TakesActiveEffect
      <4>2. \/ d'.source_index = None
            \/ d'.source_received = d.source_received /\ host' = host
        BY Zenon, <3>2, TakesActiveEffect
      <4> QED
        BY Zenon, <4>1, <4>2 DEF TakenBy
    <3>3. CASE HostRepliesResidual \/ RetireReturns
      <4>1. SameSource(d, d')
        BY Zenon, <3>3, BarrierEffect
      <4>2. host' \subseteq host
        BY Zenon, <3>3 DEF HostRepliesResidual, RetireReturns
      <4> QED
        BY Zenon, <4>1, <4>2 DEF TakenBy, SameSource
    <3> QED
      BY Zenon, <3>1, <3>2, <3>3
  <2>4. QueueInv'
    BY ZenonT(60), <1>4, <2>1, <2>3, QueueFrame DEF OrderInv, SameQueue
  <2> QED
    BY Zenon, <1>3, <2>2, <2>4 DEF OrderInv
<1>5. CASE HostTakesActive /\ d'.source_index = None /\ d'.retirement_input = NoInput
  <2>1. RowsInv'
    BY <1>1, <1>2, <1>5 DEF RowsInv, Ended, Running
  <2>2. Waiting(d') = OfSeq(d.settlements)
    BY Zenon, <1>2, <1>5 DEF Waiting
  <2>3. Decreasing(OfSeq(d.settlements))
    <3>1. CASE d.retirement_input = NoInput
      BY Zenon, <3>1 DEF OrderInv, QueueInv, Waiting
    <3>2. CASE d.settlements = <<>>
      BY <3>2 DEF OfSeq, Decreasing
    <3> QED
      BY Zenon, <3>1, <3>2 DEF OrderInv, RowsInv
  <2>4. QueueInv'
    BY Zenon, <1>5, <2>2, <2>3 DEF QueueInv
  <2> QED
    BY ZenonT(60), <1>3, <2>1, <2>4 DEF OrderInv
<1>6. SameQueue(d, d') \/ (HostTakesActive /\ d'.source_index = None /\ d'.retirement_input = NoInput)
  BY Zenon, TakesEnvironmentEffect, TakesActiveEffect, BarrierEffect DEF SameQueue
<1> QED
  BY Zenon, <1>4, <1>5, <1>6

\* Every step keeps the order.
LEMMA NextOrder ==
    ASSUME "apply" \notin CancelPoints, IInv, TurnInv, SlotsInv, OrderInv, [Next]_vars
    PROVE  OrderInv'
<1>1. CASE UNCHANGED vars
  <2>1. d' = d /\ pc' = pc /\ turn' = turn /\ host' = host
    BY Zenon, <1>1 DEF vars
  <2> QED
    BY Zenon, <2>1 DEF OrderInv, QueueInv, RowsInv, HostInv
<1> QED
  BY ZenonT(60), <1>1, CallerOrder, EarlyOrder, ActivatedOrder, ClassifyOrder, SelectOfferOrder, SelectAwaitOrder,
     HostSourceOrder, ReceivedOrder, EventOrder, FoldOrder, ApplyOrder, AppliedOrder, RetireOrder,
     BarrierOrder DEF Next, Drive, HostReplies, HostReturns

\* The queue and the retirement input together are what waits: one of them is empty.
LEMMA WaitingIsBoth ==
    ASSUME IInv, RowsInv
    PROVE  Queued(d) \o Listed(d) = Waiting(d) /\ Waiting(d) \in Seq(Int)
<1>1. d.settlements \in Seq(Rows) /\ d.retirement_input \in Seq(Slot) /\ Slot \subseteq Int
  BY MaxTurnsAssumption DEF IInv, TypeOK, DriverType, Slot, Turns, None
<1>2. OfSeq(d.settlements) \in Seq(Int) /\ Queued(d) = OfSeq(d.settlements)
  BY Zenon, <1>1, OfSeqElements DEF OfSeq, Queued
<1>3. d.retirement_input \in Seq(Int)
  BY Zenon, <1>1, SeqMonotonic
<1> DEFINE q == OfSeq(d.settlements)
           l == d.retirement_input
<1>4. CASE d.retirement_input = NoInput
  <2>1. Listed(d) = <<>> /\ Waiting(d) = q
    BY Zenon, <1>4 DEF Listed, Waiting
  <2>2. q \in Seq(Int)
    BY Zenon, <1>2
  <2> HIDE DEF q
  <2>3. q \o <<>> = q
    BY <2>2, ConcatEmptySeq
  <2> QED
    BY Zenon, <1>2, <2>1, <2>2, <2>3 DEF q
<1>5. CASE d.retirement_input # NoInput
  <2>1. Listed(d) = l /\ Waiting(d) = l /\ d.settlements = <<>>
    BY Zenon, <1>5 DEF Listed, Waiting, RowsInv
  <2>2. Queued(d) = <<>>
    BY <2>1 DEF Queued
  <2>3. l \in Seq(Int)
    BY Zenon, <1>3
  <2> HIDE DEF l
  <2>4. <<>> \o l = l
    BY <2>3, ConcatEmptySeq
  <2> QED
    BY Zenon, <2>1, <2>2, <2>3, <2>4
<1> QED
  BY Zenon, <1>4, <1>5

\* The invariant says what CausalOrder says.
LEMMA OrderFollows ==
    ASSUME IInv, OrderInv
    PROVE  CausalOrder
<1> DEFINE w == Waiting(d)
           Newest(i) == \A j \in 1 .. (i - 1) : d.settlements[j].turn = "Retained"
           taken == ({d.source_input, d.source_received.of} \cup host) \ {None}
<1>1. Queued(d) \o Listed(d) = w /\ w \in Seq(Int)
  BY Zenon, WaitingIsBoth DEF OrderInv
<1>2. Decreasing(w)
  BY Zenon DEF OrderInv, QueueInv
<1>3. ASSUME d.source_index # None, NEW t \in taken
      PROVE  Decreasing(InsertAt(w, d.source_index, t))
  <2>1. Fits(w, d.source_index, t) /\ d.source_index \in 1 .. (Len(w) + 1)
    BY Zenon, <1>3 DEF OrderInv, QueueInv, TakenBy
  <2>2. t \in Int
    <3>1. d.source_input \in Slot /\ d.source_received.of \in Slot /\ host \subseteq Slot
      BY DEF IInv, TypeOK, DriverType, Receipts, NoCustody, Slot
    <3>2. Slot \subseteq Int
      BY MaxTurnsAssumption DEF Slot, Turns, None
    <3> QED
      BY ZenonT(60), <1>3, <3>1, <3>2
  <2> DEFINE n == d.source_index
             e == InsertAt(w, n, t)
  <2>3. n \in 1 .. (Len(w) + 1) /\ Fits(w, n, t)
    BY Zenon, <2>1
  <2> HIDE DEF w, taken, n
  <2>4. Extends(e, w, n, t)
    BY Zenon, <1>1, <2>2, <2>3, InsertAtExtends
  <2> HIDE DEF e
  <2>5. n \in Int
    BY <1>1, <2>3
  <2>6. Decreasing(e)
    BY <1>1, <1>2, <2>2, <2>3, <2>4, <2>5, DecreasingExtends
  <2> QED
    BY Zenon, <2>6 DEF e, n
<1>4. ASSUME d.phase \in Running
      PROVE  /\ d.source_index # None => Newest(d.source_index)
             /\ \A i \in DOMAIN d.settlements : d.settlements[i].turn = "AwaitSource" => Newest(i)
  <2>1. DOMAIN d.settlements = 1 .. Len(d.settlements)
    BY DEF IInv, TypeOK, DriverType
  <2> QED
    BY Zenon, <1>4, <2>1 DEF OrderInv, RowsInv, AwaitsFirst, RetainedBefore
<1> HIDE DEF w
<1> QED
  BY Zenon, <1>1, <1>2, <1>3, <1>4 DEF CausalOrder

\* D-SETTLE-1: for every bound and every host, settlements wait in causal queue order,
\* newest first, the row out for its source still fits at source_index, and whatever
\* progresses is newer than every other row that could.  Again under the assumption that
\* no caller drops the future inside apply.
THEOREM OrderKept ==
    ASSUME "apply" \notin CancelPoints
    PROVE  Spec => []CausalOrder
<1>1. Init => TurnInv /\ SlotsInv /\ Covered /\ OrderInv
  <2> SUFFICES ASSUME Init PROVE TurnInv /\ SlotsInv /\ Covered /\ OrderInv
    OBVIOUS
  <2>1. TurnInv /\ RowsInv /\ HostInv
    BY DEF Init, TurnInv, RowsInv, HostInv, Running, None
  <2>2. SlotsInv
    BY DEF Init, SlotsInv, SourceEmpty, Running, Ended, None, NoResidual, NoCustody
  <2>3. 0 .. turn = {}
    BY DEF Init, None
  <2>4. Waiting(d) = <<>> /\ d.source_index = None
    BY DEF Init, Waiting, OfSeq
  <2>5. Decreasing(<<>>)
    BY DEF Decreasing
  <2> QED
    BY ZenonT(60), <2>1, <2>2, <2>3, <2>4, <2>5 DEF Covered, OrderInv, QueueInv
<1>2. IInv /\ TurnInv /\ SlotsInv /\ Covered /\ OrderInv /\ [Next]_vars
        => TurnInv' /\ SlotsInv' /\ Covered' /\ OrderInv'
  BY Zenon, NextTurn, NextCustody, NextOrder
<1>3. IInv /\ OrderInv => CausalOrder
  BY Zenon, OrderFollows
<1> QED
  BY <1>1, <1>2, <1>3, Inductive, PTL DEF Spec
=============================================================================
