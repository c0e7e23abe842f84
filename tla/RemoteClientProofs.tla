------------------------- MODULE RemoteClientProofs -------------------------
(***************************************************************************)
(* Proofs about remote/client.rs: no reply reaches the actor twice, and    *)
(* the custody of every message and of every native reply.                 *)
(***************************************************************************)
EXTENDS RemoteClient, FiniteSetTheorems, TLAPS

\* A leaf that names no prover is tried with SMT, then Zenon, then SMT twice more with more time.
USE SMTT(20), Zenon, SMTT(40), SMTT(60)

\* The custody of a reply, and of a request.
Responses ==
    [original : {"sample", "error"}, shape : {"None", "Ok", "Json", "error"},
     verified : {"None", "Ok", "Err", "Panic"},
     decoded : {"None", "Left", "Ok", "Err", "Full", "Closed"}, denied : BOOLEAN,
     charge : {"row", "released", "error"}]

Stages == {"start", "protecting", "visible", "receiving", "verifying", "capacity",
           "done", "dropped", "unstarted", "parts"}

Requests ==
    [m : Nat, stage : Stages, refusal : {"None", "Json", "Permission"},
     encoded : {"None", "Some", "NoGet", "Refused"}, protected : {"None", "Ok", "Err", "Panic"},
     query : {"Unattempted", "Ok", "Err"}, callback : {"none", "live", "gone"},
     queue : Seq({"sample", "error"}), refused : {"None", "sample", "error"},
     discharged : Nat, replies : Seq(Responses), eof : BOOLEAN, completed : BOOLEAN]

\* The messages of the rows and of the unread source, by position.
InOrder(rows, queue, count) ==
    /\ \A r \in DOMAIN rows : rows[r].m = r
    /\ \A i \in DOMAIN queue : queue[i] = Len(rows) + i
    /\ Len(rows) + Len(queue) = count

Waiting == {"protecting", "visible", "receiving", "verifying", "capacity"}
Held(rows) == {r \in DOMAIN rows : rows[r].stage \in Waiting}

\* Before its Get a row has no callback, and replies come from a Get that was issued.
CallbackOK(row) ==
    /\ row.query = "Unattempted" <=> row.callback = "none"
    /\ row.callback = "live" \/ row.queue # <<>> \/ row.replies # <<>> => row.query = "Ok"

\* What a row's stage says: whether its Get was attempted, and that the reply
\* being verified or offered was not delivered.
StageOK(row) ==
    /\ row.stage \in {"start", "protecting", "visible", "unstarted"} => row.query = "Unattempted"
    /\ row.stage \in {"receiving", "verifying", "capacity"} => row.query # "Unattempted"
    /\ row.stage = "verifying" =>
          row.replies # <<>> /\ row.replies[Len(row.replies)].decoded = "None"
    /\ row.stage = "capacity" =>
          /\ row.replies # <<>> /\ row.replies[Len(row.replies)].decoded = "Full"
          /\ row.replies[Len(row.replies)].verified = "Ok"

\* What a row holds of the replies the network gave it.
HoldingOK(row, given) ==
    /\ Charges(row) <= RetainedResponses
    /\ given = Len(row.queue) + Len(row.replies) + row.discharged + (IF row.refused = "None" THEN 0 ELSE 1)
    /\ row.eof => row.callback = "gone" /\ row.queue = <<>>
    /\ \A i \in DOMAIN row.replies :
          row.replies[i].charge = "released" => row.replies[i].original = "sample" /\ row.eof

RowOK(row, given) == CallbackOK(row) /\ StageOK(row) /\ HoldingOK(row, given)

\* A delivered reply is one of its row's, verified and decoded.
DeliveredOK(rows, d) ==
    /\ d[1] \in DOMAIN rows /\ d[2] \in DOMAIN rows[d[1]].replies
    /\ rows[d[1]].replies[d[2]].verified = "Ok" /\ rows[d[1]].replies[d[2]].decoded = "Ok"

Deliveries(rows, list) ==
    /\ \A i, j \in DOMAIN list : list[i] = list[j] => i = j
    /\ \A i \in DOMAIN list : DeliveredOK(rows, list[i])

\* Before and after serving.
PhaseOK(p, rows) ==
    /\ p \in {"fresh", "cold"} => rows = <<>>
    /\ p \in {"prefix", "withdraw", "retiring", "ended", "taken"} => \A r \in DOMAIN rows : ~Pending(rows[r])
    /\ p \in {"ended", "taken"} => \A r \in DOMAIN rows : ~Undrained(rows[r])
    /\ p # "panicked"

\* The rows, what is unread, what was given and what was delivered.
RowsInv(rows, queue, count, given, list) ==
    /\ rows \in Seq(Requests) /\ Len(rows) <= RetainedRequests
    /\ queue \in Seq(Nat) /\ count \in Nat
    /\ given \in [RowIds -> Nat] /\ list \in Seq(RowIds \X Nat)
    /\ InOrder(rows, queue, count)
    /\ Cardinality(Held(rows)) <= ConcurrentRequests
    /\ \A r \in DOMAIN rows : RowOK(rows[r], given[r])
    /\ \A r \in RowIds \ DOMAIN rows : given[r] = 0
    /\ Deliveries(rows, list)

\* The inductive invariant.
ClientInv ==
    /\ source \in [open : BOOLEAN, queue : Seq(Nat), eof : BOOLEAN]
    /\ RowsInv(requests, source.queue, accepted, gave, delivered) /\ PhaseOK(phase, requests)

-----------------------------------------------------------------------------
(* The limits and the rows *)

LEMMA Limits ==
    /\ ConcurrentRequests \in Nat /\ RetainedRequests \in Nat /\ RetainedResponses \in Nat
    /\ ConcurrentRequests > 0 /\ RetainedRequests > 0 /\ RetainedResponses > 0
  BY ClientLimitsPositive

\* The facts of one row.
LEMMA RowFacts ==
    ASSUME NEW rows, NEW queue, NEW count, NEW given, NEW list, RowsInv(rows, queue, count, given, list),
           NEW r \in DOMAIN rows
    PROVE  /\ rows[r] \in Requests /\ RowOK(rows[r], given[r])
           /\ r \in RowIds /\ given[r] \in Nat
  <1>1. /\ rows \in Seq(Requests) /\ Len(rows) <= RetainedRequests /\ given \in [RowIds -> Nat]
        /\ \A s \in DOMAIN rows : RowOK(rows[s], given[s])
    BY DEF RowsInv
  <1>2. rows[r] \in Requests /\ r \in 1 .. Len(rows)
    BY <1>1
  <1>3. r \in RowIds
    BY <1>1, <1>2, Limits DEF RowIds
  <1> QED
    BY <1>1, <1>2, <1>3

\* A reply that was delivered stays as it is.
Keeps(old, new) ==
    \A i \in DOMAIN old.replies :
        /\ i \in DOMAIN new.replies
        /\ old.replies[i].decoded = "Ok" /\ old.replies[i].verified = "Ok" =>
              new.replies[i].decoded = "Ok" /\ new.replies[i].verified = "Ok"

\* The positions whose operation holds a permit are finitely many.
LEMMA HeldFinite ==
    ASSUME NEW S, NEW rows \in Seq(S)
    PROVE  IsFiniteSet(Held(rows)) /\ Cardinality(Held(rows)) \in Nat
  <1>1. IsFiniteSet(1 .. Len(rows))
    BY FS_Interval
  <1>2. IsFiniteSet(Held(rows))
    BY <1>1, FS_Subset DEF Held
  <1> QED
    BY <1>2, FS_CardinalityType

\* Fewer operations hold a permit.
LEMMA HeldFewer ==
    ASSUME NEW S, NEW rows \in Seq(S), NEW f, \A r \in Held(f) : r \in Held(rows),
           Cardinality(Held(rows)) <= ConcurrentRequests
    PROVE  Cardinality(Held(f)) <= ConcurrentRequests
  <1>1. IsFiniteSet(Held(rows)) /\ Cardinality(Held(rows)) \in Nat
    BY HeldFinite
  <1>2. IsFiniteSet(Held(f)) /\ Cardinality(Held(f)) <= Cardinality(Held(rows))
    BY <1>1, FS_Subset
  <1>3. Cardinality(Held(f)) \in Nat
    BY <1>2, FS_CardinalityType
  <1> QED
    BY <1>1, <1>2, <1>3, Limits

\* One row becomes another.
LEMMA RowBecomes ==
    ASSUME NEW rows, NEW queue, NEW count, NEW given, NEW list, RowsInv(rows, queue, count, given, list),
           NEW r \in DOMAIN rows, NEW row \in Requests, row.m = rows[r].m,
           NEW more \in [RowIds -> Nat], \A s \in RowIds : s # r => more[s] = given[s],
           RowOK(row, more[r]), Keeps(rows[r], row),
           \/ row.stage \in Waiting => rows[r].stage \in Waiting
           \/ Cardinality(Held(rows)) < ConcurrentRequests
    PROVE  RowsInv([rows EXCEPT ![r] = row], queue, count, more, list)
  <1> DEFINE f == [rows EXCEPT ![r] = row]
  <1>1. /\ rows \in Seq(Requests) /\ Len(rows) <= RetainedRequests
        /\ queue \in Seq(Nat) /\ count \in Nat /\ given \in [RowIds -> Nat] /\ list \in Seq(RowIds \X Nat)
        /\ InOrder(rows, queue, count) /\ Cardinality(Held(rows)) <= ConcurrentRequests
        /\ \A s \in DOMAIN rows : RowOK(rows[s], given[s])
        /\ \A s \in RowIds \ DOMAIN rows : given[s] = 0
        /\ Deliveries(rows, list)
    BY DEF RowsInv
  <1>2. PICK S : S = Requests
    OBVIOUS
  <1>3. /\ f \in Seq(S) /\ Len(f) = Len(rows) /\ DOMAIN f = DOMAIN rows
        /\ f[r] = row /\ \A s \in DOMAIN rows : s # r => f[s] = rows[s]
    <2>1. rows \in Seq(S) /\ r \in DOMAIN rows /\ row \in S
      BY <1>1, <1>2
    <2> QED
      BY ONLY <2>1
  <1> HIDE DEF f
  <1>4. InOrder(f, queue, count)
    BY Zenon, <1>1, <1>3 DEF InOrder
  <1>5. \A s \in DOMAIN f : s \in RowIds
    BY <1>3, RowFacts
  <1>6. \A s \in DOMAIN f : RowOK(f[s], more[s])
    BY Zenon, <1>1, <1>3, <1>5
  <1>7. \A s \in RowIds \ DOMAIN f : more[s] = 0
    BY <1>1, <1>3
  <1>8. Deliveries(f, list)
    <2>1. ASSUME NEW i \in DOMAIN list PROVE DeliveredOK(f, list[i])
      <3>1. DeliveredOK(rows, list[i])
        BY <1>1 DEF Deliveries
      <3>2. CASE list[i][1] = r
        BY <1>3, <3>1, <3>2 DEF DeliveredOK, Keeps
      <3>3. CASE list[i][1] # r
        BY <1>3, <3>1, <3>3 DEF DeliveredOK
      <3> QED
        BY <3>2, <3>3
    <2> QED
      BY <1>1, <2>1 DEF Deliveries
  <1>9. Cardinality(Held(f)) <= ConcurrentRequests
    <2>1. CASE row.stage \in Waiting => rows[r].stage \in Waiting
      <3>1. \A s \in Held(f) : s \in Held(rows)
        BY <1>3, <2>1 DEF Held
      <3> QED
        BY <1>1, <3>1, HeldFewer
    <2>2. CASE Cardinality(Held(rows)) < ConcurrentRequests
      <3>1. \A s \in Held(f) : s \in Held(rows) \cup {r}
        BY <1>3 DEF Held
      <3>2. IsFiniteSet(Held(rows)) /\ Cardinality(Held(rows)) \in Nat
        BY <1>1, HeldFinite
      <3>3. /\ IsFiniteSet(Held(rows) \cup {r})
            /\ Cardinality(Held(rows) \cup {r}) <= Cardinality(Held(rows)) + 1
        BY <3>2, FS_AddElement
      <3>4. /\ IsFiniteSet(Held(f)) /\ Cardinality(Held(f)) <= Cardinality(Held(rows) \cup {r})
        BY <3>1, <3>3, FS_Subset
      <3>5. Cardinality(Held(f)) \in Nat /\ Cardinality(Held(rows) \cup {r}) \in Nat
        BY <3>3, <3>4, FS_CardinalityType
      <3> QED
        BY <2>2, <3>2, <3>3, <3>4, <3>5, Limits
    <2> QED
      BY <2>1, <2>2
  <1> QED
    BY <1>1, <1>2, <1>3, <1>4, <1>6, <1>7, <1>8, <1>9 DEF RowsInv, f

\* A reply is delivered: it was not before, and is now verified and decoded.
LEMMA RowDelivers ==
    ASSUME NEW rows, NEW queue, NEW count, NEW given, NEW list, RowsInv(rows, queue, count, given, list),
           NEW r \in DOMAIN rows, NEW row \in Requests, row.m = rows[r].m,
           RowOK(row, given[r]), Keeps(rows[r], row), row.stage \in Waiting => rows[r].stage \in Waiting,
           NEW i \in DOMAIN rows[r].replies, rows[r].replies[i].decoded # "Ok",
           i \in DOMAIN row.replies, row.replies[i].verified = "Ok", row.replies[i].decoded = "Ok"
    PROVE  RowsInv([rows EXCEPT ![r] = row], queue, count, given, Append(list, <<r, i>>))
  <1> DEFINE f == [rows EXCEPT ![r] = row]
             new == Append(list, <<r, i>>)
  <1>1. given \in [RowIds -> Nat]
    BY DEF RowsInv
  <1>2. RowsInv(f, queue, count, given, list)
    BY <1>1, RowBecomes
  <1>3. rows[r] \in Requests /\ r \in RowIds
    BY RowFacts
  <1>4. DOMAIN rows = DOMAIN f /\ f[r] = row
    OBVIOUS
  <1> HIDE DEF f
  <1>5. /\ list \in Seq(RowIds \X Nat) /\ Deliveries(f, list) /\ Deliveries(rows, list)
    BY <1>2 DEF RowsInv
  <1>6. i \in Nat
    <2>1. rows[r].replies \in Seq(Responses)
      BY <1>3 DEF Requests
    <2> QED
      BY <2>1
  <1>7. new \in Seq(RowIds \X Nat)
    BY <1>3, <1>5, <1>6
  <1>8. \A j \in DOMAIN new : \/ j \in DOMAIN list /\ new[j] = list[j]
                              \/ j = Len(list) + 1 /\ new[j] = <<r, i>>
    BY <1>5
  <1> HIDE DEF new
  <1>9. \A j \in DOMAIN list : list[j] # <<r, i>>
    BY <1>5 DEF Deliveries, DeliveredOK
  <1>10. DeliveredOK(f, <<r, i>>)
    BY <1>4 DEF DeliveredOK
  <1>11. Deliveries(f, new)
    BY <1>5, <1>8, <1>9, <1>10 DEF Deliveries
  <1> QED
    BY <1>2, <1>7, <1>11 DEF RowsInv, f, new

\* A row that differs only in what no reply and no Get depends on.
Alike(old, new) ==
    /\ new.m = old.m /\ new.query = old.query /\ new.callback = old.callback /\ new.queue = old.queue
    /\ new.replies = old.replies /\ new.refused = old.refused /\ new.discharged = old.discharged
    /\ new.eof = old.eof

LEMMA AlikeOK ==
    ASSUME NEW old, NEW new, NEW given, RowOK(old, given), Alike(old, new), StageOK(new)
    PROVE  RowOK(new, given) /\ Keeps(old, new)
  BY DEF RowOK, Alike, CallbackOK, HoldingOK, Charges, Keeps

\* Every row becomes one like it that holds no permit, or stays.
LEMMA RowsAlike ==
    ASSUME NEW rows, NEW queue, NEW count, NEW given, NEW list, RowsInv(rows, queue, count, given, list),
           NEW f \in [DOMAIN rows -> Requests],
           \A r \in DOMAIN rows :
              f[r] = rows[r] \/ (Alike(rows[r], f[r]) /\ StageOK(f[r]) /\ f[r].stage \notin Waiting)
    PROVE  RowsInv(f, queue, count, given, list)
  <1>1. /\ rows \in Seq(Requests) /\ Len(rows) <= RetainedRequests
        /\ queue \in Seq(Nat) /\ count \in Nat /\ given \in [RowIds -> Nat] /\ list \in Seq(RowIds \X Nat)
        /\ InOrder(rows, queue, count) /\ Cardinality(Held(rows)) <= ConcurrentRequests
        /\ \A s \in DOMAIN rows : RowOK(rows[s], given[s])
        /\ \A s \in RowIds \ DOMAIN rows : given[s] = 0
        /\ Deliveries(rows, list)
    BY DEF RowsInv
  <1>2. f \in Seq(Requests) /\ Len(f) = Len(rows) /\ DOMAIN f = DOMAIN rows
    <2>1. PICK S : S = Requests
      OBVIOUS
    <2>2. rows \in Seq(S) /\ f \in [DOMAIN rows -> S]
      BY <1>1, <2>1
    <2>3. f \in Seq(S) /\ Len(f) = Len(rows) /\ DOMAIN f = DOMAIN rows
      BY ONLY <2>2
    <2> QED
      BY <2>1, <2>3
  <1>3. \A r \in DOMAIN rows : f[r].m = rows[r].m /\ f[r].replies = rows[r].replies
    BY DEF Alike
  <1>4. InOrder(f, queue, count)
    BY Zenon, <1>1, <1>2, <1>3 DEF InOrder
  <1>5. \A r \in DOMAIN f : RowOK(f[r], given[r])
    BY Zenon, <1>1, <1>2, AlikeOK
  <1>6. Cardinality(Held(f)) <= ConcurrentRequests
    <2>1. \A r \in Held(f) : r \in Held(rows)
      BY <1>2 DEF Held
    <2> QED
      BY <1>1, <2>1, HeldFewer
  <1>7. Deliveries(f, list)
    BY Zenon, <1>1, <1>2, <1>3 DEF Deliveries, DeliveredOK
  <1> QED
    BY <1>1, <1>2, <1>4, <1>5, <1>6, <1>7 DEF RowsInv

\* The row of a message just taken from the source.
FreshRow(row) ==
    /\ row \in Requests /\ row.stage \in {"start", "unstarted"}
    /\ row.query = "Unattempted" /\ row.callback = "none" /\ row.queue = <<>> /\ row.replies = <<>>
    /\ row.refused = "None" /\ row.discharged = 0 /\ row.eof = FALSE

LEMMA FreshOK ==
    ASSUME NEW row, FreshRow(row)
    PROVE  RowOK(row, 0)
  <1>1. {i \in DOMAIN row.replies : row.replies[i].charge # "released"} = {}
    BY DEF FreshRow
  <1>2. Charges(row) = 0
    <2>1. Len(row.queue) = 0
      BY DEF FreshRow
    <2> QED
      BY <1>1, <2>1, FS_EmptySet DEF Charges
  <1>3. HoldingOK(row, 0)
    BY <1>2, Limits DEF HoldingOK, FreshRow
  <1> QED
    BY <1>3 DEF RowOK, CallbackOK, StageOK, FreshRow

\* The source's oldest message gets a row.
LEMMA RowAppended ==
    ASSUME NEW rows, NEW queue, NEW count, NEW given, NEW list, RowsInv(rows, queue, count, given, list),
           queue # <<>>, Len(rows) < RetainedRequests, NEW row, FreshRow(row), row.m = Head(queue)
    PROVE  RowsInv(Append(rows, row), Tail(queue), count, given, list)
  <1> DEFINE f == Append(rows, row)
             n == Len(rows) + 1
  <1>1. /\ rows \in Seq(Requests) /\ Len(rows) <= RetainedRequests
        /\ queue \in Seq(Nat) /\ count \in Nat /\ given \in [RowIds -> Nat] /\ list \in Seq(RowIds \X Nat)
        /\ InOrder(rows, queue, count) /\ Cardinality(Held(rows)) <= ConcurrentRequests
        /\ \A s \in DOMAIN rows : RowOK(rows[s], given[s])
        /\ \A s \in RowIds \ DOMAIN rows : given[s] = 0
        /\ Deliveries(rows, list)
    BY DEF RowsInv
  <1>2. row \in Requests
    BY DEF FreshRow
  <1>3. /\ f \in Seq(Requests) /\ Len(f) = n /\ DOMAIN f = DOMAIN rows \cup {n} /\ n \notin DOMAIN rows
        /\ f[n] = row /\ \A s \in DOMAIN rows : f[s] = rows[s]
    <2>1. PICK S : S = Requests
      OBVIOUS
    <2>2. rows \in Seq(S) /\ row \in S
      BY <1>1, <1>2, <2>1
    <2>3. /\ f \in Seq(S) /\ Len(f) = n /\ DOMAIN f = DOMAIN rows \cup {n} /\ n \notin DOMAIN rows
          /\ f[n] = row /\ \A s \in DOMAIN rows : f[s] = rows[s]
      BY ONLY <2>2
    <2> QED
      BY <2>1, <2>3
  <1>4. Len(rows) \in Nat /\ n \in RowIds /\ n <= RetainedRequests
    BY <1>1, Limits DEF RowIds
  <1>10. Tail(queue) \in Seq(Nat)
    BY <1>1
  <1>5. InOrder(f, Tail(queue), count)
    <2>1. /\ Head(queue) = queue[1] /\ 1 \in DOMAIN queue /\ Len(Tail(queue)) = Len(queue) - 1 /\ Len(queue) \in Nat
          /\ \A i \in DOMAIN Tail(queue) : Tail(queue)[i] = queue[i + 1] /\ i + 1 \in DOMAIN queue /\ i \in Nat
      BY <1>1
    <2>2. \A i \in DOMAIN queue : queue[i] = Len(rows) + i
      BY <1>1 DEF InOrder
    <2> HIDE DEF f
    <2>3. row.m = n
      BY <2>1, <2>2
    <2>4. \A r \in DOMAIN f : f[r].m = r
      BY <1>1, <1>3, <2>3 DEF InOrder
    <2>5. \A i \in DOMAIN Tail(queue) : Tail(queue)[i] = Len(f) + i
      BY <1>3, <1>4, <2>1, <2>2
    <2>6. Len(f) + Len(Tail(queue)) = count
      <3>1. Len(rows) + Len(queue) = count
        BY <1>1 DEF InOrder
      <3>2. Len(f) = Len(rows) + 1 /\ Len(Tail(queue)) = Len(queue) - 1 /\ Len(rows) \in Nat /\ Len(queue) \in Nat
        BY <1>3, <1>4, <2>1
      <3>3. Len(f) \in Nat /\ Len(Tail(queue)) \in Nat /\ count \in Nat
        BY <1>1, <1>3, <1>10
      <3>4. PICK a, b, c, d : /\ a = Len(f) /\ b = Len(Tail(queue)) /\ c = Len(rows) /\ d = Len(queue)
        BY Zenon
      <3>5. a \in Nat /\ b \in Nat /\ c \in Nat /\ d \in Nat /\ a = c + 1 /\ b = d - 1
        BY ONLY <3>2, <3>3, <3>4
      <3>6. a + b = c + d
        BY ONLY <3>5
      <3> QED
        BY ONLY <3>1, <3>4, <3>6
    <2> QED
      BY <2>4, <2>5, <2>6 DEF InOrder
  <1> HIDE DEF f, n
  <1>6. \A r \in DOMAIN f : RowOK(f[r], given[r])
    <2>1. given[n] = 0
      BY <1>1, <1>3, <1>4
    <2> QED
      BY <1>1, <1>3, <2>1, FreshOK
  <1>7. \A r \in RowIds \ DOMAIN f : given[r] = 0
    BY <1>1, <1>3
  <1>8. Cardinality(Held(f)) <= ConcurrentRequests
    <2>1. \A r \in Held(f) : r \in Held(rows)
      BY <1>3 DEF Held, FreshRow, Waiting
    <2> QED
      BY <1>1, <2>1, HeldFewer
  <1>9. Deliveries(f, list)
    BY Zenon, <1>1, <1>3 DEF Deliveries, DeliveredOK
  <1> QED
    BY <1>1, <1>3, <1>4, <1>5, <1>6, <1>7, <1>8, <1>9, <1>10 DEF RowsInv, f

-----------------------------------------------------------------------------
(* The charges of a row *)

Retaining(replies) == {i \in DOMAIN replies : replies[i].charge # "released"}

LEMMA RetainFinite ==
    ASSUME NEW S, NEW replies \in Seq(S)
    PROVE  IsFiniteSet(Retaining(replies)) /\ Cardinality(Retaining(replies)) \in Nat
  <1>1. IsFiniteSet(1 .. Len(replies))
    BY FS_Interval
  <1>2. IsFiniteSet(Retaining(replies))
    BY <1>1, FS_Subset DEF Retaining
  <1> QED
    BY <1>2, FS_CardinalityType

LEMMA ChargesAre ==
    ASSUME NEW row
    PROVE  Charges(row) = Len(row.queue) + Cardinality(Retaining(row.replies))
  BY DEF Charges, Retaining

\* A reply acquired brings one charge.
LEMMA RetainAppend ==
    ASSUME NEW S, NEW replies \in Seq(S), NEW new \in S, new.charge # "released"
    PROVE  Cardinality(Retaining(Append(replies, new))) = Cardinality(Retaining(replies)) + 1
  <1> DEFINE n == Len(replies) + 1
             more == Append(replies, new)
  <1>1. /\ DOMAIN more = DOMAIN replies \cup {n} /\ n \notin DOMAIN replies /\ more[n] = new
        /\ \A i \in DOMAIN replies : more[i] = replies[i]
    OBVIOUS
  <1> HIDE DEF n, more
  <1>2. Retaining(more) = Retaining(replies) \cup {n} /\ n \notin Retaining(replies)
    BY <1>1 DEF Retaining
  <1>3. IsFiniteSet(Retaining(replies))
    BY RetainFinite
  <1>4. Cardinality(Retaining(replies) \cup {n}) = Cardinality(Retaining(replies)) + 1
    BY Zenon, <1>2, <1>3, FS_AddElement
  <1> QED
    BY <1>2, <1>4 DEF more

\* A reply that changes takes no new charge.
LEMMA RetainChanged ==
    ASSUME NEW S, NEW replies \in Seq(S), NEW i \in DOMAIN replies, NEW new,
           new.charge # "released" => replies[i].charge # "released"
    PROVE  /\ Cardinality(Retaining([replies EXCEPT ![i] = new])) <= Cardinality(Retaining(replies))
           /\ Cardinality(Retaining([replies EXCEPT ![i] = new])) \in Nat
  <1> DEFINE f == [replies EXCEPT ![i] = new]
  <1>1. DOMAIN f = DOMAIN replies /\ f[i] = new /\ \A j \in DOMAIN replies : j # i => f[j] = replies[j]
    OBVIOUS
  <1> HIDE DEF f
  <1>2. Retaining(f) \subseteq Retaining(replies)
    BY <1>1 DEF Retaining
  <1>3. IsFiniteSet(Retaining(replies))
    BY RetainFinite
  <1>4. IsFiniteSet(Retaining(f)) /\ Cardinality(Retaining(f)) <= Cardinality(Retaining(replies))
    BY <1>2, <1>3, FS_Subset
  <1>5. Cardinality(Retaining(f)) \in Nat
    BY <1>4, FS_CardinalityType
  <1> QED
    BY <1>4, <1>5 DEF f

-----------------------------------------------------------------------------
(* What a step makes of its row *)

LEMMA RowTypes ==
    ASSUME NEW row \in Requests
    PROVE  /\ row.queue \in Seq({"sample", "error"}) /\ row.replies \in Seq(Responses)
           /\ row.discharged \in Nat /\ Len(row.queue) \in Nat /\ Len(row.replies) \in Nat
  <1>1. row.queue \in Seq({"sample", "error"}) /\ row.replies \in Seq(Responses) /\ row.discharged \in Nat
    BY DEF Requests
  <1> QED
    BY <1>1

LEMMA GetOK ==
    ASSUME NEW old \in Requests, NEW new \in Requests, NEW given, RowOK(old, given),
           old.query = "Unattempted", new.query \in {"Ok", "Err"},
           new.callback = (IF new.query = "Ok" THEN "live" ELSE "gone"), new.stage = "receiving",
           new.queue = old.queue, new.replies = old.replies, new.refused = old.refused,
           new.discharged = old.discharged, new.eof = old.eof
    PROVE  RowOK(new, given) /\ Keeps(old, new)
  <1>1. CallbackOK(new)
    BY DEF RowOK, CallbackOK
  <1>2. StageOK(new)
    BY DEF StageOK
  <1>3. HoldingOK(new, given)
    BY DEF RowOK, CallbackOK, HoldingOK, Charges
  <1> QED
    BY <1>1, <1>2, <1>3 DEF RowOK, Keeps

LEMMA ReceiveOK ==
    ASSUME NEW old \in Requests, NEW new \in Requests, NEW given, RowOK(old, given),
           old.queue # <<>>, NEW response \in Responses, response.charge = "row", response.decoded = "None",
           new.queue = Tail(old.queue), new.replies = Append(old.replies, response),
           new.query = old.query, new.callback = old.callback, new.refused = old.refused,
           new.discharged = old.discharged, new.eof = old.eof,
           new.stage \in {"receiving", "verifying"} \/ (new.stage = old.stage /\ ~Pending(old))
    PROVE  RowOK(new, given) /\ Keeps(old, new)
  <1> DEFINE n == Len(old.replies) + 1
  <1>1. /\ old.queue \in Seq({"sample", "error"}) /\ old.replies \in Seq(Responses)
        /\ old.discharged \in Nat /\ Len(old.queue) \in Nat /\ Len(old.replies) \in Nat
    BY RowTypes
  <1>2. PICK S : S = Responses
    OBVIOUS
  <1>3. /\ Len(new.replies) = n /\ DOMAIN new.replies = DOMAIN old.replies \cup {n} /\ new.replies[n] = response
        /\ \A i \in DOMAIN old.replies : new.replies[i] = old.replies[i]
        /\ new.replies # <<>>
    <2>1. old.replies \in Seq(S) /\ response \in S /\ new.replies = Append(old.replies, response)
      BY <1>1, <1>2
    <2> QED
      BY ONLY <2>1
  <1>4. Len(new.queue) = Len(old.queue) - 1
    BY <1>1
  <1>5. old.query = "Ok" /\ old.eof = FALSE
    BY DEF RowOK, CallbackOK, HoldingOK, Requests
  <1>6. CallbackOK(new)
    BY <1>5 DEF RowOK, CallbackOK
  <1>7. StageOK(new)
    BY <1>3, <1>5 DEF RowOK, StageOK, Pending
  <1>8. Charges(new) <= RetainedResponses
    <2>1. Cardinality(Retaining(new.replies)) = Cardinality(Retaining(old.replies)) + 1
      BY <1>1, RetainAppend
    <2>2. Cardinality(Retaining(old.replies)) \in Nat
      BY <1>1, RetainFinite
    <2>3. Charges(old) <= RetainedResponses
      BY DEF RowOK, HoldingOK
    <2>4. Charges(new) = Charges(old)
      <3>1. Len(new.queue) \in Nat
        BY RowTypes
      <3>2. /\ Charges(new) = Len(new.queue) + Cardinality(Retaining(new.replies))
            /\ Charges(old) = Len(old.queue) + Cardinality(Retaining(old.replies))
        BY Zenon, ChargesAre
      <3>3. PICK a, b, c, d : /\ a = Len(new.queue) /\ b = Cardinality(Retaining(new.replies))
                              /\ c = Len(old.queue) /\ d = Cardinality(Retaining(old.replies))
        BY Zenon
      <3>4. a \in Nat /\ c \in Nat /\ d \in Nat /\ a = c - 1 /\ b = d + 1
        BY ONLY <1>1, <1>4, <2>1, <2>2, <3>1, <3>3
      <3>5. a + b = c + d
        BY ONLY <3>4
      <3> QED
        BY ONLY <3>2, <3>3, <3>5
    <2> QED
      BY <2>3, <2>4
  <1>9. HoldingOK(new, given)
    <2>1. given = Len(new.queue) + Len(new.replies) + new.discharged + (IF new.refused = "None" THEN 0 ELSE 1)
      <3>1. given = Len(old.queue) + Len(old.replies) + old.discharged + (IF old.refused = "None" THEN 0 ELSE 1)
        BY DEF RowOK, HoldingOK
      <3>2. PICK k \in Nat : k = (IF old.refused = "None" THEN 0 ELSE 1)
        OBVIOUS
      <3>3. Len(new.queue) \in Nat /\ Len(new.replies) \in Nat
        BY RowTypes
      <3>4. given = Len(new.queue) + Len(new.replies) + old.discharged + k
        <4>1. PICK a, b, c, d, e : /\ a = Len(new.queue) /\ b = Len(new.replies) /\ e = old.discharged
                                   /\ c = Len(old.queue) /\ d = Len(old.replies)
          BY Zenon
        <4>2. a \in Nat /\ b \in Nat /\ c \in Nat /\ d \in Nat /\ e \in Nat /\ a = c - 1 /\ b = d + 1
          BY <1>1, <1>3, <1>4, <3>3, <4>1
        <4>3. c + d + e + k = a + b + e + k
          BY ONLY <4>2, k \in Nat
        <4> QED
          BY ONLY Zenon, <3>1, <3>2, <4>1, <4>3
      <3> QED
        BY <3>2, <3>4
    <2>2. \A i \in DOMAIN new.replies : new.replies[i].charge = "released" =>
             new.replies[i].original = "sample" /\ new.eof
      <3>1. \A i \in DOMAIN old.replies : old.replies[i].charge = "released" =>
             old.replies[i].original = "sample" /\ old.eof
        BY DEF RowOK, HoldingOK
      <3> QED
        BY <1>3, <3>1
    <2> QED
      BY <1>5, <1>8, <2>1, <2>2 DEF HoldingOK
  <1>10. Keeps(old, new)
    BY <1>3 DEF Keeps
  <1> QED
    BY <1>6, <1>7, <1>9, <1>10 DEF RowOK

LEMMA ReplyOK ==
    ASSUME NEW old \in Requests, NEW new \in Requests, NEW given, RowOK(old, given),
           NEW i \in DOMAIN old.replies, NEW response,
           response.original = old.replies[i].original,
           response.charge = old.replies[i].charge \/ (old.replies[i].charge = "row" /\ old.eof /\
              (response.charge = "released" => response.original = "sample")),
           old.replies[i].decoded = "Ok" /\ old.replies[i].verified = "Ok" =>
              response.decoded = "Ok" /\ response.verified = "Ok",
           new.replies = [old.replies EXCEPT ![i] = response], StageOK(new),
           new.queue = old.queue, new.query = old.query, new.callback = old.callback,
           new.refused = old.refused, new.discharged = old.discharged, new.eof = old.eof
    PROVE  RowOK(new, given) /\ Keeps(old, new)
  <1>1. /\ old.queue \in Seq({"sample", "error"}) /\ old.replies \in Seq(Responses)
        /\ old.discharged \in Nat /\ Len(old.queue) \in Nat /\ Len(old.replies) \in Nat
    BY RowTypes
  <1>2. PICK S : S = Responses
    OBVIOUS
  <1>3. /\ Len(new.replies) = Len(old.replies) /\ DOMAIN new.replies = DOMAIN old.replies
        /\ new.replies[i] = response /\ \A j \in DOMAIN old.replies : j # i => new.replies[j] = old.replies[j]
        /\ old.replies # <<>> /\ new.replies # <<>>
    <2>1. old.replies \in Seq(S) /\ i \in DOMAIN old.replies /\ new.replies = [old.replies EXCEPT ![i] = response]
      BY <1>1, <1>2
    <2>2. /\ DOMAIN new.replies = DOMAIN old.replies
          /\ new.replies[i] = response /\ \A j \in DOMAIN old.replies : j # i => new.replies[j] = old.replies[j]
      BY ONLY <2>1
    <2>3. Len(new.replies) = Len(old.replies)
      BY ONLY <2>1
    <2>4. old.replies # <<>> /\ new.replies # <<>>
      BY ONLY <2>1, <2>2
    <2> QED
      BY <2>2, <2>3, <2>4
  <1>4. CallbackOK(new)
    BY <1>3 DEF RowOK, CallbackOK
  <1>5. Charges(new) <= RetainedResponses
    <2>1. /\ Cardinality(Retaining(new.replies)) <= Cardinality(Retaining(old.replies))
          /\ Cardinality(Retaining(new.replies)) \in Nat
      BY <1>1, RetainChanged
    <2>2. Cardinality(Retaining(old.replies)) \in Nat
      BY <1>1, RetainFinite
    <2>3. Charges(old) <= RetainedResponses
      BY DEF RowOK, HoldingOK
    <2> QED
      BY <1>1, <2>1, <2>2, <2>3, ChargesAre, Limits
  <1>6. HoldingOK(new, given)
    <2>1. given = Len(new.queue) + Len(new.replies) + new.discharged + (IF new.refused = "None" THEN 0 ELSE 1)
      BY <1>3 DEF RowOK, HoldingOK
    <2>2. \A j \in DOMAIN new.replies : new.replies[j].charge = "released" =>
             new.replies[j].original = "sample" /\ new.eof
      <3>1. \A j \in DOMAIN old.replies : old.replies[j].charge = "released" =>
             old.replies[j].original = "sample" /\ old.eof
        BY DEF RowOK, HoldingOK
      <3> QED
        BY <1>3, <3>1
    <2>3. new.eof => new.callback = "gone" /\ new.queue = <<>>
      BY DEF RowOK, HoldingOK
    <2> QED
      BY <1>5, <2>1, <2>2, <2>3 DEF HoldingOK
  <1>7. Keeps(old, new)
    BY <1>3 DEF Keeps
  <1> QED
    BY <1>4, <1>6, <1>7 DEF RowOK

LEMMA EofOK ==
    ASSUME NEW old \in Requests, NEW new \in Requests, NEW given, RowOK(old, given),
           old.queue = <<>>, old.callback = "gone", new.eof = TRUE, StageOK(new),
           new.queue = old.queue, new.replies = old.replies, new.query = old.query,
           new.callback = old.callback, new.refused = old.refused, new.discharged = old.discharged
    PROVE  RowOK(new, given) /\ Keeps(old, new)
  BY DEF RowOK, CallbackOK, HoldingOK, Charges, Keeps

LEMMA GoneOK ==
    ASSUME NEW old \in Requests, NEW new \in Requests, NEW given, RowOK(old, given),
           old.callback = "live", new.callback = "gone", new.stage = old.stage, new.eof = old.eof,
           new.queue = old.queue, new.replies = old.replies, new.query = old.query,
           new.refused = old.refused, new.discharged = old.discharged
    PROVE  RowOK(new, given) /\ Keeps(old, new)
  BY DEF RowOK, CallbackOK, StageOK, HoldingOK, Charges, Keeps

\* A row with another stage, completion or refusal, and with another protection.
LEMMA Restaged ==
    ASSUME NEW old \in Requests, NEW stage \in Stages
    PROVE  /\ [old EXCEPT !.stage = stage] \in Requests /\ Alike(old, [old EXCEPT !.stage = stage])
           /\ [old EXCEPT !.stage = stage].stage = stage
  BY DEF Requests, Alike

LEMMA Returned ==
    ASSUME NEW old \in Requests
    PROVE  LET new == [old EXCEPT !.stage = "done", !.completed = TRUE]
           IN  new \in Requests /\ Alike(old, new) /\ new.stage = "done"
  BY Zenon DEF Requests, Alike, Stages

\* What the callback makes of its row: one reply more is queued, refused or dropped.
LEMMA GivenOK ==
    ASSUME NEW old \in Requests, NEW given \in Nat, RowOK(old, given), old.callback = "live",
           NEW reply \in {"sample", "error"}
    PROVE  LET new == Retained(old, reply)
           IN  /\ new \in Requests /\ new.m = old.m /\ new.stage = old.stage /\ new.query = old.query
               /\ new.eof = old.eof /\ RowOK(new, given + 1) /\ Keeps(old, new)
  <1> DEFINE new == Retained(old, reply)
  <1>1. /\ old.queue \in Seq({"sample", "error"}) /\ old.replies \in Seq(Responses)
        /\ old.discharged \in Nat /\ Len(old.queue) \in Nat /\ Len(old.replies) \in Nat
    BY RowTypes
  <1>2. old.query = "Ok" /\ old.eof = FALSE
    BY DEF RowOK, CallbackOK, HoldingOK, Requests
  <1>3. PICK k : k = Len(old.queue) + Len(old.replies) + old.discharged
    BY Zenon
  <1>4. k \in Nat /\ given = k + (IF old.refused = "None" THEN 0 ELSE 1)
    <2>1. given = Len(old.queue) + Len(old.replies) + old.discharged + (IF old.refused = "None" THEN 0 ELSE 1)
      BY DEF RowOK, HoldingOK
    <2>2. PICK a, b, c : a = Len(old.queue) /\ b = Len(old.replies) /\ c = old.discharged
      BY Zenon
    <2>3. a \in Nat /\ b \in Nat /\ c \in Nat /\ k = a + b + c
      BY ONLY <1>1, <1>3, <2>2
    <2>4. k \in Nat
      BY ONLY <2>3
    <2> QED
      BY ONLY Zenon, <1>3, <2>1, <2>4
  <1>5. \A j \in DOMAIN old.replies : old.replies[j].charge = "released" =>
           old.replies[j].original = "sample" /\ old.eof
    BY DEF RowOK, HoldingOK
  <1>6. CASE Charges(old) < RetainedResponses
    <2>1. new = [old EXCEPT !.queue = Append(@, reply)]
      BY <1>6 DEF Retained
    <2>2. Append(old.queue, reply) \in Seq({"sample", "error"}) /\ Len(Append(old.queue, reply)) = Len(old.queue) + 1
      BY <1>1
    <2>3. new \in Requests /\ new.queue = Append(old.queue, reply)
      BY Zenon, <2>1, <2>2 DEF Requests
    <2>4. /\ new.m = old.m /\ new.stage = old.stage /\ new.query = old.query /\ new.callback = old.callback
          /\ new.replies = old.replies /\ new.refused = old.refused /\ new.discharged = old.discharged
          /\ new.eof = old.eof
      BY <2>1 DEF Requests
    <2> HIDE DEF new
    <2>5. CallbackOK(new) /\ StageOK(new)
      BY <1>2, <2>4 DEF RowOK, CallbackOK, StageOK
    <2>6. Charges(new) <= RetainedResponses
      <3>1. Cardinality(Retaining(old.replies)) \in Nat
        BY <1>1, RetainFinite
      <3>2. /\ Charges(new) = Len(old.queue) + 1 + Cardinality(Retaining(old.replies))
            /\ Charges(old) = Len(old.queue) + Cardinality(Retaining(old.replies))
        BY <2>2, <2>3, <2>4, ChargesAre
      <3> QED
        BY ONLY <1>1, <1>6, <3>1, <3>2, Limits
    <2>7. given + 1 = Len(new.queue) + Len(new.replies) + new.discharged + (IF new.refused = "None" THEN 0 ELSE 1)
      <3>1. PICK a, b, c, x : /\ a = Len(old.queue) /\ b = Len(old.replies) /\ c = old.discharged
                              /\ x = (IF old.refused = "None" THEN 0 ELSE 1)
        BY Zenon
      <3>2. a \in Nat /\ b \in Nat /\ c \in Nat /\ x \in Nat /\ given = a + b + c + x
        BY ONLY <1>1, <1>3, <1>4, <3>1
      <3>3. Len(new.queue) = a + 1 /\ Len(new.replies) = b /\ new.discharged = c /\ new.refused = old.refused
        BY <2>2, <2>3, <2>4, <3>1
      <3>4. given + 1 = a + 1 + b + c + x
        BY ONLY <3>2
      <3> QED
        BY ONLY Zenon, <3>1, <3>3, <3>4
    <2>8. HoldingOK(new, given + 1)
      BY Zenon, <1>2, <1>5, <2>4, <2>6, <2>7 DEF HoldingOK
    <2> QED
      BY <2>3, <2>4, <2>5, <2>8 DEF RowOK, Keeps, new
  <1>7. CASE ~(Charges(old) < RetainedResponses)
    <2>1. new = Refuse(old, reply)
      BY <1>7 DEF Retained
    <2>2. \/ old.refused = "None" /\ new = [old EXCEPT !.refused = reply]
          \/ old.refused # "None" /\ new = [old EXCEPT !.discharged = @ + 1]
      BY <2>1 DEF Refuse
    <2>3. new \in Requests
      BY <1>1, <2>2 DEF Requests
    <2>4. /\ new.m = old.m /\ new.stage = old.stage /\ new.query = old.query /\ new.callback = old.callback
          /\ new.replies = old.replies /\ new.eof = old.eof /\ new.queue = old.queue
      BY <2>2 DEF Requests
    <2>5. \/ old.refused = "None" /\ new.refused # "None" /\ new.discharged = old.discharged
          \/ old.refused # "None" /\ new.refused = old.refused /\ new.discharged = old.discharged + 1
      BY <2>2 DEF Requests
    <2> HIDE DEF new
    <2>6. CallbackOK(new) /\ StageOK(new)
      BY <1>2, <2>4 DEF RowOK, CallbackOK, StageOK
    <2>7. Charges(new) <= RetainedResponses
      BY <2>4 DEF RowOK, HoldingOK, Charges
    <2>8. given + 1 = Len(new.queue) + Len(new.replies) + new.discharged + (IF new.refused = "None" THEN 0 ELSE 1)
      <3>1. PICK a, b, c : a = Len(old.queue) /\ b = Len(old.replies) /\ c = old.discharged
        BY ZenonT(60)
      <3>2. /\ a \in Nat /\ b \in Nat /\ c \in Nat
            /\ given = a + b + c + (IF old.refused = "None" THEN 0 ELSE 1)
        BY ONLY <1>1, <1>3, <1>4, <3>1
      <3>3. Len(new.queue) = a /\ Len(new.replies) = b
        BY <2>4, <3>1
      <3>4. CASE old.refused = "None"
        <4>1. given + 1 = a + b + c + 1
          BY ONLY <3>2, <3>4
        <4>2. new.discharged = c /\ new.refused # "None"
          BY <2>5, <3>1, <3>4
        <4> QED
          BY ONLY <3>3, <4>1, <4>2
      <3>5. CASE old.refused # "None"
        <4>1. given + 1 = a + b + (c + 1) + 1
          BY ONLY <3>2, <3>5
        <4>2. new.discharged = c + 1 /\ new.refused # "None"
          BY <2>5, <3>1, <3>5
        <4> QED
          BY ONLY <3>3, <4>1, <4>2
      <3> QED
        BY Zenon, <3>4, <3>5
    <2>9. HoldingOK(new, given + 1)
      BY Zenon, <1>2, <1>5, <2>4, <2>7, <2>8 DEF HoldingOK
    <2> QED
      BY <2>3, <2>4, <2>6, <2>9 DEF RowOK, Keeps, new
  <1> QED
    BY <1>6, <1>7

-----------------------------------------------------------------------------
(* The steps of an operation *)

\* What a step reads of its row.
LEMMA At_Facts ==
    ASSUME ClientInv, NEW r \in DOMAIN requests
    PROVE  /\ requests[r] \in Requests /\ RowOK(requests[r], gave[r]) /\ r \in RowIds /\ gave[r] \in Nat
           /\ requests[r].replies \in Seq(Responses) /\ requests[r].stage \in Stages
  <1>1. requests[r] \in Requests /\ RowOK(requests[r], gave[r]) /\ r \in RowIds /\ gave[r] \in Nat
    BY RowFacts DEF ClientInv
  <1> QED
    BY <1>1 DEF Requests

\* A step of serving that changes one row and delivers nothing.
LEMMA ServingRow ==
    ASSUME ClientInv, phase \in {"serving", "finishing"}, NEW r \in DOMAIN requests,
           NEW row \in Requests, row.m = requests[r].m, RowOK(row, gave[r]), Keeps(requests[r], row),
           \/ row.stage \in Waiting => requests[r].stage \in Waiting
           \/ Cardinality(Held(requests)) < ConcurrentRequests,
           Becomes(r, row), UNCHANGED <<source, phase, delivered, gave, accepted>>
    PROVE  ClientInv'
  <1>1. gave \in [RowIds -> Nat] /\ RowsInv(requests, source.queue, accepted, gave, delivered)
    BY DEF ClientInv, RowsInv
  <1>2. RowsInv([requests EXCEPT ![r] = row], source.queue, accepted, gave, delivered)
    BY <1>1, RowBecomes
  <1>3. RowsInv(requests', source'.queue, accepted', gave', delivered')
    BY <1>2 DEF Becomes
  <1>4. PhaseOK(phase', requests')
    BY DEF PhaseOK
  <1> QED
    BY <1>3, <1>4 DEF ClientInv

\* The row goes on elsewhere, with nothing of its Get changed.
LEMMA ServingAlike ==
    ASSUME ClientInv, phase \in {"serving", "finishing"}, NEW r \in DOMAIN requests,
           NEW row \in Requests, Alike(requests[r], row), StageOK(row),
           \/ row.stage \in Waiting => requests[r].stage \in Waiting
           \/ Cardinality(Held(requests)) < ConcurrentRequests,
           Becomes(r, row), UNCHANGED <<source, phase, delivered, gave, accepted>>
    PROVE  ClientInv'
  <1>1. RowOK(row, gave[r]) /\ Keeps(requests[r], row)
    BY At_Facts, AlikeOK
  <1>2. row.m = requests[r].m
    BY DEF Alike
  <1> QED
    BY <1>1, <1>2, ServingRow

\* An operation that returns holds nothing.
LEMMA DoneOK ==
    ASSUME NEW row, row.stage \in {"done", "dropped", "parts"}
    PROVE  StageOK(row) /\ row.stage \notin Waiting
  BY DEF StageOK, Waiting

LEMMA PermitKeeps ==
    ASSUME ClientInv, NEW r, Permit(r)
    PROVE  ClientInv'
  <1>1. /\ phase \in {"serving", "finishing"} /\ r \in DOMAIN requests /\ requests[r].stage = "start"
        /\ UNCHANGED <<source, phase, delivered, gave, accepted>>
    BY DEF Permit, At, OnlyRow, outside
  <1>2. requests[r] \in Requests /\ RowOK(requests[r], gave[r])
    BY <1>1, At_Facts
  <1>3. CASE requests[r].encoded = "Some"
    <2> DEFINE row == [requests[r] EXCEPT !.stage = "protecting"]
    <2>1. Cardinality(Held(requests)) < ConcurrentRequests /\ Becomes(r, row)
      BY <1>3 DEF Permit, Suspend, Holding, Held, Waiting
    <2>2. row \in Requests /\ Alike(requests[r], row) /\ row.stage = "protecting"
      BY Zenon, <1>2, Restaged DEF Stages
    <2> HIDE DEF row
    <2>3. StageOK(row)
      BY <1>1, <1>2, <2>2 DEF RowOK, StageOK, Alike
    <2> QED
      BY <1>1, <2>1, <2>2, <2>3, ServingAlike
  <1>4. CASE requests[r].encoded # "Some"
    <2> DEFINE row == [requests[r] EXCEPT !.stage = "done", !.completed = TRUE]
    <2>1. Becomes(r, row)
      BY <1>4 DEF Permit, Return
    <2>2. row \in Requests /\ Alike(requests[r], row) /\ row.stage = "done"
      BY Zenon, <1>2, Returned
    <2> HIDE DEF row
    <2> QED
      BY <1>1, <2>1, <2>2, DoneOK, ServingAlike
  <1> QED
    BY <1>3, <1>4

LEMMA ProtectedKeeps ==
    ASSUME ClientInv, NEW r, NEW out \in {"Ok", "Err", "Panic"}, Protected(r, out)
    PROVE  ClientInv'
  <1> DEFINE row == [requests[r] EXCEPT !.protected = out]
  <1>1. /\ phase \in {"serving", "finishing"} /\ r \in DOMAIN requests /\ requests[r].stage = "protecting"
        /\ UNCHANGED <<source, phase, delivered, gave, accepted>>
    BY DEF Protected, At, OnlyRow, outside
  <1>2. requests[r] \in Requests /\ RowOK(requests[r], gave[r])
    BY <1>1, At_Facts
  <1>3. row \in Requests /\ Alike(requests[r], row) /\ row.stage = "protecting"
    BY <1>1, <1>2 DEF Requests, Alike
  <1>4. \/ Return(r, row)
        \/ Return(r, [row EXCEPT !.refusal = "Json"])
        \/ Suspend(r, row, "visible")
    BY DEF Protected
  <1> HIDE DEF row
  <1>5. CASE Return(r, row)
    <2> DEFINE new == [row EXCEPT !.stage = "done", !.completed = TRUE]
    <2>1. new \in Requests /\ Alike(row, new) /\ new.stage = "done" /\ Becomes(r, new)
      BY Zenon, <1>3, <1>5, Returned DEF Return
    <2> HIDE DEF new
    <2>2. Alike(requests[r], new)
      BY <1>3, <2>1 DEF Alike
    <2> QED
      BY <1>1, <2>1, <2>2, DoneOK, ServingAlike
  <1>6. CASE Return(r, [row EXCEPT !.refusal = "Json"])
    <2> DEFINE mid == [row EXCEPT !.refusal = "Json"]
               new == [mid EXCEPT !.stage = "done", !.completed = TRUE]
    <2>1. mid \in Requests /\ Alike(row, mid)
      BY <1>3 DEF Requests, Alike
    <2>2. new \in Requests /\ Alike(mid, new) /\ new.stage = "done" /\ Becomes(r, new)
      BY Zenon, <1>6, <2>1, Returned DEF Return
    <2> HIDE DEF mid, new
    <2>3. Alike(requests[r], new)
      BY <1>3, <2>1, <2>2 DEF Alike
    <2> QED
      BY <1>1, <2>2, <2>3, DoneOK, ServingAlike
  <1>7. CASE Suspend(r, row, "visible")
    <2> DEFINE new == [row EXCEPT !.stage = "visible"]
    <2>1. new \in Requests /\ Alike(row, new) /\ new.stage = "visible" /\ Becomes(r, new)
      BY Zenon, <1>3, <1>7, Restaged DEF Suspend, Stages
    <2> HIDE DEF new
    <2>2. Alike(requests[r], new)
      BY <1>3, <2>1 DEF Alike
    <2>3. StageOK(new)
      BY <1>1, <1>2, <2>1, <2>2 DEF RowOK, StageOK, Alike
    <2>4. requests[r].stage \in Waiting
      BY <1>1 DEF Waiting
    <2> QED
      BY <1>1, <2>1, <2>2, <2>3, <2>4, ServingAlike
  <1> QED
    BY <1>4, <1>5, <1>6, <1>7

\* The row an operation leaves when it suspends.
LEMMA Suspended ==
    ASSUME NEW r, NEW mid \in Requests, NEW stage \in Stages, Suspend(r, mid, stage)
    PROVE  \E row \in Requests : Alike(mid, row) /\ row.stage = stage /\ Becomes(r, row)
  <1>1. [mid EXCEPT !.stage = stage] \in Requests /\ Alike(mid, [mid EXCEPT !.stage = stage])
        /\ [mid EXCEPT !.stage = stage].stage = stage
    BY Restaged
  <1> QED
    BY <1>1, Zenon DEF Suspend

LEMMA GetKeeps ==
    ASSUME ClientInv, NEW r, RequestGet(r)
    PROVE  ClientInv'
  <1>1. /\ phase \in {"serving", "finishing"} /\ r \in DOMAIN requests /\ requests[r].stage = "visible"
        /\ UNCHANGED <<source, phase, delivered, gave, accepted>>
    BY Zenon DEF RequestGet, At, OnlyRow, outside
  <1>2. requests[r] \in Requests /\ RowOK(requests[r], gave[r])
    BY <1>1, At_Facts
  <1>3. \/ Return(r, requests[r])
        \/ Return(r, [requests[r] EXCEPT !.refusal = "Permission"])
        \/ \E result \in {"Ok", "Err"} :
             Suspend(r, [requests[r] EXCEPT !.query = result,
                                            !.callback = IF result = "Ok" THEN "live" ELSE "gone"],
                     "receiving")
    BY Zenon DEF RequestGet
  <1>4. CASE Return(r, requests[r])
    <2> DEFINE new == [requests[r] EXCEPT !.stage = "done", !.completed = TRUE]
    <2>1. new \in Requests /\ Alike(requests[r], new) /\ new.stage = "done" /\ Becomes(r, new)
      BY Zenon, <1>2, <1>4, Returned DEF Return
    <2> HIDE DEF new
    <2> QED
      BY <1>1, <2>1, DoneOK, ServingAlike
  <1>5. CASE Return(r, [requests[r] EXCEPT !.refusal = "Permission"])
    <2> DEFINE mid == [requests[r] EXCEPT !.refusal = "Permission"]
               new == [mid EXCEPT !.stage = "done", !.completed = TRUE]
    <2>1. mid \in Requests /\ Alike(requests[r], mid)
      BY <1>2 DEF Requests, Alike
    <2>2. new \in Requests /\ Alike(mid, new) /\ new.stage = "done" /\ Becomes(r, new)
      BY ZenonT(60), <1>5, <2>1, Returned DEF Return
    <2> HIDE DEF mid, new
    <2>3. Alike(requests[r], new)
      BY <2>1, <2>2 DEF Alike
    <2> QED
      BY <1>1, <2>2, <2>3, DoneOK, ServingAlike
  <1>6. ASSUME NEW result \in {"Ok", "Err"},
               Suspend(r, [requests[r] EXCEPT !.query = result,
                                              !.callback = IF result = "Ok" THEN "live" ELSE "gone"],
                       "receiving")
        PROVE  ClientInv'
    <2> DEFINE mid == [requests[r] EXCEPT !.query = result,
                                          !.callback = IF result = "Ok" THEN "live" ELSE "gone"]
    <2>1. /\ mid \in Requests /\ mid.query = result /\ mid.callback = (IF result = "Ok" THEN "live" ELSE "gone")
          /\ mid.m = requests[r].m /\ mid.queue = requests[r].queue /\ mid.replies = requests[r].replies
          /\ mid.refused = requests[r].refused /\ mid.discharged = requests[r].discharged
          /\ mid.eof = requests[r].eof
      BY ZenonT(60), <1>2 DEF Requests
    <2>. Suspend(r, mid, "receiving")
      BY <1>6
    <2> HIDE DEF mid
    <2>2. PICK new \in Requests : Alike(mid, new) /\ new.stage = "receiving" /\ Becomes(r, new)
      BY <2>1, Suspended DEF Stages
    <2>3. requests[r].query = "Unattempted" /\ requests[r].stage \in Waiting
      BY <1>1, <1>2 DEF RowOK, StageOK, Waiting
    <2>4. RowOK(new, gave[r]) /\ Keeps(requests[r], new) /\ new.m = requests[r].m
      <3>1. /\ new.query \in {"Ok", "Err"} /\ new.callback = (IF new.query = "Ok" THEN "live" ELSE "gone")
            /\ new.m = requests[r].m /\ new.queue = requests[r].queue /\ new.replies = requests[r].replies
            /\ new.refused = requests[r].refused /\ new.discharged = requests[r].discharged
            /\ new.eof = requests[r].eof
        BY <2>1, <2>2 DEF Alike
      <3>2. requests[r] \in Requests /\ RowOK(requests[r], gave[r]) /\ new \in Requests /\ new.stage = "receiving"
        BY <1>2, <2>2
      <3>3. RowOK(new, gave[r]) /\ Keeps(requests[r], new)
        BY ONLY <2>3, <3>1, <3>2, GetOK
      <3> QED
        BY <3>1, <3>3
    <2> QED
      BY <1>1, <2>2, <2>3, <2>4, ServingRow
  <1> QED
    BY <1>3, <1>4, <1>5, <1>6

\* The row once its oldest queued reply is acquired.
LEMMA AcquiredReply ==
    ASSUME NEW old \in Requests, old.queue # <<>>, NEW response \in Responses
    PROVE  LET new == [old EXCEPT !.queue = Tail(@), !.replies = Append(@, response)]
           IN  /\ new \in Requests /\ new.queue = Tail(old.queue) /\ new.replies = Append(old.replies, response)
               /\ new.m = old.m /\ new.query = old.query /\ new.callback = old.callback
               /\ new.refused = old.refused /\ new.discharged = old.discharged /\ new.eof = old.eof
               /\ new.stage = old.stage
  <1> DEFINE new == [old EXCEPT !.queue = Tail(@), !.replies = Append(@, response)]
  <1>1. old.queue \in Seq({"sample", "error"}) /\ old.replies \in Seq(Responses)
    BY RowTypes
  <1>2. Tail(old.queue) \in Seq({"sample", "error"})
    BY <1>1
  <1>3. Append(old.replies, response) \in Seq(Responses)
    <2>1. PICK S : S = Responses
      OBVIOUS
    <2>2. old.replies \in Seq(S) /\ response \in S
      BY <1>1, <2>1
    <2>3. Append(old.replies, response) \in Seq(S)
      BY ONLY <2>2
    <2> QED
      BY <2>1, <2>3
  <1>4. new \in Requests
    BY Zenon, <1>2, <1>3 DEF Requests
  <1>5. /\ new.queue = Tail(old.queue) /\ new.replies = Append(old.replies, response)
        /\ new.m = old.m /\ new.query = old.query /\ new.callback = old.callback
        /\ new.refused = old.refused /\ new.discharged = old.discharged /\ new.eof = old.eof
        /\ new.stage = old.stage
    BY DEF Requests
  <1> QED
    BY <1>4, <1>5

LEMMA ReceiveKeeps ==
    ASSUME ClientInv, NEW r, Receive(r)
    PROVE  ClientInv'
  <1> DEFINE original == Head(requests[r].queue)
             response(shape) == [Response(original) EXCEPT !.shape = shape]
             acquired(shape) == [requests[r] EXCEPT !.queue = Tail(@), !.replies = Append(@, response(shape))]
  <1>1. /\ phase \in {"serving", "finishing"} /\ r \in DOMAIN requests /\ requests[r].stage = "receiving"
        /\ requests[r].queue # <<>>
        /\ UNCHANGED <<source, phase, delivered, gave, accepted>>
    BY DEF Receive, At, OnlyRow, outside
  <1>2. requests[r] \in Requests /\ RowOK(requests[r], gave[r])
    BY <1>1, At_Facts
  <1>3. original \in {"sample", "error"}
    <2>1. requests[r].queue \in Seq({"sample", "error"})
      BY <1>2, RowTypes
    <2> QED
      BY <1>1, <2>1
  <1>4. PICK shape \in {"Ok", "Json", "error"}, stage \in {"receiving", "verifying"} :
           Suspend(r, acquired(shape), stage)
    BY Zenon, <1>3 DEF Receive
  <1>5. response(shape) \in Responses /\ response(shape).charge = "row" /\ response(shape).decoded = "None"
    BY Zenon, <1>3 DEF Response, Responses
  <1>6. PICK new : new = response(shape)
    BY Zenon
  <1>7. PICK mid : mid = [requests[r] EXCEPT !.queue = Tail(@), !.replies = Append(@, new)]
    OBVIOUS
  <1>8. mid = acquired(shape)
    BY <1>6, <1>7
  <1>9. Suspend(r, mid, stage) /\ new \in Responses /\ new.charge = "row" /\ new.decoded = "None"
    BY <1>4, <1>5, <1>6, <1>8
  <1> HIDE DEF response, acquired, original
  <1>10. /\ mid \in Requests /\ mid.queue = Tail(requests[r].queue)
         /\ mid.replies = Append(requests[r].replies, new)
         /\ mid.m = requests[r].m /\ mid.query = requests[r].query /\ mid.callback = requests[r].callback
         /\ mid.refused = requests[r].refused /\ mid.discharged = requests[r].discharged
         /\ mid.eof = requests[r].eof
    BY Zenon, <1>1, <1>2, <1>7, <1>9, AcquiredReply
  <1>11. stage \in Stages
    BY DEF Stages
  <1>12. PICK row \in Requests : Alike(mid, row) /\ row.stage = stage /\ Becomes(r, row)
    BY <1>9, <1>10, <1>11, Suspended
  <1>13. RowOK(row, gave[r]) /\ Keeps(requests[r], row) /\ row.m = requests[r].m
    <2>1. /\ row.queue = Tail(requests[r].queue) /\ row.replies = Append(requests[r].replies, new)
          /\ row.m = requests[r].m /\ row.query = requests[r].query /\ row.callback = requests[r].callback
          /\ row.refused = requests[r].refused /\ row.discharged = requests[r].discharged
          /\ row.eof = requests[r].eof
      BY <1>10, <1>12 DEF Alike
    <2>2. row.stage \in {"receiving", "verifying"} /\ row \in Requests
      BY <1>12
    <2>3. RowOK(row, gave[r]) /\ Keeps(requests[r], row)
      BY ONLY <1>1, <1>2, <1>9, <2>1, <2>2, ReceiveOK
    <2> QED
      BY <2>1, <2>3
  <1>14. requests[r].stage \in Waiting
    BY <1>1 DEF Waiting
  <1> QED
    BY <1>1, <1>12, <1>13, <1>14, ServingRow

LEMMA EofKeeps ==
    ASSUME ClientInv, NEW r, Eof(r)
    PROVE  ClientInv'
  <1> DEFINE mid == [requests[r] EXCEPT !.eof = TRUE]
             new == [mid EXCEPT !.stage = "done", !.completed = TRUE]
  <1>1. /\ phase \in {"serving", "finishing"} /\ r \in DOMAIN requests
        /\ requests[r].queue = <<>> /\ requests[r].callback = "gone"
        /\ UNCHANGED <<source, phase, delivered, gave, accepted>>
    BY DEF Eof, At, OnlyRow, outside
  <1>2. requests[r] \in Requests /\ RowOK(requests[r], gave[r])
    BY <1>1, At_Facts
  <1>3. /\ mid \in Requests /\ mid.eof = TRUE
        /\ mid.m = requests[r].m /\ mid.queue = requests[r].queue /\ mid.replies = requests[r].replies
        /\ mid.query = requests[r].query /\ mid.callback = requests[r].callback
        /\ mid.refused = requests[r].refused /\ mid.discharged = requests[r].discharged
    BY Zenon, <1>2 DEF Requests
  <1>4. new \in Requests /\ Alike(mid, new) /\ new.stage = "done" /\ Becomes(r, new)
    BY Zenon, <1>3, Returned DEF Eof, Return
  <1> HIDE DEF mid, new
  <1>5. StageOK(new) /\ new.stage \notin Waiting
    BY <1>4, DoneOK
  <1>6. RowOK(new, gave[r]) /\ Keeps(requests[r], new) /\ new.m = requests[r].m
    BY Zenon, <1>1, <1>2, <1>3, <1>4, <1>5, EofOK DEF Alike
  <1> QED
    BY <1>1, <1>4, <1>5, <1>6, ServingRow

\* The row once its current reply is another.
LEMMA ReplyKept ==
    ASSUME NEW old \in Requests, NEW i \in DOMAIN old.replies, NEW response \in Responses
    PROVE  \E mid \in Requests :
              /\ mid = [old EXCEPT !.replies[i] = response]
              /\ mid.replies = [old.replies EXCEPT ![i] = response]
              /\ mid.m = old.m /\ mid.queue = old.queue /\ mid.query = old.query
              /\ mid.callback = old.callback /\ mid.refused = old.refused
              /\ mid.discharged = old.discharged /\ mid.eof = old.eof /\ mid.stage = old.stage
  <1> DEFINE mid == [old EXCEPT !.replies[i] = response]
             list == [old.replies EXCEPT ![i] = response]
  <1>1. old.replies \in Seq(Responses)
    BY RowTypes
  <1>2. list \in Seq(Responses)
    <2>1. PICK S : S = Responses
      OBVIOUS
    <2>2. old.replies \in Seq(S) /\ response \in S /\ i \in DOMAIN old.replies
      BY <1>1, <2>1
    <2>3. [old.replies EXCEPT ![i] = response] \in Seq(S)
      BY ONLY <2>2
    <2> QED
      BY <2>1, <2>3
  <1>3. mid = [old EXCEPT !.replies = list]
    OBVIOUS
  <1> HIDE DEF list
  <1>4. [old EXCEPT !.replies = list] \in Requests
    BY Zenon, <1>2 DEF Requests
  <1>5. LET new == [old EXCEPT !.replies = list]
        IN  /\ new.replies = list /\ new.m = old.m /\ new.queue = old.queue /\ new.query = old.query
            /\ new.callback = old.callback /\ new.refused = old.refused
            /\ new.discharged = old.discharged /\ new.eof = old.eof /\ new.stage = old.stage
    BY DEF Requests
  <1>6. mid \in Requests
    BY <1>3, <1>4
  <1>7. /\ mid.replies = list /\ mid.m = old.m /\ mid.queue = old.queue /\ mid.query = old.query
        /\ mid.callback = old.callback /\ mid.refused = old.refused
        /\ mid.discharged = old.discharged /\ mid.eof = old.eof /\ mid.stage = old.stage
    BY Zenon, <1>3, <1>5
  <1> QED
    BY <1>6, <1>7, Zenon DEF list

\* The reply being verified or offered.
LEMMA CurrentReply ==
    ASSUME ClientInv, NEW r \in DOMAIN requests, requests[r].stage \in {"verifying", "capacity"}
    PROVE  /\ Current(r) \in DOMAIN requests[r].replies
           /\ requests[r].replies[Current(r)] \in Responses
           /\ requests[r].replies[Current(r)].decoded \in {"None", "Full"}
           /\ requests[r].stage = "capacity" => requests[r].replies[Current(r)].verified = "Ok"
           /\ requests[r].stage = "capacity" => requests[r].replies[Current(r)].decoded = "Full"
  <1>1. requests[r] \in Requests /\ RowOK(requests[r], gave[r]) /\ requests[r].replies \in Seq(Responses)
    BY At_Facts
  <1>2. /\ requests[r].replies # <<>>
        /\ requests[r].replies[Current(r)].decoded \in {"None", "Full"}
        /\ requests[r].stage = "capacity" => requests[r].replies[Current(r)].verified = "Ok"
        /\ requests[r].stage = "capacity" => requests[r].replies[Current(r)].decoded = "Full"
    BY <1>1 DEF RowOK, StageOK, Current
  <1>3. Current(r) \in DOMAIN requests[r].replies
    BY <1>1, <1>2 DEF Current
  <1> QED
    BY <1>1, <1>2, <1>3

\* A step that settles or keeps offering the current reply.
LEMMA ReplySuspends ==
    ASSUME ClientInv, phase \in {"serving", "finishing"}, NEW r \in DOMAIN requests,
           requests[r].stage \in {"verifying", "capacity"}, NEW response \in Responses,
           response.original = requests[r].replies[Current(r)].original,
           response.charge = requests[r].replies[Current(r)].charge,
           NEW stage \in {"receiving", "capacity"},
           stage = "capacity" => response.decoded = "Full" /\ response.verified = "Ok",
           Suspend(r, [requests[r] EXCEPT !.replies[Current(r)] = response], stage),
           UNCHANGED <<source, phase, gave, accepted>>,
           \/ delivered' = delivered
           \/ /\ delivered' = Append(delivered, <<r, Current(r)>>)
              /\ response.decoded = "Ok" /\ response.verified = "Ok"
    PROVE  ClientInv'
  <1> DEFINE old == requests[r]
             i == Current(r)
  <1>1. old \in Requests /\ RowOK(old, gave[r]) /\ old.replies \in Seq(Responses)
    BY At_Facts
  <1>2. i \in DOMAIN old.replies /\ old.replies[i].decoded # "Ok"
    BY CurrentReply
  <1>3. PICK mid \in Requests :
           /\ mid = [old EXCEPT !.replies[i] = response]
           /\ mid.replies = [old.replies EXCEPT ![i] = response]
           /\ mid.m = old.m /\ mid.queue = old.queue /\ mid.query = old.query
           /\ mid.callback = old.callback /\ mid.refused = old.refused
           /\ mid.discharged = old.discharged /\ mid.eof = old.eof /\ mid.stage = old.stage
    BY Zenon, <1>1, <1>2, ReplyKept
  <1>4. Suspend(r, mid, stage) /\ stage \in Stages
    BY <1>3 DEF Stages
  <1>5. PICK row \in Requests : Alike(mid, row) /\ row.stage = stage /\ Becomes(r, row)
    BY <1>4, Suspended
  <1>6. /\ row.replies = [old.replies EXCEPT ![i] = response]
        /\ row.m = old.m /\ row.queue = old.queue /\ row.query = old.query
        /\ row.callback = old.callback /\ row.refused = old.refused
        /\ row.discharged = old.discharged /\ row.eof = old.eof
    BY <1>3, <1>5 DEF Alike
  <1>7. /\ Len(row.replies) = i /\ row.replies[i] = response /\ row.replies # <<>>
        /\ i \in DOMAIN row.replies
    <2>1. PICK S : S = Responses
      OBVIOUS
    <2>2. old.replies \in Seq(S) /\ i = Len(old.replies) /\ i \in DOMAIN old.replies
      BY <1>1, <1>2, <2>1 DEF Current
    <2>3. PICK list : list = [old.replies EXCEPT ![i] = response]
      BY Zenon
    <2>4. DOMAIN list = DOMAIN old.replies /\ list[i] = response /\ Len(list) = Len(old.replies)
      BY ONLY <2>2, <2>3
    <2>5. list # <<>>
      BY ONLY <2>2, <2>4
    <2> QED
      BY <1>6, <2>2, <2>3, <2>4, <2>5
  <1>8. old.query # "Unattempted" /\ old.stage \in Waiting
    BY <1>1 DEF RowOK, StageOK, Waiting
  <1>9. StageOK(row)
    BY <1>5, <1>6, <1>7, <1>8 DEF StageOK
  <1>10. RowOK(row, gave[r]) /\ Keeps(old, row)
    BY ONLY <1>1, <1>2, <1>6, <1>9, row \in Requests, ReplyOK,
       response.original = requests[r].replies[Current(r)].original,
       response.charge = requests[r].replies[Current(r)].charge
  <1>11. CASE delivered' = delivered
    BY <1>5, <1>6, <1>8, <1>10, <1>11, ServingRow
  <1>12. CASE /\ delivered' = Append(delivered, <<r, Current(r)>>)
              /\ response.decoded = "Ok" /\ response.verified = "Ok"
    <2>1. RowsInv(requests, source.queue, accepted, gave, delivered)
      BY DEF ClientInv
    <2>2. RowsInv([requests EXCEPT ![r] = row], source.queue, accepted, gave, Append(delivered, <<r, i>>))
      BY <1>2, <1>6, <1>7, <1>8, <1>10, <1>12, <2>1, RowDelivers
    <2>3. RowsInv(requests', source'.queue, accepted', gave', delivered')
      BY <1>5, <1>12, <2>2 DEF Becomes
    <2>4. PhaseOK(phase', requests')
      BY DEF PhaseOK
    <2> QED
      BY <2>3, <2>4 DEF ClientInv
  <1> QED
    BY <1>11, <1>12

\* One turn of the delivery loop.
LEMMA OfferKeeps ==
    ASSUME ClientInv, phase \in {"serving", "finishing"}, NEW r \in DOMAIN requests,
           requests[r].stage \in {"verifying", "capacity"}, NEW response \in Responses,
           response.original = requests[r].replies[Current(r)].original,
           response.charge = requests[r].replies[Current(r)].charge,
           response.verified = "Ok", Offer(r, response), UNCHANGED <<source, phase, gave, accepted>>
    PROVE  ClientInv'
  <1> DEFINE denied == [response EXCEPT !.denied = TRUE]
             with(result) == [response EXCEPT !.decoded = result]
  <1>1. \/ /\ Suspend(r, [requests[r] EXCEPT !.replies[Current(r)] = denied], "receiving")
           /\ delivered' = delivered
        \/ \E result \in {"Closed", "Ok", "Full"} :
             /\ Suspend(r, [requests[r] EXCEPT !.replies[Current(r)] = with(result)],
                        IF Eligible(with(result)) THEN "capacity" ELSE "receiving")
             /\ IF result = "Ok" THEN delivered' = Append(delivered, <<r, Current(r)>>)
                ELSE delivered' = delivered
    <2> DEFINE result == IF ~mailbox.open THEN "Closed"
                         ELSE IF mailbox.count < MailboxCapacity THEN "Ok" ELSE "Full"
    <2>1. result \in {"Closed", "Ok", "Full"}
      OBVIOUS
    <2>2. \/ /\ Suspend(r, [requests[r] EXCEPT !.replies[Current(r)] = denied], "receiving")
             /\ delivered' = delivered
          \/ /\ Suspend(r, [requests[r] EXCEPT !.replies[Current(r)] = with(result)],
                        IF Eligible(with(result)) THEN "capacity" ELSE "receiving")
             /\ IF result = "Ok" THEN delivered' = Append(delivered, <<r, Current(r)>>)
                ELSE delivered' = delivered
      BY Zenon DEF Offer
    <2> HIDE DEF result, denied, with
    <2> QED
      BY <2>1, <2>2, Zenon
  <1>2. /\ denied \in Responses /\ denied.original = response.original /\ denied.charge = response.charge
    BY Zenon DEF Responses
  <1>3. \A result \in {"Closed", "Ok", "Full"} :
           /\ with(result) \in Responses /\ with(result).original = response.original
           /\ with(result).charge = response.charge /\ with(result).verified = "Ok"
           /\ with(result).decoded = result
    BY DEF Responses
  <1> HIDE DEF denied, with
  <1>4. CASE /\ Suspend(r, [requests[r] EXCEPT !.replies[Current(r)] = denied], "receiving")
             /\ delivered' = delivered
    BY <1>2, <1>4, ReplySuspends
  <1>5. ASSUME NEW result \in {"Closed", "Ok", "Full"},
               Suspend(r, [requests[r] EXCEPT !.replies[Current(r)] = with(result)],
                       IF Eligible(with(result)) THEN "capacity" ELSE "receiving"),
               IF result = "Ok" THEN delivered' = Append(delivered, <<r, Current(r)>>)
               ELSE delivered' = delivered
        PROVE  ClientInv'
    <2>1. PICK new : new = with(result)
      OBVIOUS
    <2>2. /\ new \in Responses /\ new.original = response.original /\ new.charge = response.charge
          /\ new.verified = "Ok" /\ new.decoded = result
      BY <1>3, <2>1
    <2>3. PICK stage : stage = (IF Eligible(with(result)) THEN "capacity" ELSE "receiving")
      OBVIOUS
    <2>4. stage \in {"receiving", "capacity"} /\ (stage = "capacity" => new.decoded = "Full")
      BY <2>1, <2>2, <2>3 DEF Eligible
    <2>5. Suspend(r, [requests[r] EXCEPT !.replies[Current(r)] = new], stage)
      BY <1>5, <2>1, <2>3
    <2>6. \/ delivered' = delivered
          \/ delivered' = Append(delivered, <<r, Current(r)>>) /\ new.decoded = "Ok" /\ new.verified = "Ok"
      BY <1>5, <2>2
    <2> QED
      BY Zenon, <2>2, <2>4, <2>5, <2>6, ReplySuspends
  <1> QED
    BY <1>1, <1>4, <1>5

LEMMA VerifiedKeeps ==
    ASSUME ClientInv, NEW r, NEW out \in {"Ok", "Err", "Panic"}, Verified(r, out)
    PROVE  ClientInv'
  <1> DEFINE cur == requests[r].replies[Current(r)]
             response == [cur EXCEPT !.verified = out]
             denied == [response EXCEPT !.denied = TRUE]
             failed == [response EXCEPT !.decoded = "Err"]
             left == [response EXCEPT !.decoded = "Left"]
  <1>1. /\ phase \in {"serving", "finishing"} /\ r \in DOMAIN requests /\ requests[r].stage = "verifying"
        /\ UNCHANGED <<source, phase, gave, accepted>>
    BY DEF Verified, At, outside
  <1>2. cur \in Responses
    BY <1>1, CurrentReply
  <1>3. \/ /\ Suspend(r, [requests[r] EXCEPT !.replies[Current(r)] = response], "receiving")
           /\ delivered' = delivered
        \/ /\ Suspend(r, [requests[r] EXCEPT !.replies[Current(r)] = denied], "receiving")
           /\ delivered' = delivered
        \/ /\ Suspend(r, [requests[r] EXCEPT !.replies[Current(r)] = failed], "receiving")
           /\ delivered' = delivered
        \/ out = "Ok" /\ Offer(r, left)
    BY Zenon DEF Verified
  <1>4. response \in Responses /\ response.original = cur.original /\ response.charge = cur.charge
    BY <1>2 DEF Responses
  <1>5. denied \in Responses /\ denied.original = cur.original /\ denied.charge = cur.charge
    BY Zenon, <1>2 DEF Responses
  <1>6. failed \in Responses /\ failed.original = cur.original /\ failed.charge = cur.charge
    BY Zenon, <1>2 DEF Responses
  <1>7. left \in Responses /\ left.original = cur.original /\ left.charge = cur.charge /\ left.verified = out
    BY Zenon, <1>2 DEF Responses
  <1> HIDE DEF response, denied, failed, left
  <1>8. CASE \E new \in {response, denied, failed} :
               /\ Suspend(r, [requests[r] EXCEPT !.replies[Current(r)] = new], "receiving")
               /\ delivered' = delivered
    <2>1. PICK new \in {response, denied, failed} :
               /\ Suspend(r, [requests[r] EXCEPT !.replies[Current(r)] = new], "receiving")
               /\ delivered' = delivered
      BY <1>8
    <2>2. new \in Responses /\ new.original = cur.original /\ new.charge = cur.charge
      BY <1>4, <1>5, <1>6
    <2> QED
      BY <1>1, <2>1, <2>2, ReplySuspends
  <1>9. CASE out = "Ok" /\ Offer(r, left)
    BY <1>1, <1>7, <1>9, OfferKeeps
  <1> QED
    BY <1>3, <1>8, <1>9, Zenon

LEMMA CapacityKeeps ==
    ASSUME ClientInv, NEW r, Capacity(r)
    PROVE  ClientInv'
  <1>1. /\ phase \in {"serving", "finishing"} /\ r \in DOMAIN requests /\ requests[r].stage = "capacity"
        /\ UNCHANGED <<source, phase, gave, accepted>>
    BY DEF Capacity, At, outside
  <1>2. requests[r] \in Requests /\ RowOK(requests[r], gave[r])
    BY <1>1, At_Facts
  <1>3. CASE Suspend(r, requests[r], "receiving") /\ delivered' = delivered
    <2>1. PICK row \in Requests : Alike(requests[r], row) /\ row.stage = "receiving" /\ Becomes(r, row)
      BY <1>2, <1>3, Suspended DEF Stages
    <2>2. StageOK(row) /\ requests[r].stage \in Waiting
      BY <1>1, <1>2, <2>1 DEF RowOK, StageOK, Alike, Waiting
    <2> QED
      BY <1>1, <1>3, <2>1, <2>2, ServingAlike
  <1>4. CASE Offer(r, requests[r].replies[Current(r)])
    <2>1. requests[r].replies[Current(r)] \in Responses /\ requests[r].replies[Current(r)].verified = "Ok"
      BY <1>1, CurrentReply
    <2> QED
      BY <1>1, <1>4, <2>1, OfferKeeps
  <1> QED
    BY <1>3, <1>4 DEF Capacity

-----------------------------------------------------------------------------
(* The native callback, the drain and the handoff *)

\* A row that changes outside serving stays at its stage and is drained no less.
LEMMA PhaseRow ==
    ASSUME NEW p, NEW rows \in Seq(Requests), PhaseOK(p, rows), NEW r \in DOMAIN rows, NEW row,
           row.stage = rows[r].stage, Undrained(row) => Undrained(rows[r])
    PROVE  PhaseOK(p, [rows EXCEPT ![r] = row])
  <1> DEFINE f == [rows EXCEPT ![r] = row]
  <1>1. DOMAIN f = DOMAIN rows /\ f[r] = row /\ \A s \in DOMAIN rows : s # r => f[s] = rows[s]
    <2>1. PICK S : S = Requests
      OBVIOUS
    <2>2. rows \in Seq(S) /\ r \in DOMAIN rows
      BY <2>1
    <2> QED
      BY ONLY <2>2
  <1> HIDE DEF f
  <1>2. rows # <<>>
    OBVIOUS
  <1>3. \A s \in DOMAIN f : Pending(f[s]) => Pending(rows[s])
    BY <1>1 DEF Pending
  <1>4. \A s \in DOMAIN f : Undrained(f[s]) => Undrained(rows[s])
    BY <1>1
  <1> QED
    BY <1>1, <1>2, <1>3, <1>4 DEF PhaseOK, f

\* A step outside serving that changes one row.
LEMMA RowStep ==
    ASSUME ClientInv, NEW r \in DOMAIN requests, NEW row \in Requests, row.m = requests[r].m,
           gave' \in [RowIds -> Nat], \A s \in RowIds : s # r => gave'[s] = gave[s],
           RowOK(row, gave'[r]), Keeps(requests[r], row),
           row.stage = requests[r].stage, Undrained(row) => Undrained(requests[r]),
           Becomes(r, row), UNCHANGED <<source, phase, delivered, accepted>>
    PROVE  ClientInv'
  <1>1. RowsInv(requests, source.queue, accepted, gave, delivered) /\ PhaseOK(phase, requests)
    BY DEF ClientInv
  <1>2. requests \in Seq(Requests)
    BY <1>1 DEF RowsInv
  <1>3. PICK more : more = gave'
    OBVIOUS
  <1>4. RowsInv([requests EXCEPT ![r] = row], source.queue, accepted, more, delivered)
    BY <1>1, <1>3, RowBecomes
  <1>5. RowsInv(requests', source'.queue, accepted', gave', delivered')
    BY <1>3, <1>4 DEF Becomes
  <1>6. PhaseOK(phase', requests')
    BY Zenon, <1>1, <1>2, PhaseRow DEF Becomes
  <1> QED
    BY <1>5, <1>6 DEF ClientInv

LEMMA CallbackKeeps ==
    ASSUME ClientInv, NEW r, NEW reply \in {"sample", "error"}, Callback(r, reply)
    PROVE  ClientInv'
  <1>1. /\ r \in DOMAIN requests /\ requests[r].callback = "live"
        /\ Becomes(r, Retained(requests[r], reply)) /\ gave' = [gave EXCEPT ![r] = @ + 1]
        /\ UNCHANGED <<source, phase, delivered, accepted>>
    BY DEF Callback, outside
  <1>2. requests[r] \in Requests /\ RowOK(requests[r], gave[r]) /\ r \in RowIds /\ gave[r] \in Nat
    BY <1>1, At_Facts
  <1>3. gave \in [RowIds -> Nat]
    BY DEF ClientInv, RowsInv
  <1>4. gave' \in [RowIds -> Nat] /\ gave'[r] = gave[r] + 1 /\ \A s \in RowIds : s # r => gave'[s] = gave[s]
    BY <1>1, <1>2, <1>3
  <1>5. PICK row : row = Retained(requests[r], reply)
    OBVIOUS
  <1>6. /\ row \in Requests /\ row.m = requests[r].m /\ row.stage = requests[r].stage
        /\ row.query = requests[r].query /\ row.eof = requests[r].eof
        /\ RowOK(row, gave[r] + 1) /\ Keeps(requests[r], row)
    BY <1>1, <1>2, <1>5, GivenOK
  <1>7. Becomes(r, row) /\ RowOK(row, gave'[r]) /\ (Undrained(row) => Undrained(requests[r]))
    BY <1>1, <1>4, <1>5, <1>6 DEF Undrained
  <1> QED
    BY <1>1, <1>4, <1>6, <1>7, RowStep

\* A step outside serving that changes one row and gives nothing.
LEMMA QuietRow ==
    ASSUME ClientInv, NEW r \in DOMAIN requests, NEW row \in Requests, row.m = requests[r].m,
           RowOK(row, gave[r]), Keeps(requests[r], row),
           row.stage = requests[r].stage, Undrained(row) => Undrained(requests[r]),
           Becomes(r, row), OnlyRow
    PROVE  ClientInv'
  <1>1. UNCHANGED <<source, phase, delivered, accepted, gave>>
    BY DEF OnlyRow, outside
  <1>2. gave' \in [RowIds -> Nat] /\ gave' = gave
    BY <1>1 DEF ClientInv, RowsInv
  <1> QED
    BY <1>1, <1>2, RowStep

LEMMA CallbackGoneKeeps ==
    ASSUME ClientInv, NEW r, CallbackGone(r)
    PROVE  ClientInv'
  <1> DEFINE row == [requests[r] EXCEPT !.callback = "gone"]
  <1>1. r \in DOMAIN requests /\ requests[r].callback = "live" /\ Becomes(r, row) /\ OnlyRow
    BY DEF CallbackGone
  <1>2. requests[r] \in Requests /\ RowOK(requests[r], gave[r])
    BY <1>1, At_Facts
  <1>3. /\ row \in Requests /\ row.callback = "gone" /\ row.m = requests[r].m /\ row.stage = requests[r].stage
        /\ row.eof = requests[r].eof /\ row.queue = requests[r].queue /\ row.replies = requests[r].replies
        /\ row.query = requests[r].query /\ row.refused = requests[r].refused
        /\ row.discharged = requests[r].discharged
    BY <1>2 DEF Requests
  <1> HIDE DEF row
  <1>4. RowOK(row, gave[r]) /\ Keeps(requests[r], row)
    BY <1>1, <1>2, <1>3, GoneOK
  <1>5. Undrained(row) => Undrained(requests[r])
    BY <1>3 DEF Undrained
  <1> QED
    BY <1>1, <1>3, <1>4, <1>5, QuietRow

LEMMA CancelKeeps ==
    ASSUME ClientInv, NEW r, CancelOperation(r)
    PROVE  ClientInv'
  <1>1. /\ phase = "finishing" /\ r \in DOMAIN requests /\ Suspend(r, requests[r], "dropped")
        /\ UNCHANGED <<source, phase, delivered, gave, accepted>>
    BY DEF CancelOperation, OnlyRow, outside
  <1>2. requests[r] \in Requests
    BY <1>1, At_Facts
  <1>3. PICK row \in Requests : Alike(requests[r], row) /\ row.stage = "dropped" /\ Becomes(r, row)
    BY <1>1, <1>2, Suspended DEF Stages
  <1> QED
    BY <1>1, <1>3, DoneOK, ServingAlike

LEMMA DrainKeeps ==
    ASSUME ClientInv, NEW r, DrainRow(r)
    PROVE  ClientInv'
  <1> DEFINE old == requests[r]
  <1>1. phase = "retiring" /\ r \in DOMAIN requests /\ Undrained(old) /\ OnlyRow
    BY DEF DrainRow
  <1>2. old \in Requests /\ RowOK(old, gave[r])
    BY <1>1, At_Facts
  <1>3. ~Pending(old)
    BY <1>1 DEF ClientInv, PhaseOK
  <1>4. CASE /\ old.queue # <<>>
             /\ Becomes(r, [old EXCEPT !.queue = Tail(@), !.replies = Append(@, Response(Head(old.queue)))])
    <2>1. old.queue \in Seq({"sample", "error"})
      BY <1>2, RowTypes
    <2>2. Head(old.queue) \in {"sample", "error"}
      BY <1>4, <2>1
    <2>3. PICK new : new = Response(Head(old.queue))
      OBVIOUS
    <2>4. new \in Responses /\ new.charge = "row" /\ new.decoded = "None"
      BY <2>2, <2>3 DEF Response, Responses
    <2>5. PICK row : row = [old EXCEPT !.queue = Tail(@), !.replies = Append(@, new)]
      OBVIOUS
    <2>6. Becomes(r, row)
      BY <1>4, <2>3, <2>5
    <2>7. /\ row \in Requests /\ row.queue = Tail(old.queue) /\ row.replies = Append(old.replies, new)
          /\ row.m = old.m /\ row.query = old.query /\ row.callback = old.callback
          /\ row.refused = old.refused /\ row.discharged = old.discharged /\ row.eof = old.eof
          /\ row.stage = old.stage
      BY Zenon, <1>2, <1>4, <2>4, <2>5, AcquiredReply
    <2>8. RowOK(row, gave[r]) /\ Keeps(old, row)
      BY ONLY <1>2, <1>3, <1>4, <2>4, <2>7, ReceiveOK
    <2> QED
      BY <1>1, <2>6, <2>7, <2>8, QuietRow
  <1>5. CASE /\ old.queue = <<>> /\ old.callback = "gone"
             /\ Becomes(r, [old EXCEPT !.eof = TRUE])
    <2> DEFINE row == [old EXCEPT !.eof = TRUE]
    <2>1. /\ row \in Requests /\ row.eof = TRUE /\ row.queue = old.queue /\ row.replies = old.replies
          /\ row.m = old.m /\ row.query = old.query /\ row.callback = old.callback
          /\ row.refused = old.refused /\ row.discharged = old.discharged /\ row.stage = old.stage
      BY Zenon, <1>2 DEF Requests
    <2> HIDE DEF row
    <2>2. StageOK(row)
      BY <1>2, <2>1 DEF RowOK, StageOK
    <2>3. RowOK(row, gave[r]) /\ Keeps(old, row)
      BY Zenon, <1>2, <1>5, <2>1, <2>2, EofOK
    <2>4. ~Undrained(row)
      BY <2>1 DEF Undrained
    <2>5. Becomes(r, row)
      BY <1>5 DEF row
    <2> QED
      BY <1>1, <2>1, <2>3, <2>4, <2>5, QuietRow
  <1> QED
    BY <1>4, <1>5 DEF DrainRow

LEMMA ResponseIntoPartsKeeps ==
    ASSUME ClientInv, NEW r, ResponseIntoParts(r)
    PROVE  ClientInv'
  <1> DEFINE old == requests[r]
  <1>1. phase = "taken" /\ r \in DOMAIN requests /\ OnlyRow
    BY DEF ResponseIntoParts
  <1>2. old \in Requests /\ RowOK(old, gave[r]) /\ old.replies \in Seq(Responses)
    BY <1>1, At_Facts
  <1>3. PICK i \in DOMAIN old.replies :
           /\ old.replies[i].charge = "row"
           /\ Becomes(r, [old EXCEPT !.replies[i] = Discharge(@)])
    BY Zenon DEF ResponseIntoParts
  <1>4. old.replies[i] \in Responses
    BY <1>2
  <1>5. PICK response : response = Discharge(old.replies[i])
    OBVIOUS
  <1>6. /\ response \in Responses /\ response.original = old.replies[i].original
        /\ response.decoded = old.replies[i].decoded /\ response.verified = old.replies[i].verified
        /\ response.charge = "released" => response.original = "sample"
    <2>1. PICK cur \in Responses : cur = old.replies[i]
      BY <1>4
    <2>2. response = [cur EXCEPT !.charge = IF cur.original = "sample" THEN "released" ELSE "error"]
      BY <1>5, <2>1 DEF Discharge
    <2>3. /\ response \in Responses /\ response.original = cur.original
          /\ response.decoded = cur.decoded /\ response.verified = cur.verified
          /\ response.charge = "released" => response.original = "sample"
      BY ONLY <2>2, cur \in Responses DEF Responses
    <2> QED
      BY ONLY <2>1, <2>3
  <1>7. Becomes(r, [old EXCEPT !.replies[i] = response])
    BY <1>3, <1>5
  <1>8. PICK row \in Requests :
           /\ row = [old EXCEPT !.replies[i] = response]
           /\ row.replies = [old.replies EXCEPT ![i] = response]
           /\ row.m = old.m /\ row.queue = old.queue /\ row.query = old.query
           /\ row.callback = old.callback /\ row.refused = old.refused
           /\ row.discharged = old.discharged /\ row.eof = old.eof /\ row.stage = old.stage
    BY ZenonT(60), <1>2, <1>3, <1>6, ReplyKept
  <1>9. old.query = "Ok" /\ ~Undrained(old) /\ ~Pending(old)
    <2>1. old.replies # <<>>
      BY <1>2, <1>3
    <2> QED
      BY <1>1, <1>2, <2>1 DEF RowOK, CallbackOK, ClientInv, PhaseOK
  <1>10. old.eof
    BY <1>9 DEF Undrained
  <1>11. StageOK(row)
    BY <1>2, <1>8, <1>9 DEF RowOK, StageOK, Pending
  <1>12. RowOK(row, gave[r]) /\ Keeps(old, row)
    <2>1. /\ row.replies = [old.replies EXCEPT ![i] = response] /\ i \in DOMAIN old.replies
          /\ row.queue = old.queue /\ row.query = old.query /\ row.callback = old.callback
          /\ row.refused = old.refused /\ row.discharged = old.discharged /\ row.eof = old.eof
      BY <1>3, <1>8
    <2>2. /\ response.original = old.replies[i].original
          /\ response.charge = old.replies[i].charge \/ (old.replies[i].charge = "row" /\ old.eof /\
               (response.charge = "released" => response.original = "sample"))
          /\ old.replies[i].decoded = "Ok" /\ old.replies[i].verified = "Ok" =>
               response.decoded = "Ok" /\ response.verified = "Ok"
      BY <1>3, <1>6, <1>10
    <2>3. old \in Requests /\ RowOK(old, gave[r]) /\ row \in Requests
      BY <1>2
    <2> HIDE DEF old
    <2> QED
      BY ONLY <1>11, <2>1, <2>2, <2>3, ReplyOK
  <1>13. Undrained(row) => Undrained(old)
    BY <1>8 DEF Undrained
  <1> QED
    BY Zenon, <1>1, <1>7, <1>8, <1>12, <1>13, QuietRow

-----------------------------------------------------------------------------
(* Acquisition, the end of serving and the handoff of the rows *)

LEMMA RequestFresh ==
    ASSUME NEW m \in Nat
    PROVE  FreshRow(Request(m)) /\ Request(m).m = m
  <1>1. <<>> \in Seq(Responses) /\ <<>> \in Seq({"sample", "error"})
    OBVIOUS
  <1> QED
    BY <1>1 DEF FreshRow, Request, Requests, Stages

LEMMA SelectFresh ==
    ASSUME NEW m \in Nat, NEW row \in Select(m)
    PROVE  FreshRow(row) /\ row.m = m
  <1>1. PICK e \in {"Some", "NoGet", "Refused"} : row = [Request(m) EXCEPT !.encoded = e]
    BY DEF Select
  <1>2. PICK old : old = Request(m)
    OBVIOUS
  <1>3. FreshRow(old) /\ old.m = m
    BY <1>2, RequestFresh
  <1>4. row = [old EXCEPT !.encoded = e]
    BY <1>1, <1>2
  <1>5. row \in Requests
    BY <1>3, <1>4 DEF FreshRow, Requests
  <1>6. /\ row.m = old.m /\ row.stage = old.stage /\ row.query = old.query /\ row.callback = old.callback
        /\ row.queue = old.queue /\ row.replies = old.replies /\ row.refused = old.refused
        /\ row.discharged = old.discharged /\ row.eof = old.eof
    BY <1>3, <1>4 DEF FreshRow, Requests
  <1> QED
    BY <1>3, <1>5, <1>6 DEF FreshRow

LEMMA UnstartedFresh ==
    ASSUME NEW old, FreshRow(old)
    PROVE  LET row == [old EXCEPT !.stage = "unstarted"]
           IN  FreshRow(row) /\ row.m = old.m /\ row.stage = "unstarted"
  <1>1. old \in Requests
    BY DEF FreshRow
  <1>2. PICK row : row = [old EXCEPT !.stage = "unstarted"]
    BY Zenon
  <1>3. row \in Requests /\ Alike(old, row) /\ row.stage = "unstarted"
    BY Zenon, <1>1, <1>2, Restaged DEF Stages
  <1>4. FreshRow(row) /\ row.m = old.m
    BY <1>3 DEF FreshRow, Alike
  <1> QED
    BY <1>2, <1>3, <1>4

\* The source's oldest message is a number.
LEMMA HeadNumber ==
    ASSUME ClientInv, source.queue # <<>>
    PROVE  Head(source.queue) \in Nat
  <1>1. source.queue \in Seq(Nat)
    BY DEF ClientInv, RowsInv
  <1> QED
    BY <1>1

\* The source once its oldest message is taken.
LEMMA TakenSource ==
    ASSUME ClientInv, source.queue # <<>>, source' = Taken
    PROVE  /\ source' \in [open : BOOLEAN, queue : Seq(Nat), eof : BOOLEAN]
           /\ source'.queue = Tail(source.queue)
  <1>1. source \in [open : BOOLEAN, queue : Seq(Nat), eof : BOOLEAN]
    BY DEF ClientInv
  <1>2. Tail(source.queue) \in Seq(Nat)
    BY <1>1
  <1>3. PICK still : still = (source.open /\ Len(requests) + 1 < RetainedRequests)
    OBVIOUS
  <1>4. still \in BOOLEAN
    BY <1>1, <1>3
  <1>5. source' = [source EXCEPT !.queue = Tail(source.queue), !.open = still]
    BY <1>1, <1>3, ZenonT(60) DEF Taken
  <1> QED
    BY ONLY Zenon, <1>1, <1>2, <1>4, <1>5

LEMMA AcquireKeeps ==
    ASSUME ClientInv, Acquire
    PROVE  ClientInv'
  <1>1. /\ phase = "serving" /\ source.queue # <<>> /\ Len(requests) < RetainedRequests /\ source' = Taken
        /\ UNCHANGED <<phase, delivered, gave, accepted>>
    BY DEF Acquire, outside
  <1>2. PICK row \in Select(Head(source.queue)) : requests' = Append(requests, row)
    BY DEF Acquire
  <1>3. FreshRow(row) /\ row.m = Head(source.queue)
    BY <1>1, HeadNumber, SelectFresh
  <1>4. RowsInv(requests, source.queue, accepted, gave, delivered)
    BY DEF ClientInv
  <1>5. RowsInv(Append(requests, row), Tail(source.queue), accepted, gave, delivered)
    BY <1>1, <1>3, <1>4, RowAppended
  <1>6. /\ source' \in [open : BOOLEAN, queue : Seq(Nat), eof : BOOLEAN]
        /\ source'.queue = Tail(source.queue)
    BY <1>1, TakenSource
  <1>7. RowsInv(requests', source'.queue, accepted', gave', delivered')
    BY <1>1, <1>2, <1>5, <1>6
  <1>8. PhaseOK(phase', requests')
    BY <1>1 DEF PhaseOK
  <1> QED
    BY <1>6, <1>7, <1>8 DEF ClientInv

\* The new row of a prefix, or of a panicking select, is not pending.
LEMMA PrefixRows ==
    ASSUME NEW rows \in Seq(Requests), \A s \in DOMAIN rows : ~Pending(rows[s]),
           NEW row \in Requests, row.stage = "unstarted", NEW p \in {"prefix", "withdraw"}
    PROVE  PhaseOK(p, Append(rows, row))
  <1>1. PICK S : S = Requests
    OBVIOUS
  <1>2. rows \in Seq(S) /\ row \in S
    BY <1>1
  <1>3. \A s \in DOMAIN Append(rows, row) : Append(rows, row)[s] = row \/ (s \in DOMAIN rows /\ Append(rows, row)[s] = rows[s])
    BY ONLY <1>2
  <1>4. \A s \in DOMAIN Append(rows, row) : ~Pending(Append(rows, row)[s])
    BY <1>3 DEF Pending
  <1> QED
    BY <1>4 DEF PhaseOK

LEMMA PrefixKeeps ==
    ASSUME ClientInv, Prefix
    PROVE  ClientInv'
  <1>1. /\ phase = "prefix" /\ Len(requests) < RetainedRequests
        /\ UNCHANGED <<phase, delivered, gave, accepted>>
    BY DEF Prefix, outside
  <1>2. /\ source \in [open : BOOLEAN, queue : Seq(Nat), eof : BOOLEAN]
        /\ RowsInv(requests, source.queue, accepted, gave, delivered) /\ PhaseOK(phase, requests)
    BY DEF ClientInv
  <1>3. CASE source.queue = <<>>
    <2>1. source' = [source EXCEPT !.eof = TRUE] /\ requests' = requests
      BY <1>3 DEF Prefix
    <2>2. /\ source' \in [open : BOOLEAN, queue : Seq(Nat), eof : BOOLEAN]
          /\ source'.queue = source.queue
      BY ONLY Zenon, <1>2, <2>1
    <2> QED
      BY <1>1, <1>2, <2>1, <2>2 DEF ClientInv
  <1>4. CASE source.queue # <<>>
    <2>1. PICK old \in Select(Head(source.queue)) :
             requests' = Append(requests, [old EXCEPT !.stage = "unstarted"])
      BY <1>4 DEF Prefix
    <2>2. FreshRow(old) /\ old.m = Head(source.queue)
      BY <1>4, HeadNumber, SelectFresh
    <2>3. PICK row : row = [old EXCEPT !.stage = "unstarted"]
      BY Zenon
    <2>4. FreshRow(row) /\ row.m = Head(source.queue) /\ row.stage = "unstarted"
      BY <2>2, <2>3, UnstartedFresh
    <2>5. RowsInv(Append(requests, row), Tail(source.queue), accepted, gave, delivered)
      BY <1>1, <1>2, <1>4, <2>4, RowAppended
    <2>6. /\ source' \in [open : BOOLEAN, queue : Seq(Nat), eof : BOOLEAN]
          /\ source'.queue = Tail(source.queue)
      BY <1>4, TakenSource DEF Prefix
    <2>7. RowsInv(requests', source'.queue, accepted', gave', delivered')
      BY <1>1, <2>1, <2>3, <2>5, <2>6
    <2>8. PhaseOK(phase', requests')
      <3>1. requests \in Seq(Requests) /\ \A s \in DOMAIN requests : ~Pending(requests[s])
        BY <1>1, <1>2 DEF RowsInv, PhaseOK
      <3>2. row \in Requests
        BY <2>4 DEF FreshRow
      <3>3. PhaseOK("prefix", Append(requests, row))
        BY <2>4, <3>1, <3>2, PrefixRows
      <3> QED
        BY <1>1, <2>1, <2>3, <3>3
    <2> QED
      BY <2>6, <2>7, <2>8 DEF ClientInv
  <1> QED
    BY <1>3, <1>4

\* Every operation dropped.
LEMMA DroppedRows ==
    ASSUME ClientInv
    PROVE  /\ RowsInv(Dropped, source.queue, accepted, gave, delivered)
           /\ Len(Dropped) = Len(requests) /\ Dropped \in Seq(Requests)
           /\ \A r \in DOMAIN Dropped : ~Pending(Dropped[r])
  <1>1. RowsInv(requests, source.queue, accepted, gave, delivered)
    BY DEF ClientInv
  <1>2. ASSUME NEW r \in DOMAIN requests
        PROVE  /\ Dropped[r] \in Requests /\ ~Pending(Dropped[r])
               /\ Dropped[r] = requests[r]
                    \/ (Alike(requests[r], Dropped[r]) /\ StageOK(Dropped[r]) /\ Dropped[r].stage \notin Waiting)
    <2>1. requests[r] \in Requests
      BY At_Facts
    <2>2. CASE Pending(requests[r])
      <3>1. PICK row : row = [requests[r] EXCEPT !.stage = "dropped"]
        BY Zenon
      <3>2. row \in Requests /\ Alike(requests[r], row) /\ row.stage = "dropped"
        BY Zenon, <2>1, <3>1, Restaged DEF Stages
      <3>3. Dropped[r] = row
        BY <2>2, <3>1 DEF Dropped
      <3> QED
        BY <3>2, <3>3, DoneOK DEF Pending
    <2>3. CASE ~Pending(requests[r])
      <3>1. Dropped[r] = requests[r]
        BY <2>3 DEF Dropped
      <3> QED
        BY <2>1, <2>3, <3>1
    <2> QED
      BY <2>2, <2>3
  <1>3. DOMAIN Dropped = DOMAIN requests /\ Dropped = [r \in DOMAIN requests |-> Dropped[r]]
    BY Zenon DEF Dropped
  <1>4. Dropped \in [DOMAIN requests -> Requests]
    BY <1>2, <1>3, Zenon
  <1>5. RowsInv(Dropped, source.queue, accepted, gave, delivered)
    BY <1>1, <1>2, <1>4, RowsAlike
  <1>6. Dropped \in Seq(Requests) /\ Len(Dropped) = Len(requests)
    <2>1. requests \in Seq(Requests) /\ Dropped \in Seq(Requests)
      BY <1>1, <1>5 DEF RowsInv
    <2>2. PICK S, f : S = Requests /\ f = Dropped
      OBVIOUS
    <2>3. requests \in Seq(S) /\ f \in Seq(S) /\ DOMAIN f = DOMAIN requests
      BY <1>3, <2>1, <2>2
    <2>4. Len(f) = Len(requests)
      BY ONLY <2>3
    <2> QED
      BY <2>1, <2>2, <2>4
  <1> QED
    BY <1>2, <1>3, <1>5, <1>6

LEMMA JoinKeeps ==
    ASSUME ClientInv, Join
    PROVE  ClientInv'
  <1>1. /\ requests' = Dropped /\ source' = [source EXCEPT !.open = FALSE] /\ phase' = "prefix"
        /\ UNCHANGED <<delivered, gave, accepted>>
    BY DEF Join, outside
  <1>2. /\ RowsInv(Dropped, source.queue, accepted, gave, delivered)
        /\ \A r \in DOMAIN Dropped : ~Pending(Dropped[r])
    BY DroppedRows
  <1>3. /\ source' \in [open : BOOLEAN, queue : Seq(Nat), eof : BOOLEAN]
        /\ source'.queue = source.queue
    <2>1. source \in [open : BOOLEAN, queue : Seq(Nat), eof : BOOLEAN]
      BY DEF ClientInv
    <2> QED
      BY ONLY Zenon, <1>1, <2>1
  <1>4. RowsInv(requests', source'.queue, accepted', gave', delivered')
    BY <1>1, <1>2, <1>3
  <1>5. PhaseOK(phase', requests')
    BY <1>1, <1>2 DEF PhaseOK
  <1> QED
    BY <1>3, <1>4, <1>5 DEF ClientInv

LEMMA EscapeKeeps ==
    ASSUME ClientInv, NEW r \in RowIds, Escape(r)
    PROVE  ClientInv'
  <1>1. phase' = "withdraw" /\ UNCHANGED <<delivered, gave, accepted>>
    BY DEF Escape, outside
  <1>2. /\ RowsInv(Dropped, source.queue, accepted, gave, delivered)
        /\ Len(Dropped) = Len(requests) /\ Dropped \in Seq(Requests)
        /\ \A s \in DOMAIN Dropped : ~Pending(Dropped[s])
    BY DroppedRows
  <1>3. source \in [open : BOOLEAN, queue : Seq(Nat), eof : BOOLEAN]
    BY DEF ClientInv
  <1>4. CASE requests' = Dropped /\ UNCHANGED source
    <2>1. RowsInv(requests', source'.queue, accepted', gave', delivered')
      BY <1>1, <1>2, <1>4
    <2>2. PhaseOK(phase', requests')
      BY <1>1, <1>2, <1>4 DEF PhaseOK
    <2> QED
      BY <1>3, <1>4, <2>1, <2>2 DEF ClientInv
  <1>5. CASE /\ r = Len(requests) + 1 /\ source.queue # <<>> /\ source' = Taken
             /\ requests' = Append(Dropped, [Request(Head(source.queue)) EXCEPT !.stage = "unstarted"])
    <2>1. PICK old : old = Request(Head(source.queue))
      OBVIOUS
    <2>2. FreshRow(old) /\ old.m = Head(source.queue)
      BY <1>5, <2>1, HeadNumber, RequestFresh
    <2>3. PICK row : row = [old EXCEPT !.stage = "unstarted"]
      BY Zenon
    <2>4. FreshRow(row) /\ row.m = Head(source.queue) /\ row.stage = "unstarted"
      BY <2>2, <2>3, UnstartedFresh
    <2>5. Len(Dropped) < RetainedRequests
      <3>1. requests \in Seq(Requests)
        BY DEF ClientInv, RowsInv
      <3>2. Len(requests) \in Nat /\ r <= RetainedRequests
        BY <3>1, Limits DEF RowIds
      <3> QED
        BY <1>2, <1>5, <3>2, Limits
    <2>6. RowsInv(Append(Dropped, row), Tail(source.queue), accepted, gave, delivered)
      BY <1>2, <1>5, <2>4, <2>5, RowAppended
    <2>7. /\ source' \in [open : BOOLEAN, queue : Seq(Nat), eof : BOOLEAN]
          /\ source'.queue = Tail(source.queue)
      BY <1>5, TakenSource
    <2>8. requests' = Append(Dropped, row)
      BY <1>5, <2>1, <2>3
    <2>9. RowsInv(requests', source'.queue, accepted', gave', delivered')
      BY <1>1, <2>6, <2>7, <2>8
    <2>10. PhaseOK(phase', requests')
      <3>1. row \in Requests
        BY <2>4 DEF FreshRow
      <3>2. PhaseOK("withdraw", Append(Dropped, row))
        BY <1>2, <2>4, <3>1, PrefixRows
      <3> QED
        BY <1>1, <2>8, <3>2
    <2> QED
      BY <2>7, <2>9, <2>10 DEF ClientInv
  <1> QED
    BY <1>4, <1>5 DEF Escape

LEMMA IntoPartsKeeps ==
    ASSUME ClientInv, IntoParts
    PROVE  ClientInv'
  <1>1. /\ phase \in {"fresh", "ended"}
        /\ phase' = IF \E r \in DOMAIN requests : Pending(requests[r]) THEN "panicked" ELSE "taken"
        /\ requests' = [r \in DOMAIN requests |-> RequestParts(requests[r])]
        /\ UNCHANGED <<source, delivered, gave, accepted>>
    BY DEF IntoParts, outside
  <1>2. /\ source \in [open : BOOLEAN, queue : Seq(Nat), eof : BOOLEAN]
        /\ RowsInv(requests, source.queue, accepted, gave, delivered) /\ PhaseOK(phase, requests)
    BY DEF ClientInv
  <1>3. \A r \in DOMAIN requests : ~Pending(requests[r]) /\ ~Undrained(requests[r])
    BY <1>1, <1>2 DEF PhaseOK
  <1>4. phase' = "taken"
    BY <1>1, <1>3, Zenon
  <1>5. PICK f : f = [r \in DOMAIN requests |-> RequestParts(requests[r])]
    BY Zenon
  <1>6. ASSUME NEW r \in DOMAIN requests
        PROVE  /\ f[r] \in Requests /\ Alike(requests[r], f[r]) /\ StageOK(f[r])
               /\ f[r].stage \notin Waiting /\ ~Pending(f[r]) /\ ~Undrained(f[r])
    <2>1. requests[r] \in Requests
      BY At_Facts
    <2>2. f[r] = [requests[r] EXCEPT !.stage = "parts"]
      BY <1>5 DEF RequestParts
    <2>3. PICK row : row = [requests[r] EXCEPT !.stage = "parts"]
      BY Zenon
    <2>4. row \in Requests /\ Alike(requests[r], row) /\ row.stage = "parts"
      BY Zenon, <2>1, <2>3, Restaged DEF Stages
    <2>5. ~Undrained(row)
      BY <1>3, <2>4 DEF Alike, Undrained
    <2>6. StageOK(row) /\ row.stage \notin Waiting /\ ~Pending(row)
      BY <2>4, DoneOK DEF Pending
    <2> QED
      BY ONLY <2>2, <2>3, <2>4, <2>5, <2>6, Zenon
  <1>7. f \in [DOMAIN requests -> Requests] /\ DOMAIN f = DOMAIN requests
    BY <1>5, <1>6, Zenon
  <1>8. RowsInv(f, source.queue, accepted, gave, delivered)
    BY <1>2, <1>6, <1>7, RowsAlike
  <1>9. RowsInv(requests', source'.queue, accepted', gave', delivered')
    BY <1>1, <1>5, <1>8
  <1>10. PhaseOK(phase', requests')
    BY <1>1, <1>4, <1>5, <1>6, <1>7 DEF PhaseOK
  <1> QED
    BY <1>1, <1>2, <1>9, <1>10 DEF ClientInv

LEMMA SendKeeps ==
    ASSUME ClientInv, Send
    PROVE  ClientInv'
  <1>1. /\ source' = [source EXCEPT !.queue = Append(@, accepted + 1)] /\ accepted' = accepted + 1
        /\ UNCHANGED <<requests, phase, delivered, gave>>
    BY DEF Send
  <1>2. /\ source \in [open : BOOLEAN, queue : Seq(Nat), eof : BOOLEAN]
        /\ RowsInv(requests, source.queue, accepted, gave, delivered) /\ PhaseOK(phase, requests)
    BY DEF ClientInv
  <1>3. /\ source.queue \in Seq(Nat) /\ accepted \in Nat /\ requests \in Seq(Requests)
        /\ InOrder(requests, source.queue, accepted)
    BY <1>2 DEF RowsInv
  <1>4. PICK more : more = Append(source.queue, accepted + 1)
    BY Zenon
  <1>5. /\ more \in Seq(Nat) /\ Len(more) = Len(source.queue) + 1 /\ Len(source.queue) \in Nat
        /\ \A i \in DOMAIN more : \/ i \in DOMAIN source.queue /\ more[i] = source.queue[i]
                                  \/ i = Len(source.queue) + 1 /\ more[i] = accepted + 1
    BY <1>3, <1>4
  <1>6. Len(requests) \in Nat
    BY <1>3
  <1>7. InOrder(requests, more, accepted + 1)
    <2>1. Len(requests) + Len(source.queue) = accepted
      BY <1>3 DEF InOrder
    <2>2. \A i \in DOMAIN more : more[i] = Len(requests) + i
      <3>1. \A i \in DOMAIN source.queue : source.queue[i] = Len(requests) + i
        BY <1>3 DEF InOrder
      <3>2. accepted + 1 = Len(requests) + (Len(source.queue) + 1)
        BY <1>3, <1>5, <1>6, <2>1
      <3> QED
        BY Zenon, <1>5, <3>1, <3>2
    <2>3. Len(requests) + Len(more) = accepted + 1
      BY <1>5, <1>6, <2>1
    <2> QED
      BY <1>3, <2>2, <2>3 DEF InOrder
  <1>8. source' \in [open : BOOLEAN, queue : Seq(Nat), eof : BOOLEAN] /\ source'.queue = more
    <2>1. source' = [source EXCEPT !.queue = more] /\ more \in Seq(Nat)
      BY <1>1, <1>4, <1>5
    <2> QED
      BY ONLY <1>2, <2>1
  <1>9. RowsInv(requests', source'.queue, accepted', gave', delivered')
    <2>1. accepted + 1 \in Nat
      BY <1>3
    <2>2. RowsInv(requests, more, accepted + 1, gave, delivered)
      BY <1>2, <1>5, <1>7, <2>1, Zenon DEF RowsInv
    <2> QED
      BY Zenon, <1>1, <1>8, <2>2
  <1> QED
    BY <1>1, <1>2, <1>8, <1>9 DEF ClientInv

-----------------------------------------------------------------------------
(* The theorems *)

LEMMA InitClient ==
    ASSUME ClientInit
    PROVE  ClientInv
  <1>1. /\ source = [open |-> TRUE, queue |-> <<>>, eof |-> FALSE] /\ requests = <<>>
        /\ accepted = 0 /\ delivered = <<>> /\ gave = [r \in RowIds |-> 0] /\ phase = "fresh"
    BY DEF ClientInit
  <1>2. source \in [open : BOOLEAN, queue : Seq(Nat), eof : BOOLEAN] /\ source.queue = <<>>
    BY <1>1
  <1>3. requests \in Seq(Requests) /\ delivered \in Seq(RowIds \X Nat) /\ Len(requests) = 0
    BY <1>1
  <1>4. DOMAIN requests = {} /\ DOMAIN delivered = {} /\ DOMAIN source.queue = {} /\ Len(source.queue) = 0
    BY <1>1, <1>2
  <1>5. Cardinality(Held(requests)) = 0
    <2>1. Held(requests) = {}
      BY <1>4 DEF Held
    <2> QED
      BY <2>1, FS_EmptySet
  <1>6. InOrder(requests, source.queue, accepted)
    BY <1>1, <1>3, <1>4 DEF InOrder
  <1>7. gave \in [RowIds -> Nat] /\ \A r \in RowIds : gave[r] = 0
    BY <1>1
  <1>8. Deliveries(requests, delivered)
    BY <1>4 DEF Deliveries
  <1>9. RowsInv(requests, source.queue, accepted, gave, delivered)
    BY <1>1, <1>2, <1>3, <1>4, <1>5, <1>6, <1>7, <1>8, Limits DEF RowsInv
  <1>10. PhaseOK(phase, requests)
    BY <1>1, <1>4 DEF PhaseOK
  <1> QED
    BY <1>2, <1>9, <1>10 DEF ClientInv

\* A step that leaves the rows, the unread source and the histories alone.
LEMMA QuietStep ==
    ASSUME ClientInv, UNCHANGED <<requests, delivered, gave, accepted>>,
           \/ source' = source
           \/ source' = [source EXCEPT !.open = FALSE]
           \/ source' = [source EXCEPT !.eof = TRUE],
           PhaseOK(phase', requests)
    PROVE  ClientInv'
  <1>1. /\ source \in [open : BOOLEAN, queue : Seq(Nat), eof : BOOLEAN]
        /\ RowsInv(requests, source.queue, accepted, gave, delivered)
    BY DEF ClientInv
  <1>2. source' \in [open : BOOLEAN, queue : Seq(Nat), eof : BOOLEAN] /\ source'.queue = source.queue
    <2>1. CASE source' = source
      BY <1>1, <2>1
    <2>2. CASE source' = [source EXCEPT !.open = FALSE]
      BY ONLY Zenon, <1>1, <2>2
    <2>3. CASE source' = [source EXCEPT !.eof = TRUE]
      BY ONLY Zenon, <1>1, <2>3
    <2> QED
      BY <2>1, <2>2, <2>3
  <1> QED
    BY <1>1, <1>2 DEF ClientInv

\* Startup, the source's end, the retirement and the host.
LEMMA PhaseKeeps ==
    ASSUME ClientInv,
           \/ Preflight \/ Declare \/ SourceEof \/ RetireClient \/ Retired \/ ObserveMatching
           \/ CloseSource \/ TakeReply \/ End \/ UNCHANGED clientVars
    PROVE  ClientInv'
  <1>1. PhaseOK(phase, requests)
    BY DEF ClientInv
  <1>2. CASE Preflight
    <2>1. /\ phase = "fresh" /\ phase' \in {"cold", "withdraw"}
          /\ UNCHANGED <<source, requests, delivered, gave, accepted>>
      BY <1>2 DEF Preflight, outside
    <2>2. PhaseOK(phase', requests)
      BY <1>1, <2>1 DEF PhaseOK
    <2> QED
      BY <2>1, <2>2, QuietStep
  <1>3. CASE Declare
    <2>1. /\ phase = "cold" /\ phase' \in {"serving", "withdraw"}
          /\ UNCHANGED <<source, requests, delivered, gave, accepted>>
      BY <1>3 DEF Declare, outside
    <2>2. PhaseOK(phase', requests)
      BY <1>1, <2>1 DEF PhaseOK
    <2> QED
      BY <2>1, <2>2, QuietStep
  <1>4. CASE SourceEof
    <2>1. /\ phase' = "finishing" /\ source' = [source EXCEPT !.eof = TRUE]
          /\ UNCHANGED <<requests, delivered, gave, accepted>>
      BY <1>4 DEF SourceEof, outside
    <2>2. PhaseOK(phase', requests)
      BY <2>1 DEF PhaseOK
    <2> QED
      BY <2>1, <2>2, QuietStep
  <1>5. CASE RetireClient
    <2>1. /\ phase \in {"prefix", "withdraw"} /\ phase' = "retiring" /\ source' = [source EXCEPT !.open = FALSE]
          /\ UNCHANGED <<requests, delivered, gave, accepted>>
      BY <1>5 DEF RetireClient, outside
    <2>2. PhaseOK(phase', requests)
      BY <1>1, <2>1 DEF PhaseOK
    <2> QED
      BY <2>1, <2>2, QuietStep
  <1>6. CASE Retired
    <2>1. /\ phase = "retiring" /\ phase' = "ended" /\ \A r \in DOMAIN requests : ~Undrained(requests[r])
          /\ UNCHANGED <<source, requests, delivered, gave, accepted>>
      BY <1>6 DEF Retired, outside
    <2>2. PhaseOK(phase', requests)
      BY <1>1, <2>1 DEF PhaseOK
    <2> QED
      BY <2>1, <2>2, QuietStep
  <1>7. CASE CloseSource
    <2>1. /\ phase' = phase /\ source' = [source EXCEPT !.open = FALSE]
          /\ UNCHANGED <<requests, delivered, gave, accepted>>
      BY <1>7 DEF CloseSource, outside
    <2> QED
      BY <1>1, <2>1, QuietStep
  <1>8. CASE ObserveMatching \/ TakeReply \/ End \/ UNCHANGED clientVars
    <2>1. UNCHANGED <<source, requests, phase, delivered, gave, accepted>>
      BY <1>8 DEF ObserveMatching, TakeReply, End, clientVars, outside
    <2> QED
      BY <1>1, <2>1, QuietStep
  <1> QED
    BY <1>2, <1>3, <1>4, <1>5, <1>6, <1>7, <1>8

\* Every step keeps the invariant.
LEMMA ClientStep ==
    ASSUME ClientInv, [ClientNext]_clientVars
    PROVE  ClientInv'
  <1>1. CASE \/ Preflight \/ Declare \/ SourceEof \/ RetireClient \/ Retired \/ ObserveMatching
             \/ CloseSource \/ TakeReply \/ End \/ UNCHANGED clientVars
    BY <1>1, PhaseKeeps
  <1>2. CASE Acquire \/ Join \/ Prefix \/ IntoParts \/ Send
    BY <1>2, AcquireKeeps, JoinKeeps, PrefixKeeps, IntoPartsKeeps, SendKeeps
  <1>3. CASE \E r \in RowIds : Permit(r) \/ RequestGet(r) \/ Receive(r) \/ Eof(r) \/ Capacity(r) \/ CancelOperation(r) \/ DrainRow(r)
    BY <1>3, PermitKeeps, GetKeeps, ReceiveKeeps, EofKeeps, CapacityKeeps, CancelKeeps, DrainKeeps
  <1>4. CASE Provides
    <2>1. Provided("protection") \subseteq {"Ok", "Err", "Panic"} /\ Provided("verification") \subseteq {"Ok", "Err", "Panic"}
      BY DEF Provided
    <2> QED
      BY <1>4, <2>1, ProtectedKeeps, VerifiedKeeps DEF Provides
  <1>5. CASE \E r \in RowIds : ResponseIntoParts(r) \/ CallbackGone(r) \/ Escape(r)
    BY <1>5, ResponseIntoPartsKeeps, CallbackGoneKeeps, EscapeKeeps
  <1>6. CASE \E r \in RowIds, reply \in Originals : Callback(r, reply)
    <2>1. Originals \subseteq {"sample", "error"}
      BY DEF Originals
    <2> QED
      BY <1>6, <2>1, CallbackKeeps
  <1> QED
    BY <1>1, <1>2, <1>3, <1>4, <1>5, <1>6, Zenon DEF ClientNext, ServePoll, Owner, Native, NativeEnds, Host, Escapes

\* What the invariant says of the deliveries.
LEMMA DeliveriesOnce ==
    ASSUME ClientInv
    PROVE  RepliesOnce
  <1>1. RowsInv(requests, source.queue, accepted, gave, delivered)
    BY DEF ClientInv
  <1>2. Deliveries(requests, delivered)
    BY <1>1 DEF RowsInv
  <1>3. IsInjective(delivered)
    BY <1>2 DEF Deliveries, IsInjective
  <1>4. ASSUME NEW i \in DOMAIN delivered
        PROVE  LET row == requests[delivered[i][1]]
                   response == row.replies[delivered[i][2]]
               IN  row.query = "Ok" /\ response.verified = "Ok" /\ response.decoded = "Ok"
    <2>1. PICK r, n : r = delivered[i][1] /\ n = delivered[i][2]
      OBVIOUS
    <2>2. /\ r \in DOMAIN requests /\ n \in DOMAIN requests[r].replies
          /\ requests[r].replies[n].verified = "Ok" /\ requests[r].replies[n].decoded = "Ok"
      BY <1>2, <2>1 DEF Deliveries, DeliveredOK
    <2>3. RowOK(requests[r], gave[r]) /\ requests[r].replies \in Seq(Responses)
      BY <2>2, At_Facts
    <2>4. requests[r].replies # <<>>
      BY <2>2, <2>3
    <2>5. requests[r].query = "Ok"
      BY <2>3, <2>4 DEF RowOK, CallbackOK
    <2> QED
      BY <2>1, <2>2, <2>5
  <1> QED
    BY <1>3, <1>4 DEF RepliesOnce

\* What the invariant says of the messages and the rows.
LEMMA CustodyHolds ==
    ASSUME ClientInv
    PROVE  ClientCustody
  <1>1. RowsInv(requests, source.queue, accepted, gave, delivered) /\ PhaseOK(phase, requests)
    BY DEF ClientInv
  <1>2. /\ requests \in Seq(Requests) /\ Len(requests) <= RetainedRequests /\ source.queue \in Seq(Nat)
        /\ accepted \in Nat /\ InOrder(requests, source.queue, accepted)
        /\ Cardinality(Held(requests)) <= ConcurrentRequests
        /\ \A r \in DOMAIN requests : RowOK(requests[r], gave[r])
    BY <1>1 DEF RowsInv
  <1>3. [r \in DOMAIN requests |-> requests[r].m] \o source.queue = [i \in 1 .. accepted |-> i]
    <2>1. PICK a, b, q : a = Len(requests) /\ b = Len(source.queue) /\ q = source.queue
      BY Zenon
    <2>2. /\ a \in Nat /\ b \in Nat /\ a + b = accepted /\ DOMAIN requests = 1 .. a
          /\ q \in Seq(Nat) /\ Len(q) = b /\ DOMAIN q = 1 .. b
      BY <1>2, <2>1 DEF InOrder
    <2>3. [r \in DOMAIN requests |-> requests[r].m] = [r \in 1 .. a |-> r]
      BY <1>2, <2>2 DEF InOrder
    <2>4. \A i \in 1 .. b : q[i] = a + i
      BY Zenon, <1>2, <2>1, <2>2 DEF InOrder
    <2>5. PICK p : p = [r \in 1 .. a |-> r]
      BY Zenon
    <2>6. p \in Seq(Nat) /\ Len(p) = a /\ \A i \in 1 .. a : p[i] = i
      BY ONLY <2>2, <2>5
    <2>7. /\ p \o q \in Seq(Nat) /\ Len(p \o q) = a + b
          /\ \A i \in 1 .. a + b : (p \o q)[i] = i
      <3>1. p \o q \in Seq(Nat) /\ Len(p \o q) = a + b
        BY ONLY <2>2, <2>6
      <3>2. ASSUME NEW i \in 1 .. a + b PROVE (p \o q)[i] = i
        <4>1. i \in Nat /\ (p \o q)[i] = IF i <= a THEN p[i] ELSE q[i - a]
          <5>1. i \in Nat /\ 1 <= i /\ i <= a + b
            BY ONLY <2>2, i \in 1 .. a + b
          <5>2. i \in 1 .. Len(p) + Len(q)
            BY ONLY <2>2, <2>6, <5>1
          <5>3. (p \o q)[i] = IF i <= Len(p) THEN p[i] ELSE q[i - Len(p)]
            BY ONLY <2>2, <2>6, <5>2
          <5> QED
            BY ONLY <2>6, <5>1, <5>3
        <4>2. CASE i <= a
          <5>1. i \in 1 .. a
            BY ONLY <2>2, <3>2, <4>1, <4>2
          <5> QED
            BY ONLY <2>6, <4>1, <4>2, <5>1
        <4>3. CASE ~(i <= a)
          <5>1. i - a \in 1 .. b /\ a + (i - a) = i
            BY ONLY <2>2, <3>2, <4>1, <4>3
          <5> QED
            BY ONLY <2>4, <4>1, <4>3, <5>1
        <4> QED
          BY Zenon, <4>2, <4>3
      <3> QED
        BY <3>1, <3>2
    <2>8. p \o q = [i \in 1 .. a + b |-> i]
      <3>1. PICK c : c = p \o q
        BY Zenon
      <3>2. c \in [1 .. a + b -> Nat] /\ \A i \in 1 .. a + b : c[i] = i
        <4>1. c \in Seq(Nat) /\ Len(c) = a + b /\ \A i \in 1 .. a + b : c[i] = i
          BY ONLY <2>7, <3>1
        <4> QED
          BY ONLY <2>2, <4>1
      <3>3. c = [i \in 1 .. a + b |-> i]
        BY ONLY <3>2
      <3> QED
        BY ONLY <3>1, <3>3
    <2> QED
      BY Zenon, <2>1, <2>2, <2>3, <2>5, <2>8
  <1>4. Holding = Held(requests)
    BY DEF Holding, Held, Waiting
  <1>5. ASSUME NEW r \in DOMAIN requests
        PROVE  LET row == requests[r]
               IN  /\ Charges(row) <= RetainedResponses
                   /\ gave[r] = Len(row.queue) + Len(row.replies) + row.discharged + (IF row.refused = "None" THEN 0 ELSE 1)
                   /\ row.eof => row.callback = "gone" /\ row.queue = <<>>
                   /\ phase \in {"ended", "taken"} => (row.query # "Unattempted" <=> row.eof)
                   /\ \A i \in DOMAIN row.replies :
                        row.replies[i].charge = "released" =>
                          row.replies[i].original = "sample" /\ row.eof
    <2>1. RowOK(requests[r], gave[r]) /\ requests[r] \in Requests
      BY At_Facts
    <2>2. phase \in {"ended", "taken"} => (requests[r].query # "Unattempted" <=> requests[r].eof)
      <3>1. requests[r].eof \in BOOLEAN
        BY <2>1 DEF Requests
      <3>2. requests[r].eof => requests[r].query # "Unattempted"
        BY <2>1 DEF RowOK, HoldingOK, CallbackOK
      <3>3. phase \in {"ended", "taken"} => ~Undrained(requests[r])
        BY <1>1 DEF PhaseOK
      <3> QED
        BY <3>1, <3>2, <3>3 DEF Undrained
    <2>3. HoldingOK(requests[r], gave[r])
      BY <2>1 DEF RowOK
    <2> QED
      BY <2>2, <2>3, Zenon DEF HoldingOK
  <1>6. phase # "panicked"
    BY <1>1 DEF PhaseOK
  <1> QED
    BY <1>2, <1>3, <1>4, <1>5, <1>6, Zenon DEF ClientCustody

\* No reply reaches the actor twice, however the mailbox, the permissions and the
\* cancellations fall, and what reaches it was verified and decoded in a row that
\* issued a Get (client.rs reply), for every bound on rows, replies and mailboxes.
THEOREM DeliveredOnce == ClientSpec => []RepliesOnce
  <1>1. ClientInit => ClientInv
    BY InitClient
  <1>2. ClientInv /\ [ClientNext]_clientVars => ClientInv'
    BY ClientStep
  <1>3. ClientInv => RepliesOnce
    BY DeliveriesOnce
  <1> QED
    BY <1>1, <1>2, <1>3, PTL DEF ClientSpec

\* Every accepted message is a row or unread, in order; the operations, rows and
\* charges stay within ClientLimits; every native reply is accounted for; and the
\* handoff never finds an operation that still owns its row (client.rs serve,
\* retire, into_parts), for every value of the limits.
THEOREM ClientKept == ClientSpec => []ClientCustody
  <1>1. ClientInit => ClientInv
    BY InitClient
  <1>2. ClientInv /\ [ClientNext]_clientVars => ClientInv'
    BY ClientStep
  <1>3. ClientInv => ClientCustody
    BY CustodyHolds
  <1> QED
    BY <1>1, <1>2, <1>3, PTL DEF ClientSpec
=============================================================================
