------------------------- MODULE RemoteExportProofs -------------------------
(***************************************************************************)
(* Proofs about remote/export/: one execution for every request however    *)
(* often it is repeated, and the custody of every native query.            *)
(***************************************************************************)
EXTENDS RemoteExport, FiniteSetTheorems, WellFoundedInduction, TLAPS

\* A leaf that names no prover is tried with SMT, then Zenon, then SMT twice more with more time.
USE SMTT(20), Zenon, SMTT(40), SMTT(60)

\* The parts of the state the invariant depends on have their types.
ExportTypes ==
    /\ entries \in Seq(Custody \cup {Vacant})
    /\ Len(entries) <= RetainedRequests
    /\ incoming \in Seq(Queries)
    /\ delivered \in SUBSET Queries /\ IsFiniteSet(delivered)
    /\ sent \in Seq([q : Queries, from : Rows, origin : Queries])
    /\ inbox \in [Rows -> [open : BOOLEAN, replies : Nat]]
    /\ admitted \in [Idents -> Nat]

Same(p, q) == Ident[p] = Ident[q] /\ Bytes[p] = Bytes[q]
RowsIn(e) == {r \in DOMAIN e : e[r] # Vacant}

\* The key of a row: a canonical row of the same request and bytes.  A row has
\* none before its verification returned, is canonical while it waits for its
\* target or for its protection, and has admitted nothing without a key.
KeyOK(e, r) ==
    LET k == e[r].identity
    IN  /\ k # 0 => k \in RowsIn(e) /\ e[k].identity = k /\ Same(e[k].q, e[r].q)
        /\ e[r].stage \in {"start", "verification"} => k = 0
        /\ e[r].stage \in {"full", "receive", "protection"} => k = r
        /\ k = 0 \/ e[r].stage = "full" => e[r].admission # "Ok"

\* A request has one canonical row at most.
Unique(e) ==
    \A j, k \in RowsIn(e) :
        Canonical(e, j) /\ Canonical(e, k) /\ Ident[e[j].q] = Ident[e[k].q] => j = k

\* What was admitted of a request, its canonical row knows.
CountOK(e, count) ==
    \A i \in Idents :
        LET rows == {k \in RowsIn(e) : Canonical(e, k) /\ Ident[e[k].q] = i}
        IN  /\ rows = {} => count[i] = 0
            /\ \A k \in rows : count[i] = IF e[k].admission = "Ok" THEN 1 ELSE 0

\* A reply was made by the canonical row of the request it answers.
ReplyOK(e, reply) ==
    /\ Same(reply.origin, reply.q)
    /\ reply.from \in RowsIn(e)
    /\ e[reply.from].identity = reply.from
    /\ e[reply.from].q = reply.origin /\ e[reply.from].completed

\* Requests and replies.
Executions(e, count, replies) ==
    /\ \A r \in RowsIn(e) : KeyOK(e, r)
    /\ Unique(e)
    /\ CountOK(e, count)
    /\ \A i \in DOMAIN replies : ReplyOK(e, replies[i])

\* A delivered query is queued, owned by one row, or gone, and answered once.
Queried(e, queue, replies, seen) ==
    /\ Range(queue) \subseteq seen
    /\ \A i, j \in DOMAIN queue : queue[i] = queue[j] => i = j
    /\ \A r \in RowsIn(e) : e[r].q \in seen
    /\ \A r \in RowsIn(e) : e[r].query =>
          /\ e[r].q \notin Range(queue)
          /\ \A s \in RowsIn(e) : e[s].query /\ e[s].q = e[r].q => r = s
          /\ \A i \in DOMAIN replies : replies[i].q # e[r].q
    /\ \A i \in DOMAIN replies : replies[i].q \in seen /\ replies[i].q \notin Range(queue)
    /\ \A i, j \in DOMAIN replies : replies[i].q = replies[j].q => i = j
    /\ Cardinality(Charged(queue, e)) <= RetainedQueries

\* Nothing is queued before the export serves or after its queue was closed.
Closed ==
    /\ phase \in {"cold", "draining", "withdraw", "ended"} => ~open /\ incoming = <<>>
    /\ phase = "ended" => \A r \in RowsIn(entries) : ~entries[r].query

\* The inductive invariant.
ExportInv ==
    /\ ExportTypes
    /\ Executions(entries, admitted, sent)
    /\ Queried(entries, incoming, sent, delivered)
    /\ Closed

-----------------------------------------------------------------------------
(* Numbers and sequences *)

\* The natural numbers are well founded under less-than.
LEMMA LessThan ==
    \E R : IsWellFoundedOn(R, Nat) /\ \A a, b \in Nat : a < b => <<a, b>> \in R
  <1>1. IsWellFoundedOn(OpToRel(<, Nat), Nat)
    BY Zenon, NatLessThanWellFounded
  <1>2. \A a, b \in Nat : a < b => <<a, b>> \in OpToRel(<, Nat)
    BY DEF OpToRel
  <1> QED
    BY <1>1, <1>2, Zenon

\* Min picks an element: the first vacancy, the canonical row found.
LEMMA MinFacts ==
    ASSUME NEW T \in SUBSET Nat, T # {}
    PROVE  Min(T) \in T
  <1>1. PICK R : IsWellFoundedOn(R, Nat) /\ \A a, b \in Nat : a < b => <<a, b>> \in R
    BY LessThan
  <1>2. T \subseteq Nat
    OBVIOUS
  <1>3. \E x \in T : \A y \in T : ~ (<<y, x>> \in R)
    <2>1. IsWellFoundedOn(R, Nat)
      BY <1>1
    <2>2. T # {}
      OBVIOUS
    <2> QED
      BY ONLY Zenon, <2>1, <2>2, <1>2, WFMin
  <1>4. PICK x \in T : \A y \in T : ~ (<<y, x>> \in R)
    BY <1>3
  <1>5. \A y \in T : ~(y < x)
    BY Zenon, <1>1, <1>2, <1>4
  <1>6. \A y \in T : x <= y
    BY <1>2, <1>5
  <1> QED
    BY Zenon, <1>6 DEF Min

\* InOrder enumerates its set, every element once.
LEMMA InOrderFacts ==
    ASSUME NEW n \in Nat, NEW S \in SUBSET (1 .. n)
    PROVE  /\ InOrder(S) \in Seq(S)
           /\ \A i, j \in DOMAIN InOrder(S) : InOrder(S)[i] = InOrder(S)[j] => i = j
  <1> DEFINE c == Cardinality(S)
             Below(j) == {k \in S : k <= j}
             rank == [j \in S |-> Cardinality(Below(j))]
             at == InOrder(S)
  <1>1. S \subseteq 1 .. n /\ n \in Nat
    OBVIOUS
  <1>2. IsFiniteSet(S)
    <2>1. IsFiniteSet(1 .. n)
      BY FS_Interval
    <2> QED
      BY Zenon, <1>1, <2>1, FS_Subset
  <1>3. c \in Nat
    BY <1>2, FS_CardinalityType
  <1>4. \A j \in S : IsFiniteSet(Below(j)) /\ Cardinality(Below(j)) \in 1 .. c
    <2> SUFFICES ASSUME NEW j \in S
                 PROVE  IsFiniteSet(Below(j)) /\ Cardinality(Below(j)) \in 1 .. c
      OBVIOUS
    <2>1. IsFiniteSet(Below(j)) /\ Cardinality(Below(j)) <= c
      BY <1>2, FS_Subset
    <2>2. j \in Below(j)
      BY <1>1
    <2>3. Cardinality(Below(j)) # 0 /\ Cardinality(Below(j)) \in Nat
      BY <2>1, <2>2, FS_EmptySet, FS_CardinalityType
    <2> QED
      BY <1>3, <2>1, <2>3
  <1>5. \A i, j \in S : i < j => Cardinality(Below(i)) # Cardinality(Below(j))
    <2> SUFFICES ASSUME NEW i \in S, NEW j \in S, i < j
                 PROVE  Cardinality(Below(i)) # Cardinality(Below(j))
      OBVIOUS
    <2>0. \A k \in S : k \in Int
      BY <1>1
    <2>1. \A k \in Below(i) : k \in Below(j)
      BY <2>0
    <2>2. j \in Below(j) /\ j \notin Below(i)
      BY <2>0
    <2> QED
      BY Zenon, <1>4, <2>1, <2>2, FS_Subset
  <1>6. rank \in Injection(S, 1 .. c)
    <2> HIDE DEF Below, c
    <2>1. rank \in [S -> 1 .. c]
      BY <1>4
    <2>2. \A i, j \in S : rank[i] = rank[j] => i = j
      BY <1>1, <1>5
    <2> HIDE DEF rank
    <2> QED
      BY <2>1, <2>2 DEF Injection, IsInjective
  <1>7. rank \in Surjection(S, 1 .. c)
    <2>1. IsFiniteSet(1 .. c) /\ Cardinality(1 .. c) = c
      BY <1>3, FS_Interval
    <2> HIDE DEF rank
    <2> QED
      BY <1>6, <2>1, FS_Injection
  <1>8. \A i \in 1 .. c : \E j \in S : Cardinality(Below(j)) = i
    BY Zenon, <1>7 DEF Surjection
  <1>9. at \in [1 .. c -> S] /\ \A i \in 1 .. c : Cardinality(Below(at[i])) = i
    BY Zenon, <1>8 DEF InOrder
  <1> HIDE DEF at, Below, c
  <1>10. at \in Seq(S) /\ DOMAIN at = 1 .. c
    BY <1>3, <1>9
  <1>11. \A i, j \in DOMAIN at : at[i] = at[j] => i = j
    BY <1>9, <1>10
  <1> QED
    BY <1>10, <1>11 DEF at

\* A function over the positions of a sequence is a sequence.
LEMMA SameShape ==
    ASSUME NEW S, NEW e \in Seq(S), NEW T, NEW f \in [DOMAIN e -> T]
    PROVE  f \in Seq(T) /\ Len(f) = Len(e) /\ DOMAIN f = DOMAIN e
  OBVIOUS

-----------------------------------------------------------------------------
(* Steps of the rows *)

\* What a row's stage says about its key.
StageOK(row, r) ==
    /\ row.stage \in {"start", "verification"} => row.identity = 0
    /\ row.stage \in {"full", "receive", "protection"} => row.identity = r
    /\ row.stage = "full" => row.admission # "Ok"

\* A row moves on with the same query, key and admission.
Kept(old, new, r) ==
    /\ old # Vacant /\ new # Vacant
    /\ new.q = old.q /\ new.identity = old.identity /\ new.admission = old.admission
    /\ old.completed => new.completed
    /\ StageOK(new, r)

\* Some rows move on, and some without a key are vacated.
Moves(e, f) ==
    /\ DOMAIN f = DOMAIN e
    /\ \A r \in DOMAIN e :
          \/ f[r] = e[r]
          \/ Kept(e[r], f[r], r)
          \/ e[r] # Vacant /\ f[r] = Vacant /\ e[r].identity = 0

\* Moving on keeps the executions.
LEMMA MovesExecutions ==
    ASSUME NEW e, 0 \notin DOMAIN e, NEW f, NEW count, NEW replies,
           Executions(e, count, replies), Moves(e, f)
    PROVE  Executions(f, count, replies)
  <1>1. \A r \in RowsIn(f) : r \in RowsIn(e) /\ f[r].q = e[r].q /\ f[r].identity = e[r].identity
                             /\ f[r].admission = e[r].admission /\ (e[r].completed => f[r].completed)
    BY DEF Moves, RowsIn, Kept
  <1>2. \A r \in RowsIn(e) : r # 0 /\ (e[r].identity # 0 => r \in RowsIn(f))
    BY DEF Moves, RowsIn, Kept
  <1>3. \A r \in RowsIn(f) : f[r] = e[r] \/ StageOK(f[r], r)
    BY DEF Moves, RowsIn, Kept
  <1>4. ASSUME NEW r \in RowsIn(f) PROVE KeyOK(f, r)
    <2>1. KeyOK(e, r)
      BY <1>1 DEF Executions
    <2>2. ASSUME f[r].identity # 0
          PROVE  LET k == f[r].identity IN k \in RowsIn(f) /\ f[k].identity = k /\ Same(f[k].q, f[r].q)
      <3>1. LET k == e[r].identity IN k \in RowsIn(e) /\ e[k].identity = k /\ Same(e[k].q, e[r].q)
        BY <1>1, <2>1, <2>2 DEF KeyOK
      <3>2. e[r].identity \in RowsIn(f)
        BY <1>1, <1>2, <2>2, <3>1
      <3> QED
        BY <1>1, <3>1, <3>2
    <2> QED
      BY <1>1, <1>3, <2>1, <2>2 DEF KeyOK, StageOK
  <1>5. \A k : Canonical(f, k) /\ k \in RowsIn(f) => Canonical(e, k) /\ k \in RowsIn(e)
    BY <1>1 DEF Canonical, RowsIn
  <1>6. Unique(f)
    BY <1>1, <1>5 DEF Unique, Executions
  <1>7. CountOK(f, count)
    <2> SUFFICES ASSUME NEW i \in Idents
                 PROVE  LET rows == {k \in RowsIn(f) : Canonical(f, k) /\ Ident[f[k].q] = i}
                        IN  /\ rows = {} => count[i] = 0
                            /\ \A k \in rows : count[i] = IF f[k].admission = "Ok" THEN 1 ELSE 0
      BY DEF CountOK
    <2> DEFINE old == {k \in RowsIn(e) : Canonical(e, k) /\ Ident[e[k].q] = i}
               new == {k \in RowsIn(f) : Canonical(f, k) /\ Ident[f[k].q] = i}
    <2>1. (old = {} => count[i] = 0) /\ \A k \in old : count[i] = IF e[k].admission = "Ok" THEN 1 ELSE 0
      BY DEF Executions, CountOK
    <2>2. \A k \in new : k \in old /\ f[k].admission = e[k].admission
      BY <1>1, <1>5
    <2>3. \A k \in old : e[k].identity # 0 => k \in new
      BY <1>1, <1>2 DEF Canonical, RowsIn
    <2>4. \A k \in old : e[k].identity = k
      BY DEF Canonical
    <2>5. new = {} => count[i] = 0
      <3>1. \A k \in old : k \in new
        BY <1>2, <2>3, <2>4
      <3> QED
        BY <2>1, <3>1
    <2> QED
      BY <2>1, <2>2, <2>5
  <1>8. ASSUME NEW i \in DOMAIN replies PROVE ReplyOK(f, replies[i])
    BY <1>1, <1>2 DEF Executions, ReplyOK
  <1> QED
    BY <1>4, <1>6, <1>7, <1>8 DEF Executions

\* A row without a key becomes the duplicate of a canonical row (Replay).
LEMMA DuplicateExecutions ==
    ASSUME NEW e, 0 \notin DOMAIN e, NEW r \in RowsIn(e), NEW row, NEW count, NEW replies,
           Executions(e, count, replies),
           row # Vacant, row.q = e[r].q, StageOK(row, r), e[r].identity = 0,
           row.identity \in RowsIn(e), e[row.identity].identity = row.identity,
           Same(e[row.identity].q, e[r].q)
    PROVE  Executions([e EXCEPT ![r] = row], count, replies)
  <1> DEFINE f == [e EXCEPT ![r] = row]
  <1>1. RowsIn(f) = RowsIn(e) /\ f[r] = row /\ \A s \in RowsIn(e) : s # r => f[s] = e[s]
    BY DEF RowsIn
  <1>2. r # 0 /\ row.identity # 0 /\ row.identity # r
    BY DEF RowsIn
  <1> HIDE DEF f
  <1>3. \A k \in RowsIn(e) : Canonical(f, k) <=> Canonical(e, k) /\ k # r
    BY <1>1, <1>2 DEF Canonical
  <1>4. \A k \in RowsIn(e) : Canonical(e, k) => k # r
    BY <1>2 DEF Canonical
  <1>5. ASSUME NEW s \in RowsIn(f) PROVE KeyOK(f, s)
    <2>1. KeyOK(e, s)
      BY <1>1 DEF Executions
    <2>2. CASE s = r
      BY <1>1, <1>2, <2>2 DEF KeyOK, StageOK
    <2>3. CASE s # r
      <3>1. f[s] = e[s]
        BY <1>1, <2>3
      <3>2. e[s].identity # 0 => e[s].identity # r
        BY <1>2, <2>1 DEF KeyOK
      <3> QED
        BY <1>1, <2>1, <3>1, <3>2 DEF KeyOK
    <2> QED
      BY <2>2, <2>3
  <1>6. Unique(f)
    BY <1>1, <1>3 DEF Unique, Executions
  <1>7. CountOK(f, count)
    <2> SUFFICES ASSUME NEW i \in Idents
                 PROVE  LET rows == {k \in RowsIn(f) : Canonical(f, k) /\ Ident[f[k].q] = i}
                        IN  /\ rows = {} => count[i] = 0
                            /\ \A k \in rows : count[i] = IF f[k].admission = "Ok" THEN 1 ELSE 0
      BY DEF CountOK
    <2> DEFINE old == {k \in RowsIn(e) : Canonical(e, k) /\ Ident[e[k].q] = i}
               new == {k \in RowsIn(f) : Canonical(f, k) /\ Ident[f[k].q] = i}
    <2>1. (old = {} => count[i] = 0) /\ \A k \in old : count[i] = IF e[k].admission = "Ok" THEN 1 ELSE 0
      BY DEF Executions, CountOK
    <2>2. \A k \in new : k \in old /\ f[k] = e[k]
      BY <1>1, <1>3
    <2>3. \A k \in old : k \in new
      BY <1>1, <1>3, <1>4
    <2> QED
      BY <2>1, <2>2, <2>3
  <1>8. ASSUME NEW i \in DOMAIN replies PROVE ReplyOK(f, replies[i])
    <2>1. ReplyOK(e, replies[i])
      BY DEF Executions
    <2>2. replies[i].from # r
      BY <1>2, <2>1 DEF ReplyOK
    <2> QED
      BY <1>1, <2>1, <2>2 DEF ReplyOK
  <1> QED
    BY Zenon, <1>5, <1>6, <1>7, <1>8 DEF Executions, f

\* No canonical row of the query's request.
Unclaimed(e, q) == \A k \in RowsIn(e) : Canonical(e, k) => Ident[e[k].q] # Ident[q]

\* One more admission of a request, if the attempt succeeded.
Counted(count, row) ==
    IF row.admission = "Ok" THEN [count EXCEPT ![Ident[row.q]] = @ + 1] ELSE count

\* A row attempts its command: the first of its request, or a retry after Full.
LEMMA AttemptExecutions ==
    ASSUME NEW e, 0 \notin DOMAIN e, NEW r \in RowsIn(e), NEW row, NEW count \in [Idents -> Nat], NEW replies,
           Executions(e, count, replies),
           row # Vacant, row.q = e[r].q, row.q \in Queries, StageOK(row, r), row.identity = r,
           e[r].completed => row.completed,
           \/ e[r].identity = 0 /\ Unclaimed(e, row.q)
           \/ e[r].identity = r /\ e[r].admission # "Ok"
    PROVE  /\ Executions([e EXCEPT ![r] = row], Counted(count, row), replies)
           /\ Counted(count, row) \in [Idents -> Nat]
  <1> DEFINE f == [e EXCEPT ![r] = row]
             new == Counted(count, row)
             i0 == Ident[row.q]
  <1>1. RowsIn(f) = RowsIn(e) /\ f[r] = row /\ \A s \in RowsIn(e) : s # r => f[s] = e[s]
    BY DEF RowsIn
  <1>2. r # 0 /\ i0 \in Idents
    BY DEF RowsIn, Idents
  <1> HIDE DEF f
  <1>3. \A k \in RowsIn(e) : Canonical(f, k) <=> Canonical(e, k) \/ k = r
    BY <1>1 DEF Canonical
  <1>4. \A k \in RowsIn(e) : Canonical(e, k) /\ Ident[e[k].q] = i0 => k = r
    <2>1. CASE e[r].identity = 0 /\ Unclaimed(e, row.q)
      BY <2>1 DEF Unclaimed
    <2>2. CASE e[r].identity = r
      <3>1. Canonical(e, r) /\ Ident[e[r].q] = i0
        BY <2>2 DEF Canonical, RowsIn
      <3> QED
        BY <3>1 DEF Unique, Executions
    <2> QED
      BY <2>1, <2>2
  <1>5. ASSUME NEW s \in RowsIn(f) PROVE KeyOK(f, s)
    <2>1. KeyOK(e, s)
      BY <1>1 DEF Executions
    <2>2. CASE s = r
      BY <1>1, <1>2, <2>2 DEF KeyOK, StageOK, Same
    <2>3. CASE s # r
      <3>1. f[s] = e[s]
        BY <1>1, <2>3
      <3> QED
        BY <1>1, <2>1, <3>1 DEF KeyOK
    <2> QED
      BY <2>2, <2>3
  <1>6. Unique(f)
    <2>1. \A k \in RowsIn(e) : Canonical(f, k) /\ Ident[f[k].q] = i0 => k = r
      BY <1>1, <1>3, <1>4
    <2>2. \A k \in RowsIn(e) : k # r /\ Canonical(f, k) => Canonical(e, k) /\ f[k] = e[k]
      BY <1>1, <1>3
    <2>3. Unique(e)
      BY DEF Executions
    <2>4. Ident[f[r].q] = i0
      BY <1>1
    <2> QED
      BY <1>1, <2>1, <2>2, <2>3, <2>4 DEF Unique
  <1>7. count[i0] = 0
    <2> DEFINE rows == {k \in RowsIn(e) : Canonical(e, k) /\ Ident[e[k].q] = i0}
    <2>1. (rows = {} => count[i0] = 0) /\ \A k \in rows : count[i0] = IF e[k].admission = "Ok" THEN 1 ELSE 0
      BY <1>2 DEF Executions, CountOK
    <2>2. CASE e[r].identity = 0 /\ Unclaimed(e, row.q)
      BY <2>1, <2>2 DEF Unclaimed
    <2>3. CASE e[r].identity = r /\ e[r].admission # "Ok"
      <3>1. r \in rows
        BY <2>3 DEF Canonical, RowsIn
      <3> QED
        BY <2>1, <2>3, <3>1
    <2> QED
      BY <2>2, <2>3
  <1>8. /\ new \in [Idents -> Nat]
        /\ new[i0] = IF row.admission = "Ok" THEN 1 ELSE 0
        /\ \A i \in Idents : i # i0 => new[i] = count[i]
    BY <1>2, <1>7 DEF Counted
  <1> HIDE DEF new
  <1>9. CountOK(f, new)
    <2> SUFFICES ASSUME NEW i \in Idents
                 PROVE  LET rows == {k \in RowsIn(f) : Canonical(f, k) /\ Ident[f[k].q] = i}
                        IN  /\ rows = {} => new[i] = 0
                            /\ \A k \in rows : new[i] = IF f[k].admission = "Ok" THEN 1 ELSE 0
      BY DEF CountOK
    <2> DEFINE before == {k \in RowsIn(e) : Canonical(e, k) /\ Ident[e[k].q] = i}
               after == {k \in RowsIn(f) : Canonical(f, k) /\ Ident[f[k].q] = i}
    <2>1. /\ before = {} => count[i] = 0
          /\ \A k \in before : count[i] = IF e[k].admission = "Ok" THEN 1 ELSE 0
      BY DEF Executions, CountOK
    <2>2. CASE i = i0
      <3>1. \A k \in after : k = r
        BY <1>1, <1>3, <1>4, <2>2
      <3>2. r \in after
        BY <1>1, <1>3, <2>2
      <3> QED
        BY <1>1, <1>8, <2>2, <3>1, <3>2
    <2>3. CASE i # i0
      <3>1. \A k \in after : k # r
        BY <1>1, <2>3
      <3>2. \A k \in before : k # r
        BY <2>3
      <3>3. \A k \in after : k \in before /\ f[k] = e[k]
        BY <1>1, <1>3, <3>1
      <3>4. \A k \in before : k \in after
        BY <1>1, <1>3, <3>2
      <3> QED
        BY <1>8, <2>1, <2>3, <3>3, <3>4
    <2> QED
      BY <2>2, <2>3
  <1>10. ASSUME NEW i \in DOMAIN replies PROVE ReplyOK(f, replies[i])
    <2>1. ReplyOK(e, replies[i])
      BY DEF Executions
    <2> QED
      BY <1>1, <2>1 DEF ReplyOK
  <1> QED
    BY Zenon, <1>5, <1>6, <1>8, <1>9, <1>10 DEF Executions, f, new

-----------------------------------------------------------------------------
(* The queries of the rows *)

\* Rows give up queries, or their place, and gain neither.
Yields(e, f) ==
    /\ DOMAIN f = DOMAIN e
    /\ \A r \in DOMAIN e :
          \/ f[r] = Vacant
          \/ e[r] # Vacant /\ f[r].q = e[r].q /\ (f[r].query => e[r].query)

\* The charged queries are among the delivered ones, hence finitely many.
LEMMA ChargedSeen ==
    ASSUME NEW e, NEW queue, NEW replies, NEW seen, Queried(e, queue, replies, seen)
    PROVE  Charged(queue, e) \subseteq seen
  BY DEF Queried, Charged, RowsIn

\* Fewer charged queries are within the same bound.
LEMMA ChargedLess ==
    ASSUME NEW A, NEW B, IsFiniteSet(B), \A q \in A : q \in B, Cardinality(B) <= RetainedQueries
    PROVE  Cardinality(A) <= RetainedQueries
  <1>1. Cardinality(A) <= Cardinality(B) /\ IsFiniteSet(A)
    BY FS_Subset
  <1>2. Cardinality(A) \in Nat /\ Cardinality(B) \in Nat /\ RetainedQueries \in Nat
    BY <1>1, FS_CardinalityType, ExportLimitsPositive
  <1> QED
    BY <1>1, <1>2

\* Giving up queries keeps the custody of the others.
LEMMA YieldsQueried ==
    ASSUME NEW e, NEW f, NEW queue, NEW replies, NEW seen, IsFiniteSet(seen),
           Queried(e, queue, replies, seen), Yields(e, f)
    PROVE  Queried(f, queue, replies, seen)
  <1>1. \A r \in RowsIn(f) : r \in RowsIn(e) /\ f[r].q = e[r].q /\ (f[r].query => e[r].query)
    BY DEF Yields, RowsIn
  <1>2. \A q \in Charged(queue, f) : q \in Charged(queue, e)
    BY <1>1 DEF Charged, RowsIn
  <1>3. IsFiniteSet(Charged(queue, e))
    BY ChargedSeen, FS_Subset
  <1>4. Cardinality(Charged(queue, f)) <= RetainedQueries
    <2>1. Cardinality(Charged(queue, e)) <= RetainedQueries
      BY DEF Queried
    <2> QED
      BY ONLY <1>2, <1>3, <2>1, ChargedLess
  <1> QED
    BY <1>1, <1>4 DEF Queried

-----------------------------------------------------------------------------
(* Publication *)

\* What a row may become when it is published or discharged.
PublishedRow(e, r, new) ==
    \/ new = e[r]
    \/ /\ e[r] # Vacant /\ new \in Custody
       /\ \E refusal \in {"None"} \cup Refusals : new = [e[r] EXCEPT !.query = FALSE, !.refusal = refusal]
    \/ e[r] # Vacant /\ new = Vacant /\ e[r].identity = 0 /\ e[r].completed

\* The rows a publication answers with the custody of their canonical rows.
Answers(e, replies) ==
    /\ replies \in Seq(DOMAIN e)
    /\ \A i, j \in DOMAIN replies : replies[i] = replies[j] => i = j
    /\ \A i \in DOMAIN replies : Publishable(e, replies[i]) /\ e[replies[i]].identity # 0

Replied(e, replies) ==
    [i \in DOMAIN replies |->
        [q |-> e[replies[i]].q, from |-> e[replies[i]].identity, origin |-> e[e[replies[i]].identity].q]]

\* publish answers some of the rows it reaches, and every row it answers yields its query.
LEMMA PublishFacts ==
    ASSUME NEW e \in Seq(Custody \cup {Vacant}), Publish(e)
    PROVE  \E replies :
              /\ Answers(e, replies)
              /\ sent' = sent \o Replied(e, replies)
              /\ DOMAIN entries' = DOMAIN e /\ entries' \in [DOMAIN e -> Custody \cup {Vacant}]
              /\ \A r \in DOMAIN e : PublishedRow(e, r, entries'[r])
              /\ \A i \in DOMAIN replies :
                    entries'[replies[i]] # Vacant => ~entries'[replies[i]].query
  <1> DEFINE ready == {r \in DOMAIN e : Publishable(e, r)}
             answered == {r \in ready : Answerable(e, r)}
             list(denied) == InOrder(answered \ denied)
             after(denied) ==
               [r \in DOMAIN e |->
                    IF r \notin ready THEN e[r]
                    ELSE [e[r] EXCEPT !.query = FALSE,
                                      !.refusal = IF r \in denied THEN "ReplyPermission" ELSE @]]
  <1>1. PICK denied : /\ sent' = sent \o Replied(e, list(denied))
                      /\ entries' = IF phase = "serving" THEN Discharge(after(denied)) ELSE after(denied)
    BY Zenon DEF Publish, Replied
  <1> DEFINE replies == list(denied)
             published == after(denied)
  <1>2. ready \subseteq 1 .. Len(e) /\ Len(e) \in Nat /\ DOMAIN e = 1 .. Len(e)
    OBVIOUS
  <1>3. /\ replies \in Seq(answered \ denied)
        /\ \A i, j \in DOMAIN replies : replies[i] = replies[j] => i = j
    <2>1. answered \ denied \in SUBSET (1 .. Len(e))
      BY <1>2
    <2> HIDE DEF answered
    <2> QED
      BY Zenon, <1>2, <2>1, InOrderFacts
  <1>4. Answers(e, replies)
    <2> HIDE DEF list
    <2>1. \A i \in DOMAIN replies : replies[i] \in answered
      BY <1>3
    <2>2. replies \in Seq(DOMAIN e)
      BY <1>2, <1>3
    <2> QED
      BY <1>3, <2>1, <2>2 DEF Answers, Answerable
  <1>5. ASSUME NEW r \in DOMAIN e
        PROVE  /\ published[r] \in Custody \cup {Vacant}
               /\ PublishedRow(e, r, published[r])
               /\ r \in ready => published[r] \in Custody /\ ~published[r].query
               /\ published[r] # Vacant => e[r] # Vacant /\ published[r].identity = e[r].identity
                                           /\ published[r].completed = e[r].completed
    <2>1. CASE r \notin ready
      BY <2>1 DEF PublishedRow
    <2>2. CASE r \in ready
      <3>1. e[r] \in Custody /\ e[r] # Vacant
        BY <2>2 DEF Publishable
      <3>2. PICK refusal \in {"None"} \cup Refusals :
               published[r] = [e[r] EXCEPT !.query = FALSE, !.refusal = refusal]
        BY Zenon, <2>2, <3>1 DEF Custody, Refusals
      <3> HIDE DEF published
      <3>3. published[r] \in Custody /\ ~published[r].query
        BY ZenonT(60), <3>1, <3>2 DEF Custody
      <3>4. published[r].identity = e[r].identity /\ published[r].completed = e[r].completed
        BY <3>1, <3>2 DEF Custody
      <3> QED
        BY Zenon, <3>1, <3>2, <3>3, <3>4 DEF PublishedRow
    <2> QED
      BY <2>1, <2>2
  <1>6. ASSUME NEW r \in DOMAIN e
        PROVE  entries'[r] = published[r] \/ /\ entries'[r] = Vacant /\ e[r] # Vacant
                                             /\ e[r].identity = 0 /\ e[r].completed
    <2> HIDE DEF published
    <2>1. DOMAIN published = DOMAIN e
      BY DEF published
    <2> QED
      BY Zenon, <1>1, <1>5, <2>1 DEF Discharge, published
  <1>7. DOMAIN entries' = DOMAIN e /\ entries' = [r \in DOMAIN e |-> entries'[r]]
    BY Zenon, <1>1 DEF Discharge
  <1> HIDE DEF published, replies
  <1>8. /\ entries' \in [DOMAIN e -> Custody \cup {Vacant}]
        /\ \A r \in DOMAIN e : PublishedRow(e, r, entries'[r])
    <2>1. ASSUME NEW r \in DOMAIN e PROVE entries'[r] \in Custody \cup {Vacant} /\ PublishedRow(e, r, entries'[r])
      BY ZenonT(60), <1>5, <1>6 DEF PublishedRow
    <2> QED
      BY <1>7, <2>1
  <1>9. ASSUME NEW i \in DOMAIN replies PROVE entries'[replies[i]] # Vacant => ~entries'[replies[i]].query
    <2>1. replies[i] \in DOMAIN e /\ replies[i] \in ready
      BY <1>4 DEF Answers
    <2> QED
      BY <1>5, <1>6, <2>1
  <1> QED
    BY Zenon, <1>1, <1>4, <1>7, <1>8, <1>9 DEF replies

\* The part of the invariant that a step of the rows concerns.
RowsInv(e, queue, count, replies, seen) ==
    /\ e \in Seq(Custody \cup {Vacant}) /\ Len(e) <= RetainedRequests
    /\ replies \in Seq([q : Queries, from : Rows, origin : Queries])
    /\ count \in [Idents -> Nat]
    /\ IsFiniteSet(seen)
    /\ Executions(e, count, replies)
    /\ Queried(e, queue, replies, seen)

\* publish keeps the executions and the queries.
LEMMA Publication ==
    ASSUME NEW e, NEW queue, NEW count, NEW seen, RowsInv(e, queue, count, sent, seen), Publish(e)
    PROVE  RowsInv(entries', queue, count, sent', seen)
  <1>1. /\ e \in Seq(Custody \cup {Vacant}) /\ Len(e) <= RetainedRequests
        /\ sent \in Seq([q : Queries, from : Rows, origin : Queries])
        /\ count \in [Idents -> Nat] /\ IsFiniteSet(seen)
        /\ Executions(e, count, sent) /\ Queried(e, queue, sent, seen)
    BY DEF RowsInv
  <1>2. PICK replies :
              /\ Answers(e, replies)
              /\ sent' = sent \o Replied(e, replies)
              /\ DOMAIN entries' = DOMAIN e /\ entries' \in [DOMAIN e -> Custody \cup {Vacant}]
              /\ \A r \in DOMAIN e : PublishedRow(e, r, entries'[r])
              /\ \A i \in DOMAIN replies :
                    entries'[replies[i]] # Vacant => ~entries'[replies[i]].query
    BY Zenon, <1>1, PublishFacts
  <1> DEFINE new == Replied(e, replies)
             f == entries'
  <1>3. entries' \in Seq(Custody \cup {Vacant}) /\ Len(entries') = Len(e)
    BY <1>1, <1>2, SameShape
  <1>4. ASSUME NEW r \in RowsIn(e) PROVE e[r] \in Custody /\ e[r].q \in Queries /\ r \in Rows
    <2>1. e[r] \in Custody /\ r \in 1 .. Len(e)
      BY <1>1 DEF RowsIn
    <2>2. RetainedRequests \in Nat
      BY ExportLimitsPositive
    <2> QED
      BY <1>1, <2>1, <2>2 DEF Custody, Rows
  <1>5. ASSUME NEW i \in DOMAIN replies
        PROVE  LET r == replies[i]
                   k == e[replies[i]].identity
               IN  /\ r \in RowsIn(e) /\ e[r].query /\ k \in RowsIn(e) /\ e[k].identity = k
                   /\ Same(e[k].q, e[r].q) /\ e[k].completed
    <2>1. replies[i] \in DOMAIN e /\ Publishable(e, replies[i]) /\ e[replies[i]].identity # 0
      BY <1>2 DEF Answers
    <2>2. replies[i] \in RowsIn(e) /\ e[replies[i]].query /\ e[e[replies[i]].identity].completed
      BY <2>1 DEF Publishable, RowsIn
    <2>3. KeyOK(e, replies[i])
      BY <1>1, <2>2 DEF Executions
    <2> QED
      BY <2>1, <2>2, <2>3 DEF KeyOK
  <1>6. /\ DOMAIN new = DOMAIN replies
        /\ \A i \in DOMAIN replies :
              /\ new[i].q = e[replies[i]].q
              /\ new[i].from = e[replies[i]].identity
              /\ new[i].origin = e[e[replies[i]].identity].q
              /\ new[i] = [q |-> new[i].q, from |-> new[i].from, origin |-> new[i].origin]
    BY DEF Replied
  <1>7. new \in Seq([q : Queries, from : Rows, origin : Queries])
    <2>1. DOMAIN replies = 1 .. Len(replies) /\ Len(replies) \in Nat
      BY <1>2 DEF Answers
    <2>2. \A i \in DOMAIN replies : new[i] \in [q : Queries, from : Rows, origin : Queries]
      BY <1>4, <1>5, <1>6
    <2>3. new = [i \in DOMAIN replies |-> new[i]]
      BY DEF Replied
    <2> HIDE DEF new
    <2> QED
      BY <1>6, <2>1, <2>2, <2>3
  <1> HIDE DEF new
  <1>8. sent' \in Seq([q : Queries, from : Rows, origin : Queries])
    BY <1>1, <1>2, <1>7 DEF new
  <1>9. \A i \in DOMAIN sent' : \/ i \in DOMAIN sent /\ sent'[i] = sent[i]
                                \/ \E j \in DOMAIN new : i = Len(sent) + j /\ sent'[i] = new[j]
    BY <1>1, <1>2, <1>7 DEF new
  <1>10. Executions(e, count, sent')
    <2>1. ASSUME NEW i \in DOMAIN sent' PROVE ReplyOK(e, sent'[i])
      <3>1. CASE i \in DOMAIN sent /\ sent'[i] = sent[i]
        BY <1>1, <3>1 DEF Executions
      <3>2. CASE \E j \in DOMAIN new : i = Len(sent) + j /\ sent'[i] = new[j]
        BY <1>5, <1>6, <3>2 DEF ReplyOK
      <3> QED
        BY <1>9, <3>1, <3>2
    <2> QED
      BY <1>1, <2>1 DEF Executions
  <1>11. Moves(e, f)
    <2>1. ASSUME NEW r \in DOMAIN e
          PROVE  \/ f[r] = e[r]
                 \/ Kept(e[r], f[r], r)
                 \/ e[r] # Vacant /\ f[r] = Vacant /\ e[r].identity = 0
      <3>1. PublishedRow(e, r, f[r])
        BY <1>2
      <3>2. CASE e[r] # Vacant /\ f[r] \in Custody /\ \E refusal \in {"None"} \cup Refusals :
                    f[r] = [e[r] EXCEPT !.query = FALSE, !.refusal = refusal]
        <4>1. r \in RowsIn(e) /\ e[r] \in Custody
          BY <1>4, <3>2 DEF RowsIn
        <4>2. /\ f[r].q = e[r].q /\ f[r].identity = e[r].identity /\ f[r].admission = e[r].admission
              /\ f[r].completed = e[r].completed /\ f[r].stage = e[r].stage
          BY <3>2, <4>1 DEF Custody
        <4>3. KeyOK(e, r)
          BY <1>1, <4>1 DEF Executions
        <4> QED
          BY <3>2, <4>2, <4>3, VacantAssumption DEF Kept, StageOK, KeyOK
      <3> QED
        BY Zenon, <3>1, <3>2 DEF PublishedRow
    <2> QED
      BY <1>2, <2>1 DEF Moves
  <1>12. Executions(f, count, sent')
    <2>1. 0 \notin DOMAIN e
      BY <1>1
    <2> QED
      BY <1>10, <1>11, <2>1, MovesExecutions
  <1>13. Yields(e, f)
    <2>1. ASSUME NEW r \in DOMAIN e
          PROVE  f[r] = Vacant \/ (e[r] # Vacant /\ f[r].q = e[r].q /\ (f[r].query => e[r].query))
      <3>1. PublishedRow(e, r, f[r])
        BY <1>2
      <3>2. CASE e[r] # Vacant /\ \E refusal \in {"None"} \cup Refusals :
                    f[r] = [e[r] EXCEPT !.query = FALSE, !.refusal = refusal]
        <4>1. r \in RowsIn(e) /\ e[r] \in Custody
          BY <1>4, <3>2 DEF RowsIn
        <4> QED
          BY <3>2, <4>1 DEF Custody
      <3> QED
        BY Zenon, <3>1, <3>2 DEF PublishedRow
    <2> QED
      BY <1>2, <2>1 DEF Yields
  <1>14. Queried(f, queue, sent, seen)
    BY <1>1, <1>13, YieldsQueried
  <1>15. ASSUME NEW j \in DOMAIN new
         PROVE  /\ new[j].q \in seen /\ new[j].q \notin Range(queue)
                /\ \A i \in DOMAIN sent : sent[i].q # new[j].q
                /\ \A r \in RowsIn(f) : f[r].query => f[r].q # new[j].q
    <2>1. replies[j] \in RowsIn(e) /\ e[replies[j]].query /\ new[j].q = e[replies[j]].q
      BY <1>5, <1>6
    <2>2. ASSUME NEW r \in RowsIn(f), f[r].query, f[r].q = new[j].q PROVE FALSE
      <3>1. r \in RowsIn(e) /\ e[r].query /\ e[r].q = f[r].q
        BY <1>13, <2>2 DEF Yields, RowsIn
      <3>2. r = replies[j]
        BY <1>1, <2>1, <2>2, <3>1 DEF Queried
      <3> QED
        BY <1>2, <1>6, <2>2, <3>2 DEF RowsIn
    <2> QED
      BY <1>1, <2>1, <2>2 DEF Queried
  <1>16. \A i, j \in DOMAIN new : new[i].q = new[j].q => i = j
    <2>1. ASSUME NEW i \in DOMAIN new, NEW j \in DOMAIN new, new[i].q = new[j].q PROVE i = j
      <3>1. replies[i] = replies[j]
        BY <1>1, <1>5, <1>6, <2>1 DEF Queried
      <3> QED
        BY ZenonT(60), <1>2, <1>6, <3>1 DEF Answers
    <2> QED
      BY <2>1
  <1>17. \A i, j \in DOMAIN sent' : sent'[i].q = sent'[j].q => i = j
    BY <1>1, <1>9, <1>15, <1>16 DEF Queried
  <1>18. Queried(f, queue, sent', seen)
    <2>1. \A r \in RowsIn(f) : f[r].query => \A i \in DOMAIN sent' : sent'[i].q # f[r].q
      BY <1>9, <1>14, <1>15 DEF Queried
    <2>2. \A i \in DOMAIN sent' : sent'[i].q \in seen /\ sent'[i].q \notin Range(queue)
      BY <1>9, <1>14, <1>15 DEF Queried
    <2> QED
      BY <1>14, <1>17, <2>1, <2>2 DEF Queried
  <1> QED
    BY <1>1, <1>3, <1>8, <1>12, <1>18 DEF RowsInv, f

-----------------------------------------------------------------------------
(* The steps of a request future *)

\* What a row may become between two awaits: it keeps its key and its admission,
\* becomes the duplicate of a canonical row, or attempts its command.
Continues(e, r, row, count, new) ==
    /\ row \in Custody
    /\ row.q = e[r].q /\ row.query = e[r].query /\ row.completed = e[r].completed
    /\ \/ row.identity = e[r].identity /\ row.admission = e[r].admission /\ new = count
       \/ /\ e[r].identity = 0 /\ new = count
          /\ row.identity \in RowsIn(e) /\ e[row.identity].identity = row.identity
          /\ Same(e[row.identity].q, e[r].q)
       \/ /\ row.identity = r /\ new = Counted(count, row)
          /\ \/ e[r].identity = 0 /\ Unclaimed(e, row.q)
             \/ e[r].identity = r /\ e[r].admission # "Ok"

\* Facts the steps use about an occupied row.
LEMMA RowFacts ==
    ASSUME NEW e, NEW queue, NEW count, NEW replies, NEW seen, RowsInv(e, queue, count, replies, seen),
           NEW r \in RowsIn(e)
    PROVE  e[r] \in Custody /\ e[r] # Vacant /\ r \in Rows /\ r \in DOMAIN e /\ KeyOK(e, r) /\ 0 \notin DOMAIN e
  <1>1. /\ e \in Seq(Custody \cup {Vacant}) /\ Len(e) <= RetainedRequests
        /\ \A s \in RowsIn(e) : KeyOK(e, s)
    BY DEF RowsInv, Executions
  <1>2. r \in DOMAIN e /\ e[r] # Vacant
    BY DEF RowsIn
  <1>3. e[r] \in Custody /\ r \in 1 .. Len(e)
    BY <1>1, <1>2
  <1>4. RetainedRequests \in Nat
    BY ExportLimitsPositive
  <1> QED
    BY <1>1, <1>2, <1>3, <1>4 DEF Rows

\* A row that continues, in a stage that fits its key, keeps the invariant of the rows.
LEMMA RowContinues ==
    ASSUME NEW e, NEW queue, NEW count, NEW replies, NEW seen, RowsInv(e, queue, count, replies, seen),
           NEW r \in RowsIn(e), NEW row, NEW new, Continues(e, r, row, count, new),
           NEW last \in Custody, last.q = row.q, last.identity = row.identity,
           last.admission = row.admission, last.query = row.query,
           row.completed => last.completed, StageOK(last, r)
    PROVE  RowsInv([e EXCEPT ![r] = last], queue, new, replies, seen)
  <1> DEFINE f == [e EXCEPT ![r] = last]
  <1>1. /\ e[r] \in Custody /\ e[r] # Vacant /\ r \in DOMAIN e /\ 0 \notin DOMAIN e
        /\ last # Vacant
    BY RowFacts, VacantAssumption
  <1>2. /\ e \in Seq(Custody \cup {Vacant}) /\ Len(e) <= RetainedRequests
        /\ count \in [Idents -> Nat] /\ Executions(e, count, replies)
        /\ IsFiniteSet(seen) /\ Queried(e, queue, replies, seen)
    BY DEF RowsInv
  <1>3. f \in Seq(Custody \cup {Vacant}) /\ Len(f) = Len(e)
    <2>1. PICK S : S = Custody \cup {Vacant}
      BY Zenon
    <2>2. e \in Seq(S) /\ last \in S /\ r \in DOMAIN e
      BY <1>1, <1>2, <2>1
    <2>3. f \in Seq(S) /\ Len(f) = Len(e)
      BY ONLY <2>2
    <2> QED
      BY <2>1, <2>3
  <1>4. /\ row \in Custody
        /\ row.q = e[r].q /\ row.query = e[r].query /\ row.completed = e[r].completed
    BY DEF Continues
  <1>5. Executions(f, new, replies) /\ new \in [Idents -> Nat]
    <2>1. CASE row.identity = e[r].identity /\ row.admission = e[r].admission /\ new = count
      <3>1. Kept(e[r], last, r)
        BY <1>1, <1>4, <2>1 DEF Kept
      <3>2. Moves(e, f)
        BY <1>1, <3>1 DEF Moves
      <3> QED
        BY <1>1, <1>2, <2>1, <3>2, MovesExecutions
    <2>2. CASE /\ e[r].identity = 0 /\ new = count
               /\ row.identity \in RowsIn(e) /\ e[row.identity].identity = row.identity
               /\ Same(e[row.identity].q, e[r].q)
      BY <1>1, <1>2, <1>4, <2>2, DuplicateExecutions
    <2>3. CASE /\ row.identity = r /\ new = Counted(count, row)
               /\ \/ e[r].identity = 0 /\ Unclaimed(e, row.q)
                  \/ e[r].identity = r /\ e[r].admission # "Ok"
      <3>1. Counted(count, last) = Counted(count, row)
        BY DEF Counted
      <3>2. last.q \in Queries
        BY DEF Custody
      <3> QED
        BY <1>1, <1>2, <1>4, <2>3, <3>1, <3>2, AttemptExecutions
    <2> QED
      BY <2>1, <2>2, <2>3 DEF Continues
  <1>6. Yields(e, f)
    BY <1>1, <1>4 DEF Yields
  <1>7. Queried(f, queue, replies, seen)
    BY <1>2, <1>6, YieldsQueried
  <1> QED
    BY <1>2, <1>3, <1>5, <1>7 DEF RowsInv

\* A request future returns.
LEMMA Returns ==
    ASSUME NEW queue, NEW count, NEW seen, RowsInv(entries, queue, count, sent, seen),
           NEW r \in RowsIn(entries), NEW row, NEW new, Continues(entries, r, row, count, new),
           Return(r, row)
    PROVE  RowsInv(entries', queue, new, sent', seen)
  <1> DEFINE last == [row EXCEPT !.stage = "done", !.completed = TRUE]
  <1>1. row \in Custody
    BY DEF Continues
  <1>2. /\ last \in Custody /\ last.q = row.q /\ last.identity = row.identity /\ last.completed
        /\ last.admission = row.admission /\ last.query = row.query /\ last.stage = "done"
    BY Zenon, <1>1 DEF Custody, Stages
  <1>3. Publish([entries EXCEPT ![r] = last])
    BY DEF Return
  <1> HIDE DEF last
  <1>4. RowsInv([entries EXCEPT ![r] = last], queue, new, sent, seen)
    BY <1>2, RowContinues DEF StageOK
  <1> QED
    BY <1>3, <1>4, Publication

\* A request future reaches its next await.
LEMMA Awaits ==
    ASSUME NEW queue, NEW count, NEW seen, RowsInv(entries, queue, count, sent, seen),
           NEW r \in RowsIn(entries), NEW row, NEW new, Continues(entries, r, row, count, new),
           NEW stage \in Stages, Await(r, row, stage),
           stage \in {"start", "verification"} => row.identity = 0,
           stage \in {"full", "receive", "protection"} => row.identity = r,
           stage = "full" => row.admission # "Ok"
    PROVE  RowsInv(entries', queue, new, sent', seen)
  <1> DEFINE last == [row EXCEPT !.stage = stage]
  <1>1. row \in Custody
    BY DEF Continues
  <1>2. /\ last \in Custody /\ last.q = row.q /\ last.identity = row.identity
        /\ last.completed = row.completed
        /\ last.admission = row.admission /\ last.query = row.query /\ last.stage = stage
    BY <1>1 DEF Custody
  <1>3. entries' = [entries EXCEPT ![r] = last] /\ sent' = sent
    BY DEF Await
  <1> HIDE DEF last
  <1>4. RowsInv([entries EXCEPT ![r] = last], queue, new, sent, seen)
    BY <1>2, RowContinues DEF StageOK
  <1> QED
    BY <1>3, <1>4

\* The other fields of a row do not matter.
LEMMA ContinuesAlike ==
    ASSUME NEW e, NEW r, NEW row, NEW count, NEW new, Continues(e, r, row, count, new),
           NEW alt \in Custody, alt.q = row.q, alt.query = row.query, alt.completed = row.completed,
           alt.identity = row.identity, alt.admission = row.admission
    PROVE  Continues(e, r, alt, count, new)
  <1>1. Counted(count, alt) = Counted(count, row)
    BY DEF Counted
  <1> QED
    BY <1>1 DEF Continues

\* From the received result to the protection of its encoding.
LEMMA Encodes ==
    ASSUME NEW queue, NEW count, NEW seen, RowsInv(entries, queue, count, sent, seen),
           NEW r \in RowsIn(entries), NEW row, NEW new, Continues(entries, r, row, count, new),
           row.identity = r, Encode(r, row)
    PROVE  RowsInv(entries', queue, new, sent', seen)
  <1>1. row \in Custody
    BY DEF Continues
  <1>2. CASE Return(r, [row EXCEPT !.refusal = "ReplyPermission"])
    <2> DEFINE alt == [row EXCEPT !.refusal = "ReplyPermission"]
    <2>1. /\ alt \in Custody /\ alt.q = row.q /\ alt.query = row.query /\ alt.completed = row.completed
          /\ alt.identity = row.identity /\ alt.admission = row.admission
      BY <1>1 DEF Custody, Refusals
    <2> HIDE DEF alt
    <2>2. Continues(entries, r, alt, count, new)
      BY <2>1, ContinuesAlike
    <2> QED
      BY <1>2, <2>2, Returns DEF alt
  <1>3. CASE Return(r, row)
    BY <1>3, Returns
  <1>4. CASE Return(r, [row EXCEPT !.encoding = "Err"])
    <2> DEFINE alt == [row EXCEPT !.encoding = "Err"]
    <2>1. /\ alt \in Custody /\ alt.q = row.q /\ alt.query = row.query /\ alt.completed = row.completed
          /\ alt.identity = row.identity /\ alt.admission = row.admission
      BY <1>1 DEF Custody
    <2> HIDE DEF alt
    <2>2. Continues(entries, r, alt, count, new)
      BY <2>1, ContinuesAlike
    <2> QED
      BY <1>4, <2>2, Returns DEF alt
  <1>5. CASE Await(r, [row EXCEPT !.encoding = "Ok"], "protection")
    <2> DEFINE alt == [row EXCEPT !.encoding = "Ok"]
    <2>1. /\ alt \in Custody /\ alt.q = row.q /\ alt.query = row.query /\ alt.completed = row.completed
          /\ alt.identity = row.identity /\ alt.admission = row.admission
      BY <1>1 DEF Custody
    <2>2. Await(r, alt, "protection")
      BY <1>5
    <2> HIDE DEF alt
    <2>3. Continues(entries, r, alt, count, new)
      BY <2>1, ContinuesAlike
    <2>4. "protection" \in Stages
      BY DEF Stages
    <2> QED
      BY <2>1, <2>2, <2>3, <2>4, Awaits
  <1> QED
    BY <1>2, <1>3, <1>4, <1>5 DEF Encode

\* A row agrees with the stored one in what no provider or policy changes.
Agrees(e, r, row) ==
    row \in Custody /\ row.q = e[r].q /\ row.query = e[r].query /\ row.completed = e[r].completed

\* A row may attempt its command: the first of its request, or after an exact Full.
MayAttempt(e, r, row) ==
    /\ Agrees(e, r, row) /\ row.identity = r
    /\ \/ e[r].identity = 0 /\ Unclaimed(e, row.q)
       \/ e[r].identity = r /\ e[r].admission # "Ok"

LEMMA AttemptsCommand ==
    ASSUME NEW queue, NEW seen, RowsInv(entries, queue, admitted, sent, seen),
           NEW r \in RowsIn(entries), NEW row, MayAttempt(entries, r, row), AttemptCommand(r, row)
    PROVE  RowsInv(entries', queue, admitted', sent', seen)
  <1> DEFINE made == [row EXCEPT !.construction = "None", !.admission = Admission]
  <1>1. row \in Custody
    BY DEF MayAttempt, Agrees
  <1>2. Admission \in {"Ok", "Full", "Closed"}
    BY DEF Admission
  <1>3. /\ made \in Custody /\ made.q = row.q /\ made.query = row.query /\ made.completed = row.completed
        /\ made.identity = row.identity /\ made.admission = Admission
    <2>1. PICK adm : adm = Admission
      OBVIOUS
    <2>2. adm \in {"Ok", "Full", "Closed"}
      BY <1>2, <2>1
    <2>3. made = [row EXCEPT !.construction = "None", !.admission = adm]
      BY <2>1
    <2> HIDE DEF made
    <2> QED
      BY ONLY ZenonT(60), <1>1, <2>1, <2>2, <2>3 DEF Custody
  <1>4. /\ IF Admission = "Ok"
           THEN /\ mailbox' = Append(mailbox, r)
                /\ admitted' = [admitted EXCEPT ![Ident[row.q]] = @ + 1]
           ELSE UNCHANGED <<mailbox, admitted>>
        /\ IF Admission = "Full" THEN Await(r, made, "full")
           ELSE IF Admission = "Ok" /\ Op(row.q) = "reply" THEN Await(r, made, "receive")
           ELSE Encode(r, made)
    BY Zenon DEF AttemptCommand
  <1> HIDE DEF made
  <1>5. admitted' = Counted(admitted, made)
    BY <1>3, <1>4 DEF Counted
  <1>6. Continues(entries, r, made, admitted, admitted')
    BY <1>3, <1>5 DEF Continues, MayAttempt, Agrees
  <1>7. made.identity = r /\ "full" \in Stages /\ "receive" \in Stages
    BY <1>3 DEF MayAttempt, Stages
  <1>8. CASE Admission = "Full"
    <2>1. Await(r, made, "full") /\ made.admission # "Ok"
      BY <1>3, <1>4, <1>8
    <2> QED
      BY <1>6, <1>7, <2>1, Awaits
  <1>9. CASE Await(r, made, "receive")
    BY <1>6, <1>7, <1>9, Awaits
  <1>10. CASE Encode(r, made)
    BY <1>6, <1>7, <1>10, Encodes
  <1> QED
    BY <1>4, <1>8, <1>9, <1>10

LEMMA AttemptsStop ==
    ASSUME NEW queue, NEW seen, RowsInv(entries, queue, admitted, sent, seen),
           NEW r \in RowsIn(entries), NEW row, MayAttempt(entries, r, row), AttemptStop(r, row)
    PROVE  RowsInv(entries', queue, admitted', sent', seen)
  <1> DEFINE result == IF life.retired THEN "Closed" ELSE "Ok"
             made == [row EXCEPT !.admission = result]
  <1>1. row \in Custody
    BY DEF MayAttempt, Agrees
  <1>2. result \in {"Ok", "Closed"}
    OBVIOUS
  <1>3. /\ admitted' = [admitted EXCEPT ![Ident[row.q]] = IF result = "Ok" THEN @ + 1 ELSE @]
        /\ Await(r, made, "receive")
    BY Zenon DEF AttemptStop
  <1> HIDE DEF result
  <1>4. /\ made \in Custody /\ made.q = row.q /\ made.query = row.query /\ made.completed = row.completed
        /\ made.identity = row.identity /\ made.admission = result
    BY <1>1, <1>2 DEF Custody
  <1> HIDE DEF made
  <1>5. admitted \in [Idents -> Nat]
    BY DEF RowsInv
  <1>6. admitted' = Counted(admitted, made)
    BY Zenon, <1>3, <1>4, <1>5 DEF Counted
  <1>7. Continues(entries, r, made, admitted, admitted')
    BY <1>4, <1>6 DEF Continues, MayAttempt, Agrees
  <1>8. made.identity = r /\ "receive" \in Stages
    BY <1>4 DEF MayAttempt, Stages
  <1> QED
    BY <1>3, <1>7, <1>8, Awaits

-----------------------------------------------------------------------------
(* The actions of a request *)

\* The invariant of the rows, in a state.
Here == RowsInv(entries, incoming, admitted, sent, delivered)

\* A row at an await: occupied, with the key its stage asks for.
LEMMA AtRow ==
    ASSUME Here, NEW r, NEW stage, At(r, stage)
    PROVE  /\ r \in RowsIn(entries) /\ entries[r] \in Custody /\ entries[r].stage = stage
           /\ stage \in {"start", "verification"} => entries[r].identity = 0
           /\ stage \in {"full", "receive", "protection"} => entries[r].identity = r
           /\ entries[r].identity = 0 \/ stage = "full" => entries[r].admission # "Ok"
  <1>1. r \in RowsIn(entries) /\ entries[r].stage = stage
    BY DEF At, Occupied, RowsIn
  <1>2. entries[r] \in Custody /\ KeyOK(entries, r)
    BY <1>1, RowFacts DEF Here
  <1> QED
    BY <1>1, <1>2 DEF KeyOK

\* A row that keeps its key and its admission continues.
LEMMA SameKey ==
    ASSUME NEW e, NEW r, NEW row, NEW count, Agrees(e, r, row),
           row.identity = e[r].identity, row.admission = e[r].admission
    PROVE  Continues(e, r, row, count, count)
  BY DEF Continues, Agrees

LEMMA StartKeeps ==
    ASSUME Here, NEW r, Start(r)
    PROVE  RowsInv(entries', incoming, admitted, sent', delivered)
  <1>1. At(r, "start")
    BY DEF Start
  <1>2. r \in RowsIn(entries) /\ entries[r] \in Custody /\ entries[r].identity = 0
    BY <1>1, AtRow
  <1>3. CASE Return(r, [entries[r] EXCEPT !.refusal = "Json"])
    <2> DEFINE row == [entries[r] EXCEPT !.refusal = "Json"]
    <2>1. Agrees(entries, r, row) /\ row.identity = entries[r].identity /\ row.admission = entries[r].admission
      BY <1>2 DEF Agrees, Custody, Refusals
    <2> HIDE DEF row
    <2>2. Continues(entries, r, row, admitted, admitted)
      BY <2>1, SameKey
    <2> QED
      BY <1>2, <1>3, <2>2, Returns DEF row, Here
  <1>4. CASE Await(r, entries[r], "verification")
    <2>1. Continues(entries, r, entries[r], admitted, admitted)
      BY <1>2, SameKey DEF Agrees
    <2>2. "verification" \in Stages
      BY DEF Stages
    <2> QED
      BY <1>2, <1>4, <2>1, <2>2, Awaits DEF Here
  <1> QED
    BY <1>3, <1>4 DEF Start

LEMMA CancelKeeps ==
    ASSUME Here, NEW r, Cancel(r)
    PROVE  RowsInv(entries', incoming, admitted, sent', delivered)
  <1>1. r \in RowsIn(entries) /\ entries[r] \in Custody /\ Return(r, entries[r])
    BY AtRow DEF Cancel
  <1>2. Continues(entries, r, entries[r], admitted, admitted)
    BY <1>1, SameKey DEF Agrees
  <1> QED
    BY <1>1, <1>2, Returns DEF Here

LEMMA ProtectedKeeps ==
    ASSUME Here, NEW r, NEW out \in Provided("protection"), Protected(r, out)
    PROVE  RowsInv(entries', incoming, admitted, sent', delivered)
  <1>1. At(r, "protection")
    BY DEF Protected
  <1>2. r \in RowsIn(entries) /\ entries[r] \in Custody
    BY <1>1, AtRow
  <1>3. PICK result \in {"None", "Ok", "Err"}, panic \in {"None", "verification", "protection"} :
           Return(r, [entries[r] EXCEPT !.protection = result, !.panic = panic])
    <2>1. out.result \in {"None", "Ok", "Err"} /\ out.panic \in {"None", "protection"}
      BY DEF Provided
    <2>2. entries[r].panic \in {"None", "verification", "protection"}
      BY <1>2 DEF Custody
    <2>3. CASE out.panic = "None"
      BY Zenon, <2>1, <2>2, <2>3 DEF Protected
    <2>4. CASE out.panic # "None"
      BY Zenon, <2>1, <2>4 DEF Protected
    <2> QED
      BY <2>3, <2>4
  <1> DEFINE row == [entries[r] EXCEPT !.protection = result, !.panic = panic]
  <1>4. Agrees(entries, r, row) /\ row.identity = entries[r].identity /\ row.admission = entries[r].admission
    <2>1. result \in {"None", "Ok", "Err"} /\ panic \in {"None", "verification", "protection"}
      OBVIOUS
    <2>2. row \in Custody
      BY ONLY Zenon, <1>2, <2>1 DEF Custody
    <2>3. /\ row.q = entries[r].q /\ row.query = entries[r].query /\ row.completed = entries[r].completed
          /\ row.identity = entries[r].identity /\ row.admission = entries[r].admission
      BY ONLY <1>2, <2>1 DEF Custody
    <2> QED
      BY <2>2, <2>3 DEF Agrees
  <1> HIDE DEF row
  <1>5. Continues(entries, r, row, admitted, admitted)
    BY <1>4, SameKey
  <1> QED
    BY <1>2, <1>3, <1>5, Returns DEF row, Here

LEMMA FullKeeps ==
    ASSUME Here, NEW r, Full(r)
    PROVE  RowsInv(entries', incoming, admitted', sent', delivered)
  <1>1. At(r, "full")
    BY DEF Full
  <1>2. /\ r \in RowsIn(entries) /\ entries[r] \in Custody
        /\ entries[r].identity = r /\ entries[r].admission # "Ok"
    BY <1>1, AtRow
  <1>3. CASE Return(r, entries[r]) /\ UNCHANGED <<mailbox, admitted>>
    <2>1. Continues(entries, r, entries[r], admitted, admitted)
      BY <1>2, SameKey DEF Agrees
    <2> QED
      BY <1>2, <1>3, <2>1, Returns DEF Here
  <1>4. CASE Return(r, [entries[r] EXCEPT !.refusal = "RequestPermission"]) /\ UNCHANGED <<mailbox, admitted>>
    <2> DEFINE row == [entries[r] EXCEPT !.refusal = "RequestPermission"]
    <2>1. Agrees(entries, r, row) /\ row.identity = entries[r].identity /\ row.admission = entries[r].admission
      BY <1>2 DEF Agrees, Custody, Refusals
    <2>2. Return(r, row) /\ admitted' = admitted
      BY <1>4
    <2> HIDE DEF row
    <2>3. Continues(entries, r, row, admitted, admitted)
      BY <2>1, SameKey
    <2> QED
      BY <1>2, <2>2, <2>3, Returns DEF Here
  <1>5. CASE AttemptCommand(r, entries[r])
    <2>1. MayAttempt(entries, r, entries[r])
      BY <1>2 DEF MayAttempt, Agrees
    <2> QED
      BY <1>2, <1>5, <2>1, AttemptsCommand DEF Here
  <1> QED
    BY <1>3, <1>4, <1>5, Zenon DEF Full

LEMMA ReceiveKeeps ==
    ASSUME Here, NEW r, ReceiveReply(r) \/ ReceiveStop(r)
    PROVE  RowsInv(entries', incoming, admitted, sent', delivered)
  <1>1. At(r, "receive")
    BY DEF ReceiveReply, ReceiveStop
  <1>2. r \in RowsIn(entries) /\ entries[r] \in Custody /\ entries[r].identity = r
    BY <1>1, AtRow
  <1>3. PICK received \in {"reply", "eof", "report"} : Encode(r, [entries[r] EXCEPT !.received = received])
    BY Zenon DEF ReceiveReply, ReceiveStop
  <1> DEFINE row == [entries[r] EXCEPT !.received = received]
  <1>4. Agrees(entries, r, row) /\ row.identity = entries[r].identity /\ row.admission = entries[r].admission
    BY <1>2 DEF Agrees, Custody
  <1> HIDE DEF row
  <1>5. Continues(entries, r, row, admitted, admitted)
    BY <1>4, SameKey
  <1>6. Encode(r, row) /\ row.identity = r
    BY <1>2, <1>3, <1>4 DEF row
  <1> QED
    BY <1>2, <1>5, <1>6, Encodes DEF Here

\* A request that found no key is refused.
LEMMA RefusalKeeps ==
    ASSUME Here, NEW r \in RowsIn(entries), NEW row, NEW refusal \in Refusals,
           NEW construction \in {"None", "Left", "Right"},
           Agrees(entries, r, row), row.identity = entries[r].identity, row.admission = entries[r].admission,
           \/ Return(r, [row EXCEPT !.refusal = refusal])
           \/ Return(r, [row EXCEPT !.construction = construction, !.refusal = refusal])
    PROVE  RowsInv(entries', incoming, admitted, sent', delivered)
  <1>1. row \in Custody
    BY DEF Agrees
  <1>2. PICK alt : /\ Return(r, alt)
                   /\ \/ alt = [row EXCEPT !.refusal = refusal]
                      \/ alt = [row EXCEPT !.construction = construction, !.refusal = refusal]
    OBVIOUS
  <1>3. /\ alt \in Custody /\ alt.q = row.q /\ alt.query = row.query /\ alt.completed = row.completed
        /\ alt.identity = row.identity /\ alt.admission = row.admission
    <2>1. refusal \in Refusals /\ construction \in {"None", "Left", "Right"}
      OBVIOUS
    <2>2. CASE alt = [row EXCEPT !.refusal = refusal]
      BY ONLY <1>1, <2>1, <2>2 DEF Custody
    <2>3. CASE alt = [row EXCEPT !.construction = construction, !.refusal = refusal]
      <3>1. alt \in Custody
        BY ONLY Zenon, <1>1, <2>1, <2>3 DEF Custody
      <3>2. /\ alt.q = row.q /\ alt.query = row.query /\ alt.completed = row.completed
            /\ alt.identity = row.identity /\ alt.admission = row.admission
        BY ONLY <1>1, <2>1, <2>3 DEF Custody
      <3> QED
        BY <3>1, <3>2
    <2> QED
      BY <1>2, <2>2, <2>3
  <1>4. Continues(entries, r, alt, admitted, admitted)
    <2>1. Agrees(entries, r, alt) /\ alt.identity = entries[r].identity /\ alt.admission = entries[r].admission
      BY <1>3 DEF Agrees
    <2> QED
      BY <2>1, SameKey
  <1> QED
    BY <1>2, <1>4, Returns DEF Here

\* A request with a canonical row: a conflict, a refused reply or a duplicate.
LEMMA ReplayKeeps ==
    ASSUME Here, NEW r \in RowsIn(entries), NEW row,
           Agrees(entries, r, row), row.identity = 0, entries[r].identity = 0,
           row.admission = entries[r].admission,
           CanonicalOf(row.q) # {}, Replay(r, row)
    PROVE  RowsInv(entries', incoming, admitted, sent', delivered)
  <1> DEFINE k == Min(CanonicalOf(row.q))
  <1>1. k \in RowsIn(entries) /\ entries[k].identity = k /\ Ident[entries[k].q] = Ident[row.q] /\ k \in Rows
    <2>1. CanonicalOf(row.q) \subseteq RowsIn(entries)
      BY DEF CanonicalOf, Occupied, RowsIn
    <2>2. \A s \in RowsIn(entries) : s \in Rows
      BY RowFacts DEF Here
    <2>3. CanonicalOf(row.q) \in SUBSET Nat
      BY <2>1, <2>2 DEF Rows
    <2>4. k \in CanonicalOf(row.q)
      BY <2>3, MinFacts
    <2> HIDE DEF k
    <2> QED
      BY <2>1, <2>2, <2>4 DEF CanonicalOf, Canonical
  <1>2. \/ Return(r, [row EXCEPT !.refusal = "Conflict"])
        \/ Return(r, [row EXCEPT !.refusal = "ReplyPermission"])
        \/ Bytes[entries[k].q] = Bytes[row.q] /\ Return(r, [row EXCEPT !.identity = k])
    BY Zenon DEF Replay
  <1> HIDE DEF k
  <1>3. row \in Custody /\ row.q = entries[r].q
    BY DEF Agrees
  <1>4. CASE \/ Return(r, [row EXCEPT !.refusal = "Conflict"])
             \/ Return(r, [row EXCEPT !.refusal = "ReplyPermission"])
    <2>1. "Conflict" \in Refusals /\ "ReplyPermission" \in Refusals
      BY DEF Refusals
    <2> QED
      BY Zenon, <1>4, <2>1, RefusalKeeps
  <1>5. CASE Bytes[entries[k].q] = Bytes[row.q] /\ Return(r, [row EXCEPT !.identity = k])
    <2> DEFINE alt == [row EXCEPT !.identity = k]
    <2>1. k \in 0 .. RetainedRequests
      BY <1>1, ExportLimitsPositive DEF Rows
    <2>2. alt \in Custody /\ alt.identity = k
      BY ONLY <1>3, <2>1 DEF Custody
    <2>3. alt.q = row.q /\ alt.query = row.query /\ alt.completed = row.completed
      BY ONLY <1>3 DEF Custody
    <2>4. Return(r, alt)
      BY <1>5
    <2> HIDE DEF alt
    <2>5. Same(entries[k].q, entries[r].q)
      BY <1>1, <1>3, <1>5 DEF Same
    <2>6. Continues(entries, r, alt, admitted, admitted)
      BY <1>1, <2>2, <2>3, <2>5 DEF Continues, Agrees
    <2> QED
      BY <2>4, <2>6, Returns DEF Here
  <1> QED
    BY <1>2, <1>4, <1>5

\* A first request: refused after its construction, or attempted.
LEMMA ExecuteKeeps ==
    ASSUME Here, NEW r \in RowsIn(entries), NEW row,
           Agrees(entries, r, row), row.identity = 0, entries[r].identity = 0,
           row.admission = entries[r].admission, row.admission # "Ok",
           CanonicalOf(row.q) = {}, Execute(r, row)
    PROVE  RowsInv(entries', incoming, admitted', sent', delivered)
  <1> DEFINE constructed == [row EXCEPT !.construction = "Right", !.identity = r]
             stopped == [row EXCEPT !.identity = r]
  <1>1. row \in Custody /\ row.q = entries[r].q
    BY DEF Agrees
  <1>2. r \in 0 .. RetainedRequests
    BY RowFacts, ExportLimitsPositive DEF Here, Rows
  <1>3. Unclaimed(entries, row.q)
    BY DEF Unclaimed, CanonicalOf, Occupied, RowsIn
  <1>4. MayAttempt(entries, r, stopped)
    <2>1. stopped \in Custody /\ stopped.identity = r
      BY ONLY <1>1, <1>2 DEF Custody
    <2>2. stopped.q = row.q /\ stopped.query = row.query /\ stopped.completed = row.completed
      BY ONLY <1>1 DEF Custody
    <2> HIDE DEF stopped
    <2> QED
      BY <1>3, <2>1, <2>2 DEF MayAttempt, Agrees
  <1>5. MayAttempt(entries, r, constructed) /\ constructed.admission = row.admission
    <2>1. constructed \in Custody /\ constructed.identity = r
      BY ONLY ZenonT(60), <1>1, <1>2 DEF Custody
    <2>2. /\ constructed.q = row.q /\ constructed.query = row.query /\ constructed.completed = row.completed
          /\ constructed.admission = row.admission
      BY ONLY <1>1 DEF Custody
    <2> HIDE DEF constructed
    <2> QED
      BY <1>3, <2>1, <2>2 DEF MayAttempt, Agrees
  <1>6. \/ /\ Return(r, [row EXCEPT !.refusal = "RequestPermission"])
           /\ UNCHANGED <<mailbox, admitted>>
        \/ /\ Return(r, [constructed EXCEPT !.refusal = "RequestPermission"])
           /\ UNCHANGED <<mailbox, admitted>>
        \/ AttemptStop(r, stopped)
        \/ AttemptCommand(r, constructed)
    <2>1. CASE Op(row.q) = "stop"
      BY <2>1 DEF Execute
    <2>2. CASE Op(row.q) # "stop"
      BY <2>2 DEF Execute
    <2> QED
      BY <2>1, <2>2
  <1> HIDE DEF constructed, stopped
  <1>7. CASE /\ Return(r, [row EXCEPT !.refusal = "RequestPermission"])
             /\ UNCHANGED <<mailbox, admitted>>
    <2>1. "RequestPermission" \in Refusals
      BY DEF Refusals
    <2>2. RowsInv(entries', incoming, admitted, sent', delivered)
      BY ZenonT(60), <1>7, <2>1, RefusalKeeps
    <2> QED
      BY <1>7, <2>2
  <1>8. CASE /\ Return(r, [constructed EXCEPT !.refusal = "RequestPermission"])
             /\ UNCHANGED <<mailbox, admitted>>
    <2> DEFINE alt == [constructed EXCEPT !.refusal = "RequestPermission"]
    <2>1. constructed \in Custody
      BY <1>5 DEF MayAttempt, Agrees
    <2>2. /\ alt \in Custody /\ alt.q = constructed.q /\ alt.query = constructed.query
          /\ alt.completed = constructed.completed /\ alt.identity = constructed.identity
          /\ alt.admission = constructed.admission
      BY ONLY <2>1 DEF Custody, Refusals
    <2>3. Return(r, alt) /\ admitted' = admitted
      BY <1>8
    <2> HIDE DEF alt
    <2>4. Counted(admitted, alt) = admitted
      BY <1>5, <2>2 DEF Counted
    <2>5. Continues(entries, r, alt, admitted, admitted)
      BY <1>5, <2>2, <2>4 DEF Continues, MayAttempt, Agrees
    <2> QED
      BY <2>3, <2>5, Returns DEF Here
  <1>9. CASE AttemptStop(r, stopped)
    BY ZenonT(60), <1>4, <1>9, AttemptsStop DEF Here
  <1>10. CASE AttemptCommand(r, constructed)
    BY <1>5, <1>10, AttemptsCommand DEF Here
  <1> QED
    BY <1>6, <1>7, <1>8, <1>9, <1>10

LEMMA SelectKeeps ==
    ASSUME Here, NEW r \in RowsIn(entries), NEW row,
           Agrees(entries, r, row), row.identity = 0, entries[r].identity = 0,
           row.admission = entries[r].admission, row.admission # "Ok", Select(r, row)
    PROVE  RowsInv(entries', incoming, admitted', sent', delivered)
  <1>1. {"RequestPermission", "Decoded", "Endpoint", "StopAuthority"} \subseteq Refusals
    BY DEF Refusals
  <1>2. CASE Return(r, [row EXCEPT !.refusal = "RequestPermission"]) /\ UNCHANGED target
    <2>1. RowsInv(entries', incoming, admitted, sent', delivered)
      BY Zenon, <1>1, <1>2, RefusalKeeps
    <2> QED
      BY <1>2, <2>1 DEF target
  <1>3. CASE CanonicalOf(row.q) # {} /\ Replay(r, row) /\ UNCHANGED target
    <2>1. RowsInv(entries', incoming, admitted, sent', delivered)
      BY <1>3, ReplayKeeps
    <2> QED
      BY <1>3, <2>1 DEF target
  <1>4. CASE Refused(r, row) /\ UNCHANGED target
    <2>1. \/ \E refusal \in Refusals : Return(r, [row EXCEPT !.refusal = refusal])
          \/ Return(r, [row EXCEPT !.construction = "Left", !.refusal = "Endpoint"])
      BY <1>1, <1>4 DEF Refused
    <2>2. RowsInv(entries', incoming, admitted, sent', delivered)
      <3>1. CASE \E refusal \in Refusals : Return(r, [row EXCEPT !.refusal = refusal])
        <4>1. PICK refusal \in Refusals : Return(r, [row EXCEPT !.refusal = refusal])
          BY <3>1
        <4> QED
          BY Zenon, <4>1, RefusalKeeps
      <3>2. CASE Return(r, [row EXCEPT !.construction = "Left", !.refusal = "Endpoint"])
        <4>1. "Left" \in {"None", "Left", "Right"} /\ "Endpoint" \in Refusals
          BY <1>1
        <4> QED
          BY Zenon, <3>2, <4>1, RefusalKeeps
      <3> QED
        BY Zenon, <2>1, <3>1, <3>2
    <2> QED
      BY <1>4, <2>2 DEF target
  <1>5. CASE CanonicalOf(row.q) = {} /\ Execute(r, row)
    BY <1>5, ExecuteKeeps
  <1> QED
    BY <1>2, <1>3, <1>4, <1>5, Zenon DEF Select

LEMMA VerifiedKeeps ==
    ASSUME Here, NEW r, NEW out \in Provided("verification"), Verified(r, out)
    PROVE  RowsInv(entries', incoming, admitted', sent', delivered)
  <1> DEFINE row == [entries[r] EXCEPT !.verified = out.result, !.panic = out.panic]
  <1>1. At(r, "verification") /\ (Select(r, row) \/ (Return(r, row) /\ UNCHANGED target))
    BY Zenon DEF Verified
  <1>2. /\ r \in RowsIn(entries) /\ entries[r] \in Custody
        /\ entries[r].identity = 0 /\ entries[r].admission # "Ok"
    BY <1>1, AtRow
  <1>3. out.result \in {"None", "Ok", "Err"} /\ out.panic \in {"None", "verification", "protection"}
    BY DEF Provided
  <1>4. row \in Custody
    BY ONLY ZenonT(60), <1>2, <1>3 DEF Custody
  <1>5. /\ row.q = entries[r].q /\ row.query = entries[r].query /\ row.completed = entries[r].completed
        /\ row.identity = entries[r].identity /\ row.admission = entries[r].admission
    BY ONLY <1>2 DEF Custody
  <1> HIDE DEF row
  <1>6. Agrees(entries, r, row)
    BY <1>4, <1>5 DEF Agrees
  <1>7. CASE Return(r, row) /\ UNCHANGED target
    <2>1. Continues(entries, r, row, admitted, admitted)
      BY <1>5, <1>6, SameKey
    <2>2. RowsInv(entries', incoming, admitted, sent', delivered)
      BY <1>2, <1>7, <2>1, Returns DEF Here
    <2> QED
      BY <1>7, <2>2 DEF target
  <1>8. CASE Select(r, row)
    BY <1>2, <1>5, <1>6, <1>8, SelectKeeps
  <1> QED
    BY <1>1, <1>7, <1>8

-----------------------------------------------------------------------------
(* The queue *)

\* Queries leave the queue.
LEMMA QueueShrinks ==
    ASSUME NEW e, NEW queue, NEW replies, NEW seen, IsFiniteSet(seen), Queried(e, queue, replies, seen),
           NEW less, \A q \in Range(less) : q \in Range(queue),
           \A i, j \in DOMAIN less : less[i] = less[j] => i = j
    PROVE  Queried(e, less, replies, seen)
  <1>1. \A q \in Charged(less, e) : q \in Charged(queue, e)
    BY DEF Charged
  <1>2. IsFiniteSet(Charged(queue, e))
    BY ChargedSeen, FS_Subset
  <1>3. Cardinality(Charged(queue, e)) <= RetainedQueries
    BY DEF Queried
  <1>4. Cardinality(Charged(less, e)) <= RetainedQueries
    BY ONLY <1>1, <1>2, <1>3, ChargedLess
  <1> QED
    BY <1>4 DEF Queried

\* The first query leaves the queue, and is found nowhere else.
LEMMA TailFacts ==
    ASSUME NEW queue \in Seq(Queries), queue # <<>>, \A i, j \in DOMAIN queue : queue[i] = queue[j] => i = j
    PROVE  /\ Tail(queue) \in Seq(Queries) /\ Head(queue) \in Range(queue) /\ Head(queue) \in Queries
           /\ \A q \in Range(Tail(queue)) : q \in Range(queue) /\ q # Head(queue)
           /\ \A i, j \in DOMAIN Tail(queue) : Tail(queue)[i] = Tail(queue)[j] => i = j
  <1> DEFINE rest == Tail(queue)
  <1>1. /\ rest \in Seq(Queries) /\ Head(queue) = queue[1] /\ 1 \in DOMAIN queue
        /\ \A i \in DOMAIN rest : rest[i] = queue[i + 1] /\ i + 1 \in DOMAIN queue /\ i \in Nat /\ i # 0
    OBVIOUS
  <1> HIDE DEF rest
  <1>2. \A i \in DOMAIN rest : rest[i] # Head(queue)
    BY <1>1
  <1>3. \A i, j \in DOMAIN rest : rest[i] = rest[j] => i = j
    BY <1>1
  <1> QED
    BY <1>1, <1>2, <1>3 DEF rest, Range

\* e with the row of a new request for q.
Opened(e, f, r, q) ==
    /\ RowsIn(f) = RowsIn(e) \cup {r} /\ r \notin RowsIn(e) /\ r # 0
    /\ \A s \in RowsIn(e) : f[s] = e[s]
    /\ f[r] = Request(q) /\ f[r] # Vacant

\* A new row disturbs no execution.
LEMMA OpensExecutions ==
    ASSUME NEW e, NEW f, NEW r, NEW q, NEW count, NEW replies,
           Executions(e, count, replies), Opened(e, f, r, q)
    PROVE  Executions(f, count, replies)
  <1>1. /\ RowsIn(f) = RowsIn(e) \cup {r} /\ r \notin RowsIn(e) /\ r # 0
        /\ \A s \in RowsIn(e) : f[s] = e[s]
    BY DEF Opened
  <1>2. f[r].identity = 0 /\ f[r].stage = "start" /\ f[r].admission = "Unattempted"
    BY DEF Opened, Request
  <1>3. \A k \in RowsIn(f) : Canonical(f, k) <=> k \in RowsIn(e) /\ Canonical(e, k)
    BY <1>1, <1>2 DEF Canonical
  <1>4. ASSUME NEW s \in RowsIn(f) PROVE KeyOK(f, s)
    <2>1. CASE s = r
      BY <1>2, <2>1 DEF KeyOK
    <2>2. CASE s # r
      <3>1. s \in RowsIn(e) /\ KeyOK(e, s) /\ f[s] = e[s]
        BY <1>1, <2>2 DEF Executions
      <3> QED
        BY <1>1, <3>1 DEF KeyOK
    <2> QED
      BY <2>1, <2>2
  <1>5. Unique(f)
    BY <1>1, <1>3 DEF Executions, Unique
  <1>6. CountOK(f, count)
    <2> SUFFICES ASSUME NEW i \in Idents
                 PROVE  LET rows == {k \in RowsIn(f) : Canonical(f, k) /\ Ident[f[k].q] = i}
                        IN  /\ rows = {} => count[i] = 0
                            /\ \A k \in rows : count[i] = IF f[k].admission = "Ok" THEN 1 ELSE 0
      BY DEF CountOK
    <2> DEFINE old == {k \in RowsIn(e) : Canonical(e, k) /\ Ident[e[k].q] = i}
               new == {k \in RowsIn(f) : Canonical(f, k) /\ Ident[f[k].q] = i}
    <2>1. (old = {} => count[i] = 0) /\ \A k \in old : count[i] = IF e[k].admission = "Ok" THEN 1 ELSE 0
      BY DEF Executions, CountOK
    <2>2. \A k \in new : k \in old /\ f[k] = e[k]
      BY <1>1, <1>3
    <2>3. \A k \in old : k \in new
      BY <1>1, <1>3
    <2> QED
      BY <2>1, <2>2, <2>3
  <1>7. ASSUME NEW i \in DOMAIN replies PROVE ReplyOK(f, replies[i])
    <2>1. ReplyOK(e, replies[i])
      BY DEF Executions
    <2> QED
      BY <1>1, <2>1 DEF ReplyOK
  <1> QED
    BY <1>4, <1>5, <1>6, <1>7 DEF Executions

\* The query of a new row comes from the queue, and its charge goes with it.
LEMMA OpensQueried ==
    ASSUME NEW e, NEW f, NEW r, NEW queue \in Seq(Queries), queue # <<>>, NEW replies, NEW seen,
           IsFiniteSet(seen), Queried(e, queue, replies, seen), Opened(e, f, r, Head(queue))
    PROVE  Queried(f, Tail(queue), replies, seen)
  <1> DEFINE q == Head(queue)
             rest == Tail(queue)
  <1>1. /\ RowsIn(f) = RowsIn(e) \cup {r} /\ r \notin RowsIn(e)
        /\ \A s \in RowsIn(e) : f[s] = e[s]
    BY DEF Opened
  <1>2. f[r].q = q /\ f[r].query
    BY DEF Opened, Request
  <1>3. \A i, j \in DOMAIN queue : queue[i] = queue[j] => i = j
    BY Zenon DEF Queried
  <1>4. /\ q \in Range(queue)
        /\ \A p \in Range(rest) : p \in Range(queue) /\ p # q
        /\ \A i, j \in DOMAIN rest : rest[i] = rest[j] => i = j
    BY <1>3, TailFacts
  <1> HIDE DEF q, rest
  <1>5. Queried(e, rest, replies, seen)
    BY <1>4, QueueShrinks
  <1>6. /\ q \in seen
        /\ \A s \in RowsIn(e) : e[s].query => e[s].q # q
        /\ \A i \in DOMAIN replies : replies[i].q # q
    BY <1>4 DEF Queried
  <1>7. ASSUME NEW p \in Charged(rest, f) PROVE p \in Charged(queue, e)
    <2>1. CASE p \in Range(rest)
      BY <1>4, <2>1 DEF Charged
    <2>2. CASE p \notin Range(rest)
      <3>1. PICK s \in RowsIn(f) : f[s].query /\ p = f[s].q
        BY <2>2 DEF Charged, RowsIn
      <3>2. CASE s = r
        BY <1>2, <1>4, <3>1, <3>2 DEF Charged
      <3>3. CASE s # r
        <4>1. s \in RowsIn(e) /\ e[s].query /\ p = e[s].q
          BY <1>1, <3>1, <3>3
        <4> QED
          BY <4>1 DEF Charged, RowsIn
      <3> QED
        BY <3>2, <3>3
    <2> QED
      BY <2>1, <2>2
  <1>8. Cardinality(Charged(rest, f)) <= RetainedQueries
    <2>1. IsFiniteSet(Charged(queue, e))
      BY ChargedSeen, FS_Subset
    <2>2. Cardinality(Charged(queue, e)) <= RetainedQueries
      BY DEF Queried
    <2> QED
      BY ONLY <1>7, <2>1, <2>2, ChargedLess
  <1>9. \A s \in RowsIn(f) : f[s].q \in seen
    BY ZenonT(60), <1>1, <1>2, <1>5, <1>6 DEF Queried
  <1>10. ASSUME NEW s \in RowsIn(f), f[s].query
         PROVE  /\ f[s].q \notin Range(rest)
                /\ \A t \in RowsIn(f) : f[t].query /\ f[t].q = f[s].q => s = t
                /\ \A i \in DOMAIN replies : replies[i].q # f[s].q
    BY ZenonT(60), <1>1, <1>2, <1>4, <1>5, <1>6, <1>10 DEF Queried
  <1> QED
    BY Zenon, <1>5, <1>8, <1>9, <1>10 DEF Queried, rest

-----------------------------------------------------------------------------
(* The other actions *)

LEMMA AcceptKeeps ==
    ASSUME Here, incoming \in Seq(Queries), Accept
    PROVE  RowsInv(entries', incoming', admitted, sent, delivered) /\ incoming' \in Seq(Queries)
  <1> DEFINE q == Head(incoming)
             vacancies == {r \in DOMAIN entries : entries[r] = Vacant}
  <1>1. /\ entries \in Seq(Custody \cup {Vacant}) /\ Len(entries) <= RetainedRequests
        /\ sent \in Seq([q : Queries, from : Rows, origin : Queries])
        /\ admitted \in [Idents -> Nat] /\ IsFiniteSet(delivered)
        /\ Executions(entries, admitted, sent) /\ Queried(entries, incoming, sent, delivered)
    BY DEF Here, RowsInv
  <1>2. /\ incoming # <<>> /\ incoming' = Tail(incoming)
        /\ \/ UNCHANGED entries
           \/ vacancies # {} /\ entries' = [entries EXCEPT ![Min(vacancies)] = Request(q)]
           \/ vacancies = {} /\ Len(entries) < RetainedRequests /\ entries' = Append(entries, Request(q))
    BY DEF Accept
  <1>3. \A i, j \in DOMAIN incoming : incoming[i] = incoming[j] => i = j
    BY <1>1 DEF Queried
  <1>4. /\ incoming' \in Seq(Queries) /\ q \in Queries
        /\ \A p \in Range(incoming') : p \in Range(incoming)
        /\ \A i, j \in DOMAIN incoming' : incoming'[i] = incoming'[j] => i = j
    BY Zenon, <1>2, <1>3, TailFacts
  <1>5. CASE UNCHANGED entries
    <2>1. Queried(entries, incoming', sent, delivered)
      BY <1>1, <1>4, QueueShrinks
    <2> QED
      BY <1>1, <1>4, <1>5, <2>1 DEF RowsInv
  <1>6. Request(q) \in Custody /\ Request(q) # Vacant
    <2>1. q \in Queries /\ RetainedRequests \in Nat
      BY <1>4, ExportLimitsPositive
    <2> HIDE DEF q
    <2>2. Request(q) \in Custody
      BY <2>1 DEF Request, Custody, Stages
    <2> QED
      BY <2>2, VacantAssumption
  <1> HIDE DEF q
  <1>7. PICK S : S = Custody \cup {Vacant}
    BY Zenon
  <1>8. entries \in Seq(S) /\ Request(q) \in S
    BY <1>1, <1>6, <1>7
  <1>9. ASSUME NEW r, Opened(entries, entries', r, q), entries' \in Seq(S), Len(entries') <= RetainedRequests
        PROVE  RowsInv(entries', incoming', admitted, sent, delivered)
    <2>1. Executions(entries', admitted, sent)
      BY <1>1, <1>9, OpensExecutions
    <2>2. Queried(entries', Tail(incoming), sent, delivered)
      BY Zenon, <1>1, <1>2, <1>9, OpensQueried DEF q
    <2> QED
      BY <1>1, <1>2, <1>7, <1>9, <2>1, <2>2 DEF RowsInv
  <1>10. CASE vacancies # {} /\ entries' = [entries EXCEPT ![Min(vacancies)] = Request(q)]
    <2>1. vacancies \in SUBSET Nat
      BY <1>8
    <2>2. PICK r \in vacancies : r = Min(vacancies)
      BY Zenon, <1>10, <2>1, MinFacts
    <2>3. entries' = [entries EXCEPT ![r] = Request(q)] /\ r \in DOMAIN entries /\ entries[r] = Vacant
      BY <1>10, <2>2
    <2>4. entries' \in Seq(S) /\ Len(entries') = Len(entries) /\ DOMAIN entries' = DOMAIN entries /\ r # 0
      BY ONLY <1>8, <2>3
    <2>5. \A s \in DOMAIN entries : entries'[s] = IF s = r THEN Request(q) ELSE entries[s]
      BY ONLY <2>3
    <2>6. RowsIn(entries') = RowsIn(entries) \cup {r}
      BY ONLY <1>6, <2>3, <2>4, <2>5 DEF RowsIn
    <2>7. Opened(entries, entries', r, q)
      BY <1>6, <2>3, <2>4, <2>5, <2>6 DEF Opened, RowsIn
    <2>8. Len(entries') <= RetainedRequests
      BY <1>1, <2>4
    <2> QED
      BY <1>4, <1>9, <2>4, <2>7, <2>8
  <1>11. CASE Len(entries) < RetainedRequests /\ entries' = Append(entries, Request(q))
    <2> DEFINE r == Len(entries) + 1
    <2>1. /\ entries' \in Seq(S) /\ Len(entries') = r /\ DOMAIN entries' = DOMAIN entries \cup {r}
          /\ r \notin DOMAIN entries /\ r # 0 /\ entries'[r] = Request(q)
          /\ \A s \in DOMAIN entries : entries'[s] = entries[s]
      BY ONLY <1>8, <1>11
    <2>2. Len(entries') <= RetainedRequests
      BY <1>8, <1>11, <2>1, ExportLimitsPositive
    <2> HIDE DEF r
    <2>3. RowsIn(entries') = RowsIn(entries) \cup {r}
      BY ONLY <1>6, <2>1 DEF RowsIn
    <2>4. Opened(entries, entries', r, q)
      BY <1>6, <2>1, <2>3 DEF Opened, RowsIn
    <2> QED
      BY Zenon, <1>4, <1>9, <2>1, <2>2, <2>4
  <1> QED
    BY <1>2, <1>4, <1>5, <1>10, <1>11 DEF q

\* Rows move on and yield nothing but queries, while the queue is emptied or kept.
LEMMA RowsMove ==
    ASSUME Here, NEW f \in [DOMAIN entries -> Custody \cup {Vacant}], Moves(entries, f), Yields(entries, f),
           NEW queue, queue = incoming \/ queue = <<>>
    PROVE  RowsInv(f, queue, admitted, sent, delivered)
  <1>1. /\ entries \in Seq(Custody \cup {Vacant}) /\ Len(entries) <= RetainedRequests
        /\ sent \in Seq([q : Queries, from : Rows, origin : Queries])
        /\ admitted \in [Idents -> Nat] /\ IsFiniteSet(delivered)
        /\ Executions(entries, admitted, sent) /\ Queried(entries, incoming, sent, delivered)
    BY DEF Here, RowsInv
  <1>2. f \in Seq(Custody \cup {Vacant}) /\ Len(f) = Len(entries)
    BY <1>1, SameShape
  <1>3. 0 \notin DOMAIN entries
    BY <1>1
  <1>4. Executions(f, admitted, sent)
    BY <1>1, <1>3, MovesExecutions
  <1>5. Queried(f, incoming, sent, delivered)
    BY <1>1, YieldsQueried
  <1>6. Queried(f, <<>>, sent, delivered)
    <2>1. Range(<<>>) = {} /\ DOMAIN <<>> = {}
      BY DEF Range
    <2> QED
      BY <1>1, <1>5, <2>1, QueueShrinks
  <1> QED
    BY <1>1, <1>2, <1>4, <1>5, <1>6 DEF RowsInv

\* A panic of the caller's code drops the serving task.
LEMMA EscapeKeeps ==
    ASSUME Here, NEW r, Escape(r)
    PROVE  RowsInv(entries', <<>>, admitted, sent, delivered)
  <1> DEFINE e == [entries EXCEPT ![r].verified = "Ok"]
             f == Dropped(e)
  <1>1. /\ r \in RowsIn(entries) /\ entries[r].stage \in {"verification", "full", "receive"}
        /\ entries' = f
    BY DEF Escape, Occupied, RowsIn
  <1>2. entries[r] \in Custody /\ r \in DOMAIN entries
    BY <1>1, RowFacts DEF Here
  <1>3. /\ DOMAIN e = DOMAIN entries /\ e[r] = [entries[r] EXCEPT !.verified = "Ok"]
        /\ \A s \in DOMAIN entries : s # r => e[s] = entries[s]
    BY <1>2
  <1> HIDE DEF e
  <1>4. DOMAIN f = DOMAIN entries /\ f = [s \in DOMAIN entries |-> f[s]]
    BY <1>3 DEF Dropped
  <1>5. ASSUME NEW s \in DOMAIN entries
        PROVE  f[s] = entries[s] \/ (/\ entries[s] \in Custody
                                     /\ \/ f[s] = [entries[s] EXCEPT !.stage = "dropped"]
                                        \/ f[s] = [entries[s] EXCEPT !.verified = "Ok", !.stage = "dropped"])
    <2>1. CASE s = r
      <3>1. e[r] # Vacant /\ Pending(e[r])
        <4>1. e[r] \in Custody /\ e[r].stage = entries[r].stage
          BY <1>2, <1>3 DEF Custody
        <4> QED
          BY <1>1, <4>1, VacantAssumption DEF Pending
      <3>2. f[r] = [e[r] EXCEPT !.stage = "dropped"]
        BY Zenon, <1>2, <1>3, <3>1 DEF Dropped
      <3>3. f[r] = [entries[r] EXCEPT !.verified = "Ok", !.stage = "dropped"]
        BY <1>3, <3>2
      <3> QED
        BY <1>2, <2>1, <3>3
    <2>2. CASE s # r
      <3>1. f[s] = e[s] \/ (e[s] # Vacant /\ f[s] = [e[s] EXCEPT !.stage = "dropped"])
        BY <1>3 DEF Dropped
      <3>2. entries[s] # Vacant => entries[s] \in Custody
        BY RowFacts DEF Here, RowsIn
      <3> HIDE DEF f
      <3> QED
        BY <1>3, <2>2, <3>1, <3>2
    <2> QED
      BY <2>1, <2>2
  <1> HIDE DEF f
  <1>6. ASSUME NEW s \in DOMAIN entries, entries[s] \in Custody,
               \/ f[s] = [entries[s] EXCEPT !.stage = "dropped"]
               \/ f[s] = [entries[s] EXCEPT !.verified = "Ok", !.stage = "dropped"]
        PROVE  /\ f[s] \in Custody /\ f[s].stage = "dropped" /\ f[s].q = entries[s].q
               /\ f[s].identity = entries[s].identity /\ f[s].admission = entries[s].admission
               /\ f[s].completed = entries[s].completed /\ f[s].query = entries[s].query
    <2>1. CASE f[s] = [entries[s] EXCEPT !.stage = "dropped"]
      BY <1>6, <2>1 DEF Custody, Stages
    <2>2. CASE f[s] = [entries[s] EXCEPT !.verified = "Ok", !.stage = "dropped"]
      <3>1. f[s] \in Custody
        BY ONLY ZenonT(60), <1>6, <2>2 DEF Custody, Stages
      <3>2. /\ f[s].stage = "dropped" /\ f[s].q = entries[s].q
            /\ f[s].identity = entries[s].identity /\ f[s].admission = entries[s].admission
            /\ f[s].completed = entries[s].completed /\ f[s].query = entries[s].query
        BY ONLY <1>6, <2>2 DEF Custody
      <3> QED
        BY <3>1, <3>2
    <2> QED
      BY <1>6, <2>1, <2>2
  <1>7. \A s \in DOMAIN entries : entries[s] \in Custody \cup {Vacant}
    BY DEF Here, RowsInv
  <1>8. f \in [DOMAIN entries -> Custody \cup {Vacant}]
    <2>1. \A s \in DOMAIN entries : f[s] \in Custody \cup {Vacant}
      BY Zenon, <1>5, <1>6, <1>7
    <2> QED
      BY <1>4, <2>1
  <1>9. Moves(entries, f)
    <2>1. ASSUME NEW s \in DOMAIN entries PROVE f[s] = entries[s] \/ Kept(entries[s], f[s], s)
      BY Zenon, <1>5, <1>6, VacantAssumption DEF Kept, StageOK
    <2> QED
      BY <1>4, <2>1 DEF Moves
  <1>10. Yields(entries, f)
    <2>1. ASSUME NEW s \in DOMAIN entries
          PROVE  f[s] = Vacant \/ (/\ entries[s] # Vacant /\ f[s].q = entries[s].q
                                   /\ (f[s].query => entries[s].query))
      BY Zenon, <1>5, <1>6, VacantAssumption
    <2> QED
      BY <1>4, <2>1 DEF Yields
  <1> QED
    BY <1>1, <1>8, <1>9, <1>10, RowsMove

\* The export ends: every query left is disposed.
LEMMA FinishKeeps ==
    ASSUME Here, inbox \in [Rows -> [open : BOOLEAN, replies : Nat]], Finish
    PROVE  /\ RowsInv(entries', incoming, admitted, sent, delivered)
           /\ \A r \in RowsIn(entries') : ~entries'[r].query
  <1> DEFINE f == Drained(entries)
  <1>1. entries' = f /\ DOMAIN f = DOMAIN entries /\ f = [s \in DOMAIN entries |-> f[s]]
    BY ZenonT(60) DEF Finish, Drained
  <1>2. ASSUME NEW s \in DOMAIN entries
        PROVE  \/ f[s] = entries[s] /\ f[s] = Vacant
               \/ /\ entries[s] # Vacant /\ f[s] \in Custody /\ ~f[s].query
                  /\ f[s].q = entries[s].q /\ f[s].stage = entries[s].stage
                  /\ f[s].identity = entries[s].identity /\ f[s].admission = entries[s].admission
                  /\ f[s].completed = entries[s].completed
    <2>1. CASE entries[s] = Vacant
      BY <2>1 DEF Drained
    <2>2. CASE entries[s] # Vacant
      <3>1. entries[s] \in Custody /\ s \in Rows
        BY <2>2, RowFacts DEF Here, RowsIn
      <3>2. PICK tail \in Nat : f[s] = [entries[s] EXCEPT !.query = FALSE, !.tail = tail]
        BY Zenon, <2>2, <3>1 DEF Drained
      <3> HIDE DEF f
      <3>3. f[s] \in Custody
        BY ONLY ZenonT(60), <3>1, <3>2 DEF Custody
      <3>4. /\ ~f[s].query /\ f[s].q = entries[s].q /\ f[s].stage = entries[s].stage
            /\ f[s].identity = entries[s].identity /\ f[s].admission = entries[s].admission
            /\ f[s].completed = entries[s].completed
        BY ONLY <3>1, <3>2 DEF Custody
      <3> QED
        BY <2>2, <3>3, <3>4
    <2> QED
      BY <2>1, <2>2
  <1> HIDE DEF f
  <1>3. f \in [DOMAIN entries -> Custody \cup {Vacant}]
    <2>1. \A s \in DOMAIN entries : f[s] \in Custody \cup {Vacant}
      BY <1>2
    <2> QED
      BY <1>1, <2>1
  <1>4. Moves(entries, f)
    <2>1. ASSUME NEW s \in DOMAIN entries PROVE f[s] = entries[s] \/ Kept(entries[s], f[s], s)
      <3>1. entries[s] # Vacant => KeyOK(entries, s)
        BY RowFacts DEF Here, RowsIn
      <3> QED
        BY <1>2, <3>1, VacantAssumption DEF Kept, StageOK, KeyOK
    <2> QED
      BY <1>1, <2>1 DEF Moves
  <1>5. Yields(entries, f)
    <2>1. ASSUME NEW s \in DOMAIN entries
          PROVE  f[s] = Vacant \/ (/\ entries[s] # Vacant /\ f[s].q = entries[s].q
                                   /\ (f[s].query => entries[s].query))
      BY <1>2
    <2> QED
      BY <1>1, <2>1 DEF Yields
  <1>6. \A r \in RowsIn(f) : ~f[r].query
    BY <1>1, <1>2 DEF RowsIn
  <1> QED
    BY <1>1, <1>3, <1>4, <1>5, <1>6, RowsMove

\* The callback charges a query before it queues it.
LEMMA DeliverKeeps ==
    ASSUME Here, incoming \in Seq(Queries), NEW q \in Queries, Deliver(q)
    PROVE  RowsInv(entries, incoming', admitted, sent, delivered') /\ incoming' \in Seq(Queries)
  <1> DEFINE before == Charged(incoming, entries)
             after == Charged(incoming', entries)
  <1>1. /\ IsFiniteSet(delivered) /\ Queried(entries, incoming, sent, delivered)
        /\ entries \in Seq(Custody \cup {Vacant}) /\ Len(entries) <= RetainedRequests
        /\ sent \in Seq([q : Queries, from : Rows, origin : Queries])
        /\ admitted \in [Idents -> Nat] /\ Executions(entries, admitted, sent)
    BY DEF Here, RowsInv
  <1>2. /\ q \notin delivered /\ delivered' = delivered \cup {q}
        /\ \/ incoming' = incoming
           \/ /\ incoming' = Append(incoming, q)
              /\ ~(Cardinality(Charged(incoming, entries)) >= RetainedQueries)
    BY Zenon DEF Deliver, Callback, Retain
  <1>3. IsFiniteSet(delivered')
    BY <1>1, <1>2, FS_AddElement
  <1>4. CASE incoming' = incoming
    <2>1. Queried(entries, incoming', sent, delivered')
      BY Zenon, <1>1, <1>2, <1>4 DEF Queried
    <2> QED
      BY <1>1, <1>3, <1>4, <2>1 DEF RowsInv
  <1>5. CASE /\ incoming' = Append(incoming, q)
             /\ ~(Cardinality(before) >= RetainedQueries)
    <2>1. /\ incoming' \in Seq(Queries)
          /\ \A i \in DOMAIN incoming' :
                \/ i \in DOMAIN incoming /\ incoming'[i] = incoming[i]
                \/ i = Len(incoming) + 1 /\ incoming'[i] = q
      BY <1>5
    <2>2. q \notin Range(incoming) /\ \A p \in Range(incoming') : p \in Range(incoming) \cup {q}
      BY ZenonT(60), <1>1, <1>2, <2>1 DEF Queried, Range
    <2>3. ASSUME NEW i \in DOMAIN incoming', NEW j \in DOMAIN incoming', incoming'[i] = incoming'[j] PROVE i = j
      <3>1. \A k \in DOMAIN incoming : incoming[k] # q
        BY <2>2 DEF Range
      <3>2. \A k, l \in DOMAIN incoming : incoming[k] = incoming[l] => k = l
        BY <1>1 DEF Queried
      <3> QED
        BY ONLY <2>1, <2>3, <3>1, <3>2
    <2>4. Cardinality(after) <= RetainedQueries
      <3>1. \A p \in after : p \in before \cup {q}
        BY <2>2 DEF Charged
      <3>2. before \subseteq delivered
        BY <1>1, ChargedSeen
      <3> HIDE DEF before, after
      <3>3. IsFiniteSet(before)
        BY <1>1, <3>2, FS_Subset
      <3>4. q \notin before
        BY <1>2, <3>2
      <3>5. IsFiniteSet(before \cup {q}) /\ Cardinality(before \cup {q}) = Cardinality(before) + 1
        BY <3>3, <3>4, FS_AddElement
      <3>6. Cardinality(before) \in Nat /\ RetainedQueries \in Nat
        BY <3>3, FS_CardinalityType, ExportLimitsPositive
      <3>7. Cardinality(before \cup {q}) <= RetainedQueries
        BY <1>5, <3>5, <3>6 DEF before
      <3> QED
        BY ONLY <3>1, <3>5, <3>7, ChargedLess
    <2>5. Range(incoming') \subseteq delivered'
      BY ZenonT(60), <1>1, <1>2, <2>2 DEF Queried
    <2>6. \A r \in RowsIn(entries) : /\ entries[r].q \in delivered'
                                     /\ entries[r].query => entries[r].q \notin Range(incoming')
      BY ZenonT(60), <1>1, <1>2, <2>2 DEF Queried
    <2>7. \A i \in DOMAIN sent : sent[i].q \in delivered' /\ sent[i].q \notin Range(incoming')
      BY ZenonT(60), <1>1, <1>2, <2>2 DEF Queried
    <2> HIDE DEF before, after
    <2>8. Queried(entries, incoming', sent, delivered')
      BY Zenon, <1>1, <2>3, <2>4, <2>5, <2>6, <2>7 DEF Queried, after
    <2> QED
      BY <1>1, <1>3, <2>1, <2>8 DEF RowsInv
  <1> QED
    BY <1>2, <1>4, <1>5

-----------------------------------------------------------------------------
(* The inductive invariant *)

\* The invariant in terms of the rows and of the rest.
Rest ==
    /\ incoming \in Seq(Queries)
    /\ delivered \in SUBSET Queries
    /\ inbox \in [Rows -> [open : BOOLEAN, replies : Nat]]

LEMMA ExportSplit ==
    ExportInv <=> Here /\ Rest /\ Closed
  BY DEF ExportInv, ExportTypes, Here, RowsInv, Rest

LEMMA ExportSplitNext ==
    ExportInv' <=> RowsInv(entries', incoming', admitted', sent', delivered') /\ Rest' /\ Closed'
  BY DEF ExportInv, ExportTypes, RowsInv, Rest

LEMMA InitExport ==
    Init => ExportInv
  <1> SUFFICES ASSUME Init PROVE ExportInv
    OBVIOUS
  <1> USE DEF Init, ExportInit
  <1>1. RetainedQueries \in Nat /\ RetainedRequests \in Nat
    BY ExportLimitsPositive
  <1>2. ExportTypes
    <2>1. inbox \in [Rows -> [open : BOOLEAN, replies : Nat]] /\ admitted \in [Idents -> Nat]
      OBVIOUS
    <2>2. \A S : <<>> \in Seq(S) /\ Len(<<>>) = 0
      OBVIOUS
    <2>3. IsFiniteSet(delivered) /\ delivered \in SUBSET Queries
      BY FS_EmptySet
    <2>4. Len(entries) <= RetainedRequests
      BY <1>1
    <2> QED
      BY <2>1, <2>2, <2>3, <2>4, Zenon DEF ExportTypes
  <1>3. RowsIn(entries) = {} /\ Range(incoming) = {} /\ Charged(incoming, entries) = {}
    BY DEF RowsIn, Range, Charged
  <1>4. Executions(entries, admitted, sent)
    BY <1>3 DEF Executions, Unique, CountOK
  <1>5. Queried(entries, incoming, sent, delivered)
    <2>1. DOMAIN incoming = {} /\ DOMAIN sent = {}
      OBVIOUS
    <2>2. Cardinality(Charged(incoming, entries)) <= RetainedQueries
      <3>1. Cardinality({}) = 0
        BY FS_EmptySet
      <3> QED
        BY ONLY <1>1, <1>3, <3>1
    <2> QED
      BY ONLY <1>3, <2>1, <2>2 DEF Queried
  <1> QED
    BY <1>2, <1>4, <1>5 DEF ExportInv, Closed

\* The reply endpoints stay typed.
LEMMA InboxKeeps ==
    ASSUME inbox \in [Rows -> [open : BOOLEAN, replies : Nat]], NEW r \in Rows,
           \/ inbox' = inbox
           \/ \E b \in BOOLEAN : inbox' = [inbox EXCEPT ![r].open = b]
           \/ inbox[r].replies > 0 /\ inbox' = [inbox EXCEPT ![r].replies = @ - 1]
           \/ inbox' = [inbox EXCEPT ![r].replies = @ + 1]
    PROVE  inbox' \in [Rows -> [open : BOOLEAN, replies : Nat]]
  OBVIOUS

\* A step of the rows that leaves the queue and the phase alone keeps the invariant.
LEMMA RowsOnly ==
    ASSUME ExportInv, RowsInv(entries', incoming, admitted', sent', delivered),
           phase # "ended", UNCHANGED <<incoming, open, phase, delivered>>,
           inbox' \in [Rows -> [open : BOOLEAN, replies : Nat]]
    PROVE  ExportInv'
  <1>1. Rest /\ Closed
    BY ExportSplit
  <1>2. Rest' /\ Closed'
    BY <1>1 DEF Rest, Closed
  <1>3. incoming' = incoming /\ delivered' = delivered
    OBVIOUS
  <1>4. RowsInv(entries', incoming', admitted', sent', delivered')
    BY <1>3
  <1> QED
    BY <1>2, <1>4, ExportSplitNext

\* The steps of the request futures.
LEMMA RequestStep ==
    ASSUME ExportInv, UNCHANGED delivered, NEW r \in Rows,
           \/ Cancel(r) \/ Start(r) \/ Full(r) \/ ReceiveReply(r) \/ ReceiveStop(r)
           \/ \E out \in Provided("verification") : Verified(r, out)
           \/ \E out \in Provided("protection") : Protected(r, out)
    PROVE  ExportInv'
  <1>1. Here /\ inbox \in [Rows -> [open : BOOLEAN, replies : Nat]]
    BY ExportSplit DEF Rest
  <1>2. CASE Cancel(r)
    <2>1. admitted' = admitted /\ inbox' = inbox /\ phase # "ended" /\ UNCHANGED <<incoming, open, phase>>
      BY Zenon, <1>2 DEF Cancel, native, target, At, Polled
    <2> QED
      BY <1>1, <1>2, <2>1, CancelKeeps, RowsOnly
  <1>3. CASE Start(r)
    <2>1. admitted' = admitted /\ inbox' = inbox /\ phase # "ended" /\ UNCHANGED <<incoming, open, phase>>
      BY <1>3 DEF Start, native, target, At, Polled
    <2> QED
      BY <1>1, <1>3, <2>1, StartKeeps, RowsOnly
  <1>4. CASE Full(r)
    <2>1. inbox' = inbox /\ phase # "ended" /\ UNCHANGED <<incoming, open, phase>>
      BY <1>4 DEF Full, native, At, Polled
    <2> QED
      BY <1>1, <1>4, <2>1, FullKeeps, RowsOnly
  <1>5. CASE ReceiveReply(r)
    <2>1. admitted' = admitted /\ phase # "ended" /\ UNCHANGED <<incoming, open, phase>>
      BY <1>5 DEF ReceiveReply, native, At, Polled
    <2>2. \/ inbox[r].replies > 0 /\ inbox' = [inbox EXCEPT ![r].replies = @ - 1]
          \/ inbox' = [inbox EXCEPT ![r].open = FALSE]
      BY <1>5 DEF ReceiveReply
    <2>3. inbox' \in [Rows -> [open : BOOLEAN, replies : Nat]]
      BY ZenonT(60), <1>1, <2>2, InboxKeeps
    <2> QED
      BY <1>1, <1>5, <2>1, <2>3, ReceiveKeeps, RowsOnly
  <1>6. CASE ReceiveStop(r)
    <2>1. admitted' = admitted /\ inbox' = inbox /\ phase # "ended" /\ UNCHANGED <<incoming, open, phase>>
      BY <1>6 DEF ReceiveStop, native, target, At, Polled
    <2> QED
      BY <1>1, <1>6, <2>1, ReceiveKeeps, RowsOnly
  <1>7. ASSUME NEW out \in Provided("verification"), Verified(r, out) PROVE ExportInv'
    <2>1. phase # "ended" /\ UNCHANGED <<incoming, open, phase>>
      BY Zenon, <1>7 DEF Verified, native, At, Polled
    <2>2. inbox' = inbox \/ \E row : inbox' = [inbox EXCEPT ![r].open = Op(row.q) = "reply"]
      BY <1>7, Zenon DEF Verified, Select, Execute, target
    <2>3. inbox' = inbox \/ \E b \in BOOLEAN : inbox' = [inbox EXCEPT ![r].open = b]
      <3>1. \A row : (Op(row.q) = "reply") \in BOOLEAN
        OBVIOUS
      <3> QED
        BY ZenonT(60), <2>2, <3>1
    <2>4. inbox' \in [Rows -> [open : BOOLEAN, replies : Nat]]
      BY <1>1, <2>3, InboxKeeps
    <2> QED
      BY <1>1, <1>7, <2>1, <2>4, VerifiedKeeps, RowsOnly
  <1>8. ASSUME NEW out \in Provided("protection"), Protected(r, out) PROVE ExportInv'
    <2>1. admitted' = admitted /\ inbox' = inbox /\ phase # "ended" /\ UNCHANGED <<incoming, open, phase>>
      BY Zenon, <1>8 DEF Protected, native, target, At, Polled
    <2> QED
      BY <1>1, <1>8, <2>1, ProtectedKeeps, RowsOnly
  <1> QED
    BY <1>2, <1>3, <1>4, <1>5, <1>6, <1>7, <1>8

\* Every step keeps the invariant.
LEMMA ExportStep ==
    ExportInv /\ [Next]_vars => ExportInv'
  <1> SUFFICES ASSUME ExportInv, [Next]_vars PROVE ExportInv'
    OBVIOUS
  <1>1. Here /\ Rest /\ Closed
    BY ExportSplit
  <1>2. ASSUME NEW q \in Queries, Deliver(q) PROVE ExportInv'
    <2>1. UNCHANGED <<open, entries, phase, inbox, admitted, sent>> /\ delivered' = delivered \cup {q}
      BY <1>2 DEF Deliver, Callback, target
    <2>2. RowsInv(entries, incoming', admitted, sent, delivered') /\ incoming' \in Seq(Queries)
      BY <1>1, <1>2, DeliverKeeps DEF Rest
    <2>3. Rest'
      BY <1>1, <2>1, <2>2 DEF Rest
    <2>4. ~open => incoming' = incoming
      BY <1>2 DEF Deliver, Callback, Retain
    <2>5. Closed'
      BY <1>1, <2>1, <2>4 DEF Closed, RowsIn
    <2> QED
      BY <2>1, <2>2, <2>3, <2>5, ExportSplitNext
  <1>3. CASE Declare /\ UNCHANGED delivered
    <2>1. /\ UNCHANGED <<incoming, entries, inbox, admitted, sent, delivered>>
          /\ phase = "cold" /\ (phase' = "serving" \/ (phase' = "withdraw" /\ open' = open))
      BY <1>3 DEF Declare, target
    <2>2. RowsInv(entries', incoming', admitted', sent', delivered')
      BY <1>1, <2>1 DEF Here
    <2>3. Rest' /\ Closed'
      BY <1>1, <2>1 DEF Rest, Closed
    <2> QED
      BY <2>2, <2>3, ExportSplitNext
  <1>4. CASE Accept /\ UNCHANGED delivered
    <2>1. UNCHANGED <<open, phase, inbox, admitted, sent, delivered>> /\ phase = "serving"
      BY <1>4 DEF Accept, target
    <2>2. RowsInv(entries', incoming', admitted, sent, delivered) /\ incoming' \in Seq(Queries)
      BY <1>1, <1>4, AcceptKeeps DEF Rest
    <2>3. Rest' /\ Closed'
      BY <1>1, <2>1, <2>2 DEF Rest, Closed
    <2> QED
      BY <2>1, <2>2, <2>3, ExportSplitNext
  <1>5. CASE (Join \/ Undeclared) /\ UNCHANGED delivered
    <2>1. /\ UNCHANGED <<entries, inbox, admitted, sent, delivered>>
          /\ \/ phase' = "undeclaring" /\ incoming' = incoming
             \/ phase' = "draining" /\ ~open' /\ incoming' = <<>>
      BY <1>5 DEF Join, Undeclared, target, native
    <2>2. RowsInv(entries, incoming', admitted, sent, delivered)
      <3>1. Moves(entries, entries) /\ Yields(entries, entries)
        BY DEF Moves, Yields
      <3>2. entries \in [DOMAIN entries -> Custody \cup {Vacant}]
        BY <1>1 DEF Here, RowsInv
      <3> QED
        BY <1>1, <2>1, <3>1, <3>2, RowsMove
    <2>3. Rest'
      <3>1. incoming' = incoming \/ incoming' = <<>>
        BY <2>1
      <3>2. incoming' \in Seq(Queries)
        <4>1. incoming \in Seq(Queries) /\ <<>> \in Seq(Queries)
          BY <1>1 DEF Rest
        <4> QED
          BY ONLY ZenonT(60), <3>1, <4>1
      <3>3. inbox' = inbox /\ delivered' = delivered
        BY <2>1
      <3> QED
        BY ONLY <1>1, <3>2, <3>3 DEF Rest
    <2>4. Closed'
      BY <1>1, <2>1 DEF Closed
    <2> QED
      BY <2>1, <2>2, <2>3, <2>4, ExportSplitNext
  <1>6. CASE Finish /\ UNCHANGED delivered
    <2>1. /\ UNCHANGED <<incoming, open, admitted, sent, delivered>> /\ phase \in {"draining", "withdraw"}
          /\ phase' = "ended" /\ inbox' = [r \in Rows |-> [open |-> FALSE, replies |-> 0]]
      BY <1>6 DEF Finish
    <2>2. /\ RowsInv(entries', incoming, admitted, sent, delivered)
          /\ \A r \in RowsIn(entries') : ~entries'[r].query
      BY <1>1, <1>6, FinishKeeps DEF Rest
    <2>3. Rest'
      BY <1>1, <2>1 DEF Rest
    <2>4. Closed'
      BY Zenon, <1>1, <2>1, <2>2 DEF Closed, RowsIn
    <2> QED
      BY <2>1, <2>2, <2>3, <2>4, ExportSplitNext
  <1>7. ASSUME NEW r \in Rows, Escape(r), UNCHANGED delivered PROVE ExportInv'
    <2>1. UNCHANGED <<inbox, admitted, sent, delivered>> /\ phase' = "withdraw" /\ ~open' /\ incoming' = <<>>
      BY <1>7 DEF Escape, target
    <2>2. RowsInv(entries', <<>>, admitted, sent, delivered)
      BY <1>1, <1>7, EscapeKeeps
    <2>3. Rest' /\ Closed'
      BY <1>1, <2>1 DEF Rest, Closed
    <2> QED
      BY <2>1, <2>2, <2>3, ExportSplitNext
  <1>8. ASSUME Take \/ Retire \/ End \/ \E r \in Rows : Answer(r), UNCHANGED delivered PROVE ExportInv'
    <2>1. UNCHANGED <<incoming, open, entries, phase, admitted, sent, delivered>>
      BY <1>8 DEF Take, Retire, End, Answer, native
    <2>2. inbox' = inbox \/ \E r \in Rows : inbox' = [inbox EXCEPT ![r].replies = @ + 1]
      BY <1>8 DEF Take, Retire, End, Answer
    <2>3. inbox' \in [Rows -> [open : BOOLEAN, replies : Nat]]
      BY <1>1, <2>2, InboxKeeps DEF Rest
    <2>4. RowsInv(entries', incoming', admitted', sent', delivered')
      BY <1>1, <2>1 DEF Here
    <2>5. Rest' /\ Closed'
      BY <1>1, <2>1, <2>3 DEF Rest, Closed
    <2> QED
      BY <2>4, <2>5, ExportSplitNext
  <1>9. CASE UNCHANGED vars
    <2>1. UNCHANGED <<incoming, open, entries, phase, inbox, admitted, sent, delivered>>
      BY <1>9 DEF vars, exportVars
    <2>2. RowsInv(entries', incoming', admitted', sent', delivered')
      BY <1>1, <2>1 DEF Here
    <2>3. Rest' /\ Closed'
      BY <1>1, <2>1 DEF Rest, Closed
    <2> QED
      BY <2>2, <2>3, ExportSplitNext
  <1>10. CASE Poll /\ UNCHANGED delivered
    BY <1>4, <1>5, <1>6, <1>10, RequestStep, Zenon DEF Poll
  <1>11. CASE Provides /\ UNCHANGED delivered
    BY <1>11, RequestStep, Zenon DEF Provides
  <1> QED
    BY <1>2, <1>3, <1>7, <1>8, <1>9, <1>10, <1>11, Zenon DEF Next, Host, Escapes

\* The invariant holds in every reachable state.
LEMMA ExportAlways ==
    Spec => []ExportInv
  BY InitExport, ExportStep, PTL DEF Spec

-----------------------------------------------------------------------------
(* The theorems *)

\* However often a request is repeated, at most one command of it is admitted,
\* every key names the canonical row of its own request and bytes, and every
\* published reply was made by that row after it completed: for any number of
\* queries and rows, any limits, and any faults of the callers (query.rs
\* request, publish and discharge; declaration.rs prepare_attempt).
THEOREM ExecutionOnce ==
    Spec => []OneExecution
  <1>1. ExportInv => OneExecution
    <2> SUFFICES ASSUME ExportInv PROVE OneExecution
      OBVIOUS
    <2>1. Executions(entries, admitted, sent) /\ admitted \in [Idents -> Nat]
      BY DEF ExportInv, ExportTypes
    <2>2. Occupied = RowsIn(entries)
      BY DEF Occupied, RowsIn
    <2>3. \A i \in Idents : admitted[i] <= 1
      <3> SUFFICES ASSUME NEW i \in Idents PROVE admitted[i] <= 1
        OBVIOUS
      <3>1. LET rows == {k \in RowsIn(entries) : Canonical(entries, k) /\ Ident[entries[k].q] = i}
            IN  /\ rows = {} => admitted[i] = 0
                /\ \A k \in rows : admitted[i] = IF entries[k].admission = "Ok" THEN 1 ELSE 0
        BY ZenonT(60), <2>1 DEF Executions, CountOK
      <3> QED
        BY <3>1
    <2>4. ASSUME NEW r \in Occupied, entries[r].identity # 0
          PROVE  LET k == entries[r].identity
                 IN  /\ k \in Occupied /\ Canonical(entries, k)
                     /\ Ident[entries[k].q] = Ident[entries[r].q]
                     /\ Bytes[entries[k].q] = Bytes[entries[r].q]
      <3>1. KeyOK(entries, r)
        BY <2>1, <2>2 DEF Executions
      <3> QED
        BY <2>2, <2>4, <3>1 DEF KeyOK, Same, Canonical, Occupied
    <2>5. \A i \in DOMAIN sent :
             /\ Ident[sent[i].origin] = Ident[sent[i].q] /\ Bytes[sent[i].origin] = Bytes[sent[i].q]
             /\ sent[i].from \in Occupied
             /\ entries[sent[i].from].q = sent[i].origin /\ entries[sent[i].from].completed
      BY ZenonT(60), <2>1, <2>2 DEF Executions, ReplyOK, Same
    <2> QED
      BY <2>3, <2>4, <2>5 DEF OneExecution
  <1> QED
    BY <1>1, ExportAlways, PTL

\* No more queries are charged than the limit, each is in one place, none is
\* answered twice, and none is left when the export has ended (query.rs publish
\* and drain; ingress.rs try_retain).
THEOREM QueriesKept ==
    Spec => []QueryCustody
  <1>1. ExportInv => QueryCustody
    <2> SUFFICES ASSUME ExportInv PROVE QueryCustody
      OBVIOUS
    <2>1. Queried(entries, incoming, sent, delivered) /\ Closed
      BY DEF ExportInv
    <2>2. Occupied = RowsIn(entries)
      BY DEF Occupied, RowsIn
    <2>3. phase = "ended" => Charged(incoming, entries) = {}
      BY <2>1 DEF Closed, Charged, RowsIn, Range
    <2> QED
      BY <2>1, <2>2, <2>3 DEF QueryCustody, Queried
  <1> QED
    BY <1>1, ExportAlways, PTL
=============================================================================
