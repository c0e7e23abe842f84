----------------------- MODULE ObservationSpaceProofs -----------------------
(***************************************************************************)
(* Proofs about the observation namespace of observe/mod.rs: recycled      *)
(* slots and reused keys never let one generation reach another's outcome, *)
(* row or disposal.                                                        *)
(***************************************************************************)
EXTENDS ObservationSpace, FiniteSetTheorems, TLAPS

\* A leaf that names no prover is tried with SMT, then Zenon, then SMT twice more with more time.
USE SMTT(20), Zenon, SMTT(40), SMTT(60)

SlotRecords ==
    [completed : BOOLEAN, valid : BOOLEAN, outcome : Generations \cup {Nothing},
     waiters : SUBSET Generations]

SubjectRecords ==
    [key : Keys \cup {Nothing}, slot : Slots \cup {Nothing},
     phase : {"unborn", "live", "retiring", "dropped"}]

ObsRecords == [slot : Slots \cup {Nothing}, generation : Generations \cup {Nothing}]

\* The table is inline, with no row twice, or promoted.
TableOK(table) ==
    \/ /\ table = Inline(table.rows)
       /\ table.rows \in Seq(Keys \X Generations)
       /\ \A i, j \in DOMAIN table.rows : table.rows[i] = table.rows[j] => i = j
    \/ table = Hashed(table.rows)

LiveRows(sub) == {<<sub[g].key, g>> : g \in {h \in Generations : sub[h].phase = "live"}}

\* The generation that took a slot last.
Current(sub, g, s) ==
    /\ g \in Generations /\ sub[g].slot = s
    /\ \A h \in Generations : sub[h].slot = s => h <= g

\* What was handed out: nothing from n on, and one live subject for each key,
\* the last to take its slot.
SubjectsOK(sub, n) ==
    /\ n \in Nat /\ n >= 1 /\ sub \in [Generations -> SubjectRecords]
    /\ \A g \in Generations :
        /\ g >= n => sub[g] = NoSubject
        /\ sub[g] # NoSubject => sub[g].key \in Keys /\ sub[g].slot \in Slots /\ sub[g].slot < n
        /\ sub[g].phase \in {"live", "retiring", "dropped"} => sub[g] # NoSubject
        /\ sub[g].phase = "live" => Current(sub, g, sub[g].slot)
    /\ \A g, h \in Generations :
        sub[g].phase = "live" /\ sub[h].phase = "live" /\ sub[g].key = sub[h].key => g = h

\* An observation captured the last generation of its slot.
ObsOK(sub, ob) ==
    /\ ob \in [Handles -> ObsRecords]
    /\ \A o \in Handles : ob[o] = NoHandle
                          \/ (ob[o].slot \in Slots /\ Current(sub, ob[o].generation, ob[o].slot))

\* Neither an observation nor a live subject reaches the slot.
Unused(sub, ob, s) ==
    /\ \A o \in Handles : ob[o].slot # s
    /\ \A g \in Generations : sub[g].slot = s => sub[g].phase # "live"

PoolOK(sub, ob, po, n) ==
    /\ po \subseteq Slots /\ IsFiniteSet(po) /\ Cardinality(po) <= PoolCap
    /\ \A s \in po : s < n /\ Unused(sub, ob, s)

Reached(sub, ob, po, s) ==
    \/ s \in po
    \/ \E g \in Generations : sub[g].slot = s /\ sub[g].phase \in Held
    \/ \E o \in Handles : ob[o].slot = s

\* What a slot holds belongs to its last generation.
SlotOK(sub, ob, po, cell, s, n, dis) ==
    /\ cell \in SlotRecords
    /\ s >= n => cell = Pristine
    /\ \A r \in cell.waiters : Current(sub, r, s)
    /\ cell.completed => Current(sub, cell.outcome, s)
    /\ cell.valid => cell.completed /\ dis[cell.outcome] = 0 /\ Reached(sub, ob, po, s)
    /\ cell.completed /\ ~cell.valid => s \notin po /\ Unused(sub, ob, s)

DisposedOK(sub, sl, n, dis) ==
    /\ dis \in [Generations -> {0, 1}]
    /\ \A g \in Generations : dis[g] # 0 =>
         g < n /\ (sub[g].phase = "live" => sl[sub[g].slot].completed)

Exact(used) == \A use \in used : use[1] = use[2]

\* The inductive invariant.
SpaceInv ==
    /\ TableOK(map) /\ RowsOf(map) = LiveRows(subjects)
    /\ SubjectsOK(subjects, next) /\ ObsOK(subjects, obs) /\ PoolOK(subjects, obs, pool, next)
    /\ slots \in [Slots -> SlotRecords]
    /\ \A s \in Slots : SlotOK(subjects, obs, pool, slots[s], s, next, disposed)
    /\ DisposedOK(subjects, slots, next, disposed)
    /\ Exact(uses)

-----------------------------------------------------------------------------
(* The key table *)

LEMMA RowsInline ==
    ASSUME NEW rows
    PROVE  /\ RowsOf(Inline(rows)) = {rows[i] : i \in DOMAIN rows} /\ Inline(rows).rows = rows
           /\ Inline(rows).inline
  BY DEF RowsOf, Inline

LEMMA RowsHashed ==
    ASSUME NEW rows
    PROVE  RowsOf(Hashed(rows)) = rows /\ Hashed(rows).rows = rows /\ ~Hashed(rows).inline
  BY DEF RowsOf, Hashed

\* insert_vacant adds the row, and no other.
LEMMA InsertRows ==
    ASSUME NEW table, TableOK(table), NEW row \in Keys \X Generations, row \notin RowsOf(table)
    PROVE  /\ TableOK(InsertVacant(table, row))
           /\ RowsOf(InsertVacant(table, row)) = RowsOf(table) \cup {row}
  <1>1. CASE ~table.inline \/ Len(table.rows) >= InlineCap
    <2>1. InsertVacant(table, row) = Hashed(RowsOf(table) \cup {row})
      BY <1>1 DEF InsertVacant
    <2> QED
      BY <2>1, RowsHashed DEF TableOK
  <1>2. CASE ~(~table.inline \/ Len(table.rows) >= InlineCap)
    <2> DEFINE old == table.rows
               new == Append(old, row)
    <2>1. /\ table = Inline(old) /\ old \in Seq(Keys \X Generations)
          /\ \A i, j \in DOMAIN old : old[i] = old[j] => i = j
      BY <1>2, RowsHashed DEF TableOK
    <2>2. InsertVacant(table, row) = Inline(new)
      BY <1>2 DEF InsertVacant
    <2>3. PICK S : S = Keys \X Generations
      BY Zenon
    <2>4. /\ new \in Seq(S) /\ DOMAIN new = DOMAIN old \cup {Len(old) + 1} /\ new[Len(old) + 1] = row
          /\ Len(old) + 1 \notin DOMAIN old /\ \A i \in DOMAIN old : new[i] = old[i]
      <3>1. old \in Seq(S) /\ row \in S
        BY <2>1, <2>3
      <3> HIDE DEF old
      <3> QED
        BY ONLY <3>1
    <2>5. RowsOf(table) = {old[i] : i \in DOMAIN old}
      BY <2>1, RowsInline
    <2> HIDE DEF new, old
    <2>6. \A i, j \in DOMAIN new : new[i] = new[j] => i = j
      BY <2>1, <2>4, <2>5
    <2>7. {new[i] : i \in DOMAIN new} = RowsOf(table) \cup {row}
      BY <2>4, <2>5
    <2> QED
      BY <2>2, <2>3, <2>4, <2>6, <2>7, RowsInline DEF TableOK
  <1> QED
    BY <1>1, <1>2

\* swap_remove leaves the other rows.
LEMMA SwapRemove ==
    ASSUME NEW S, NEW rows \in Seq(S), \A i, j \in DOMAIN rows : rows[i] = rows[j] => i = j,
           NEW i \in DOMAIN rows
    PROVE  /\ RemoveAt(rows, i) \in Seq(S)
           /\ \A j, k \in DOMAIN RemoveAt(rows, i) : RemoveAt(rows, i)[j] = RemoveAt(rows, i)[k] => j = k
           /\ {RemoveAt(rows, i)[j] : j \in DOMAIN RemoveAt(rows, i)} = {rows[j] : j \in DOMAIN rows} \ {rows[i]}
  <1> DEFINE n == Len(rows)
             swapped == [rows EXCEPT ![i] = rows[n]]
             rest == SubSeq(swapped, 1, n - 1)
  <1>1. n \in Nat /\ n >= 1 /\ DOMAIN rows = 1 .. n /\ i \in 1 .. n /\ n \in DOMAIN rows
    OBVIOUS
  <1>2. /\ swapped \in Seq(S) /\ Len(swapped) = n
        /\ \A j \in 1 .. n : swapped[j] = IF j = i THEN rows[n] ELSE rows[j]
    OBVIOUS
  <1> HIDE DEF n, swapped
  <1>3. /\ rest \in Seq(S) /\ DOMAIN rest = 1 .. n - 1
        /\ \A j \in 1 .. n - 1 : rest[j] = swapped[j]
    BY ONLY <1>1, <1>2
  <1>4. RemoveAt(rows, i) = rest
    BY DEF RemoveAt, n, swapped
  <1> HIDE DEF rest
  <1>5. \A j \in DOMAIN rest : j \in 1 .. n /\ j # n /\ rest[j] = IF j = i THEN rows[n] ELSE rows[j]
    BY <1>1, <1>2, <1>3
  <1>6. \A j, k \in DOMAIN rest : rest[j] = rest[k] => j = k
    BY <1>1, <1>5
  <1>7. ASSUME NEW j \in DOMAIN rest PROVE rest[j] \in {rows[k] : k \in DOMAIN rows} \ {rows[i]}
    <2>1. CASE j = i
      <3>1. rest[j] = rows[n] /\ n # i
        BY <1>5, <2>1
      <3> QED
        BY <1>1, <3>1
    <2>2. CASE j # i
      <3>1. rest[j] = rows[j] /\ j \in DOMAIN rows
        BY <1>1, <1>5, <2>2
      <3> QED
        BY <2>2, <3>1
    <2> QED
      BY <2>1, <2>2
  <1>8. ASSUME NEW k \in DOMAIN rows, rows[k] # rows[i] PROVE \E j \in DOMAIN rest : rest[j] = rows[k]
    <2>1. CASE k = n
      <3>1. i \in DOMAIN rest
        BY <1>1, <1>3, <1>8, <2>1
      <3> QED
        BY <1>5, <2>1, <3>1
    <2>2. CASE k # n
      <3>1. k \in DOMAIN rest
        BY <1>1, <1>3, <2>2
      <3> QED
        BY <1>5, <1>8, <3>1
    <2> QED
      BY <2>1, <2>2
  <1>9. {rest[j] : j \in DOMAIN rest} = {rows[j] : j \in DOMAIN rows} \ {rows[i]}
    BY <1>7, <1>8
  <1> QED
    BY ONLY ZenonT(60), <1>3, <1>4, <1>6, <1>9

\* remove_if takes the row away, and no other.
LEMMA RemoveRows ==
    ASSUME NEW table, TableOK(table), NEW row, row \in RowsOf(table)
    PROVE  /\ TableOK(RemoveRow(table, row))
           /\ RowsOf(RemoveRow(table, row)) = RowsOf(table) \ {row}
  <1>1. CASE ~table.inline
    <2>1. table = Hashed(table.rows)
      BY <1>1, RowsInline DEF TableOK
    <2>2. RemoveRow(table, row) = Hashed(table.rows \ {row}) /\ RowsOf(table) = table.rows
      BY <1>1, <2>1, RowsHashed DEF RemoveRow
    <2> QED
      BY <2>2, RowsHashed DEF TableOK
  <1>2. CASE table.inline
    <2> DEFINE rows == table.rows
               i == CHOOSE j \in DOMAIN rows : rows[j] = row
    <2>1. /\ table = Inline(rows) /\ rows \in Seq(Keys \X Generations)
          /\ \A j, k \in DOMAIN rows : rows[j] = rows[k] => j = k
      BY <1>2, RowsHashed DEF TableOK
    <2>2. RowsOf(table) = {rows[j] : j \in DOMAIN rows}
      BY <2>1, RowsInline
    <2>3. \E j \in DOMAIN rows : rows[j] = row
      BY <2>2
    <2>4. i \in DOMAIN rows /\ rows[i] = row
      BY <2>3
    <2>5. RemoveRow(table, row) = Inline(RemoveAt(rows, i))
      BY <1>2 DEF RemoveRow
    <2> HIDE DEF rows, i
    <2>6. /\ RemoveAt(rows, i) \in Seq(Keys \X Generations)
          /\ \A j, k \in DOMAIN RemoveAt(rows, i) : RemoveAt(rows, i)[j] = RemoveAt(rows, i)[k] => j = k
          /\ {RemoveAt(rows, i)[j] : j \in DOMAIN RemoveAt(rows, i)} = {rows[j] : j \in DOMAIN rows} \ {rows[i]}
      BY Zenon, <2>1, <2>4, SwapRemove
    <2>7. TableOK(Inline(RemoveAt(rows, i)))
      BY <2>6, RowsInline DEF TableOK
    <2> QED
      BY Zenon, <2>2, <2>4, <2>5, <2>6, <2>7, RowsInline
  <1> QED
    BY <1>1, <1>2

\* The table finds the live subject of a key, and only that.
LEMMA GetLive ==
    ASSUME RowsOf(map) = LiveRows(subjects), SubjectsOK(subjects, next),
           NEW g \in Generations, subjects[g].phase = "live"
    PROVE  Get(subjects[g].key) = g /\ ~Vacant(subjects[g].key)
  <1> DEFINE k == subjects[g].key
             rows == {row \in RowsOf(map) : row[1] = k}
  <1>1. <<k, g>> \in rows
    BY DEF LiveRows
  <1>2. ASSUME NEW row \in rows PROVE row = <<k, g>>
    <2>1. PICK h \in Generations : subjects[h].phase = "live" /\ row = <<subjects[h].key, h>>
      BY DEF LiveRows
    <2>2. subjects[h].key = k
      BY <2>1
    <2>3. h = g
      BY <2>1, <2>2 DEF SubjectsOK
    <2> QED
      BY <2>1, <2>2, <2>3
  <1>3. (CHOOSE row \in rows : TRUE) = <<k, g>>
    BY <1>1, <1>2
  <1>4. Get(k) = g
    <2>1. rows # {}
      BY <1>1
    <2>2. PICK row : row = (CHOOSE r \in rows : TRUE)
      OBVIOUS
    <2>3. Get(k) = row[2]
      BY <2>1, <2>2, Zenon DEF Get
    <2>4. row = <<k, g>>
      BY ONLY <1>3, <2>2, Zenon
    <2> QED
      BY ONLY <2>3, <2>4
  <1>5. g # Nothing
    BY NothingAssumption
  <1> QED
    BY <1>4, <1>5 DEF Vacant

LEMMA GetSome ==
    ASSUME RowsOf(map) = LiveRows(subjects), NEW k \in Keys, ~Vacant(k)
    PROVE  Get(k) \in Generations /\ subjects[Get(k)].phase = "live" /\ subjects[Get(k)].key = k
  <1> DEFINE rows == {row \in RowsOf(map) : row[1] = k}
             row == CHOOSE r \in rows : TRUE
  <1>1. rows # {} /\ Get(k) = row[2]
    BY DEF Vacant, Get
  <1>2. row \in rows
    BY <1>1
  <1> HIDE DEF row
  <1> QED
    BY <1>1, <1>2 DEF LiveRows

-----------------------------------------------------------------------------
(* Subjects, slots and observations *)

LEMMA SlotNumbers ==
    /\ Slots = Generations /\ Nothing \notin Slots /\ \A g \in Generations : g \in Nat /\ g >= 1
  BY NothingAssumption, MaxGenerationAssumption DEF Slots, Generations

\* The last generation of a slot is one.
LEMMA CurrentOne ==
    ASSUME NEW sub, NEW s, NEW g, NEW h, Current(sub, g, s), Current(sub, h, s)
    PROVE  g = h
  <1>1. g \in Nat /\ h \in Nat /\ g <= h /\ h <= g
    BY SlotNumbers DEF Current
  <1> QED
    BY ONLY <1>1

\* A generation is the last of one slot at most.
LEMMA CurrentSlot ==
    ASSUME NEW sub, NEW s, NEW t, NEW g, Current(sub, g, s), Current(sub, g, t)
    PROVE  s = t
  BY DEF Current

\* The facts of one subject.
LEMMA SubjectFacts ==
    ASSUME NEW sub, NEW n, SubjectsOK(sub, n), NEW g \in Generations
    PROVE  /\ sub[g] \in SubjectRecords /\ (g >= n => sub[g] = NoSubject)
           /\ sub[g].phase \in Held \cup {"dropped"} =>
                sub[g].key \in Keys /\ sub[g].slot \in Slots /\ sub[g].slot < n /\ g < n /\ sub[g] # NoSubject
           /\ sub[g].phase = "live" => Current(sub, g, sub[g].slot)
           /\ sub[g].slot \in Slots => sub[g].slot < n /\ g < n /\ sub[g] # NoSubject
  <1>1. sub[g] \in SubjectRecords /\ n \in Nat /\ g \in Nat
    BY SlotNumbers DEF SubjectsOK
  <1>2. /\ g >= n => sub[g] = NoSubject
        /\ sub[g] # NoSubject => sub[g].key \in Keys /\ sub[g].slot \in Slots /\ sub[g].slot < n
        /\ sub[g].phase \in {"live", "retiring", "dropped"} => sub[g] # NoSubject
        /\ sub[g].phase = "live" => Current(sub, g, sub[g].slot)
    BY DEF SubjectsOK
  <1>3. sub[g].slot \in Slots => sub[g] # NoSubject
    BY SlotNumbers DEF NoSubject
  <1>4. sub[g] # NoSubject => g < n
    BY <1>1, <1>2
  <1> QED
    BY <1>1, <1>2, <1>3, <1>4 DEF Held

\* The current generation of a slot was handed out.
LEMMA CurrentOld ==
    ASSUME NEW sub, NEW n, SubjectsOK(sub, n), NEW g, NEW s \in Slots, Current(sub, g, s)
    PROVE  g \in Generations /\ g < n /\ sub[g].slot = s /\ s < n
  <1>1. g \in Generations /\ sub[g].slot = s
    BY DEF Current
  <1> QED
    BY <1>1, SubjectFacts

\* A new subject takes a slot that no observation and no live subject uses.
Born(sub, n, k, s) == [sub EXCEPT ![n] = [key |-> k, slot |-> s, phase |-> "live"]]

LEMMA BornAt ==
    ASSUME NEW sub, NEW n \in Generations, SubjectsOK(sub, n), NEW k \in Keys, NEW s \in Slots
    PROVE  /\ Born(sub, n, k, s) \in [Generations -> SubjectRecords] /\ sub[n] = NoSubject
           /\ Born(sub, n, k, s)[n] = [key |-> k, slot |-> s, phase |-> "live"]
           /\ \A g \in Generations : g # n => Born(sub, n, k, s)[g] = sub[g]
  <1>1. sub \in [Generations -> SubjectRecords]
    BY DEF SubjectsOK
  <1>2. [key |-> k, slot |-> s, phase |-> "live"] \in SubjectRecords
    BY DEF SubjectRecords
  <1>3. sub[n] = NoSubject
    BY SlotNumbers DEF SubjectsOK
  <1> QED
    BY <1>1, <1>2, <1>3 DEF Born

\* The generations of the other slots stay, and the new one is the last of its own.
LEMMA BornCurrent ==
    ASSUME NEW sub, NEW n \in Generations, SubjectsOK(sub, n), NEW k \in Keys, NEW s \in Slots
    PROVE  /\ Current(Born(sub, n, k, s), n, s)
           /\ \A t \in Slots : \A g : t # s /\ Current(sub, g, t) => Current(Born(sub, n, k, s), g, t)
  <1> DEFINE new == Born(sub, n, k, s)
  <1>0. /\ new[n] = [key |-> k, slot |-> s, phase |-> "live"] /\ sub[n] = NoSubject
        /\ \A g \in Generations : g # n => new[g] = sub[g]
    BY BornAt
  <1> HIDE DEF new
  <1>1. /\ new[n].slot = s /\ sub[n] = NoSubject
        /\ \A g \in Generations : g # n => new[g] = sub[g]
    BY <1>0
  <1>2. Current(new, n, s)
    <2>1. ASSUME NEW h \in Generations, new[h].slot = s PROVE h <= n
      <3>1. CASE h = n
        BY <3>1, SlotNumbers
      <3>2. CASE h # n
        <4>1. sub[h].slot \in Slots
          BY <1>1, <2>1, <3>2
        <4>2. h < n
          BY <4>1, SubjectFacts
        <4> QED
          BY <4>2, SlotNumbers
      <3> QED
        BY <3>1, <3>2
    <2> QED
      BY <1>1, <2>1 DEF Current
  <1>3. ASSUME NEW t \in Slots, NEW g, t # s, Current(sub, g, t) PROVE Current(new, g, t)
    <2>1. g # n
      BY <1>1, <1>3, SlotNumbers DEF Current, NoSubject
    <2>2. \A h \in Generations : new[h].slot = t => sub[h].slot = t
      BY <1>1, <1>3
    <2> QED
      BY <1>1, <1>3, <2>1, <2>2 DEF Current
  <1> QED
    BY <1>2, <1>3 DEF new

LEMMA BornSubjects ==
    ASSUME NEW sub, NEW n \in Generations, SubjectsOK(sub, n), NEW k \in Keys, NEW s \in Slots, s <= n,
           \A g \in Generations : sub[g].phase = "live" => sub[g].key # k /\ sub[g].slot # s
    PROVE  SubjectsOK(Born(sub, n, k, s), n + 1)
  <1> DEFINE new == Born(sub, n, k, s)
             row == [key |-> k, slot |-> s, phase |-> "live"]
  <1>1. /\ new \in [Generations -> SubjectRecords] /\ sub[n] = NoSubject /\ new[n] = row
        /\ \A g \in Generations : g # n => new[g] = sub[g]
    BY BornAt
  <1>2. row.key = k /\ row.slot = s /\ row.phase = "live" /\ row # NoSubject
    BY DEF NoSubject
  <1>3. n \in Nat /\ n >= 1 /\ s \in Nat
    BY SlotNumbers
  <1> HIDE DEF new, row
  <1>4. ASSUME NEW g \in Generations
        PROVE  /\ g >= n + 1 => new[g] = NoSubject
               /\ new[g] # NoSubject => new[g].key \in Keys /\ new[g].slot \in Slots /\ new[g].slot < n + 1
               /\ new[g].phase \in {"live", "retiring", "dropped"} => new[g] # NoSubject
               /\ new[g].phase = "live" => Current(new, g, new[g].slot)
    <2>1. CASE g = n
      <3>1. Current(new, n, s)
        BY BornCurrent DEF new
      <3>2. ~(g >= n + 1) /\ s < n + 1
        BY <1>3, <2>1
      <3> QED
        BY <1>1, <1>2, <2>1, <3>1, <3>2
    <2>2. CASE g # n
      <3>1. /\ g >= n => sub[g] = NoSubject
            /\ sub[g] # NoSubject => sub[g].key \in Keys /\ sub[g].slot \in Slots /\ sub[g].slot < n
            /\ sub[g].phase \in {"live", "retiring", "dropped"} => sub[g] # NoSubject
            /\ sub[g].phase = "live" => Current(sub, g, sub[g].slot)
        BY DEF SubjectsOK
      <3>2. g \in Nat /\ (g >= n + 1 => g >= n)
        <4>1. g \in Nat
          BY SlotNumbers
        <4> QED
          BY ONLY <4>1, <1>3
      <3>3. \A t \in Slots : t < n => t < n + 1
        BY <1>3, SlotNumbers
      <3>4. sub[g].phase = "live" => Current(new, g, sub[g].slot)
        BY <3>1, BornCurrent DEF new
      <3>5. new[g] = sub[g]
        BY <1>1, <2>2
      <3> QED
        BY <3>1, <3>2, <3>3, <3>4, <3>5
    <2> QED
      BY <2>1, <2>2
  <1>5. ASSUME NEW g \in Generations, NEW h \in Generations,
               new[g].phase = "live", new[h].phase = "live", new[g].key = new[h].key
        PROVE  g = h
    BY <1>1, <1>2, <1>5 DEF SubjectsOK
  <1>6. n + 1 \in Nat /\ n + 1 >= 1
    BY <1>3
  <1> QED
    BY <1>1, <1>4, <1>5, <1>6 DEF SubjectsOK, new

LEMMA BornRows ==
    ASSUME NEW sub, NEW n \in Generations, SubjectsOK(sub, n), NEW k \in Keys, NEW s \in Slots
    PROVE  LiveRows(Born(sub, n, k, s)) = LiveRows(sub) \cup {<<k, n>>}
  <1> DEFINE new == Born(sub, n, k, s)
  <1>0. /\ new[n] = [key |-> k, slot |-> s, phase |-> "live"] /\ sub[n] = NoSubject
        /\ \A g \in Generations : g # n => new[g] = sub[g]
    BY BornAt
  <1> HIDE DEF new
  <1>1. /\ new[n].key = k /\ new[n].phase = "live" /\ sub[n].phase # "live"
        /\ \A g \in Generations : g # n => new[g] = sub[g]
    BY <1>0 DEF NoSubject
  <1>2. LiveRows(new) = LiveRows(sub) \cup {<<k, n>>}
    BY <1>1 DEF LiveRows
  <1> QED
    BY <1>2 DEF new

\* The number of generations handed out grows, and a slot that was not touched keeps its
\* custody.
LEMMA SlotKept ==
    ASSUME NEW sub, NEW ob, NEW po, NEW cell, NEW t \in Slots, NEW n \in Nat, NEW dis,
           SlotOK(sub, ob, po, cell, t, n, dis),
           NEW sub2, NEW ob2, NEW po2, NEW n2 \in Nat, NEW dis2, n <= n2,
           \A g : Current(sub, g, t) => Current(sub2, g, t) /\ dis2[g] = dis[g],
           Reached(sub, ob, po, t) => Reached(sub2, ob2, po2, t),
           t \notin po /\ Unused(sub, ob, t) => t \notin po2 /\ Unused(sub2, ob2, t)
    PROVE  SlotOK(sub2, ob2, po2, cell, t, n2, dis2)
  <1>1. t >= n2 => t >= n
    <2>1. t \in Nat
      BY SlotNumbers
    <2> QED
      BY ONLY <2>1, n \in Nat, n2 \in Nat, n <= n2
  <1>2. /\ cell \in SlotRecords
        /\ t >= n => cell = Pristine
        /\ \A r \in cell.waiters : Current(sub, r, t)
        /\ cell.completed => Current(sub, cell.outcome, t)
        /\ cell.valid => cell.completed /\ dis[cell.outcome] = 0 /\ Reached(sub, ob, po, t)
        /\ cell.completed /\ ~cell.valid => t \notin po /\ Unused(sub, ob, t)
    BY Zenon DEF SlotOK
  <1>3. cell.completed \in BOOLEAN /\ cell.valid \in BOOLEAN
    BY <1>2 DEF SlotRecords
  <1>4. cell.valid => cell.completed /\ dis2[cell.outcome] = 0 /\ Reached(sub2, ob2, po2, t)
    BY ONLY Zenon, <1>2,
       \A g : Current(sub, g, t) => Current(sub2, g, t) /\ dis2[g] = dis[g],
       Reached(sub, ob, po, t) => Reached(sub2, ob2, po2, t)
  <1>5. cell.completed /\ ~cell.valid => t \notin po2 /\ Unused(sub2, ob2, t)
    BY ONLY Zenon, <1>2, t \notin po /\ Unused(sub, ob, t) => t \notin po2 /\ Unused(sub2, ob2, t)
  <1>6. /\ \A r \in cell.waiters : Current(sub2, r, t)
        /\ cell.completed => Current(sub2, cell.outcome, t)
    BY ONLY Zenon, <1>2, \A g : Current(sub, g, t) => Current(sub2, g, t) /\ dis2[g] = dis[g]
  <1> QED
    BY Zenon, <1>1, <1>2, <1>4, <1>5, <1>6 DEF SlotOK

\* A new slot, or a slot that was reset, holds nothing.
LEMMA PristineOK ==
    ASSUME NEW sub, NEW ob, NEW po, NEW s, NEW n, NEW dis
    PROVE  SlotOK(sub, ob, po, Pristine, s, n, dis) /\ Pristine \in SlotRecords
  <1>1. Pristine \in SlotRecords /\ ~Pristine.completed /\ ~Pristine.valid /\ Pristine.waiters = {}
    BY DEF Pristine, SlotRecords
  <1> QED
    BY <1>1 DEF SlotOK

\* The state of the slots and of the disposals.
CellsOK(sub, ob, po, sl, n, dis) ==
    /\ sl \in [Slots -> SlotRecords]
    /\ \A s \in Slots : SlotOK(sub, ob, po, sl[s], s, n, dis)
    /\ DisposedOK(sub, sl, n, dis)

\* What the disposals become when the outcome of slot s, if it is valid, leaves its cell.
Released(sl, dis, s) == IF sl[s].valid THEN [dis EXCEPT ![sl[s].outcome] = @ + 1] ELSE dis

\* An outcome is released once: it belongs to the last generation of its slot, and no
\* other slot's generation is counted.
LEMMA ReleasedOnce ==
    ASSUME NEW sub, NEW ob, NEW po, NEW sl, NEW n, NEW dis, SubjectsOK(sub, n),
           CellsOK(sub, ob, po, sl, n, dis), NEW s \in Slots
    PROVE  /\ Released(sl, dis, s) \in [Generations -> {0, 1}]
           /\ \A g \in Generations : Released(sl, dis, s)[g] # dis[g] => Current(sub, g, s) /\ sl[s].completed
           /\ \A t \in Slots : \A g : t # s /\ Current(sub, g, t) => Released(sl, dis, s)[g] = dis[g]
  <1> DEFINE out == sl[s].outcome
             new == Released(sl, dis, s)
  <1>1. /\ dis \in [Generations -> {0, 1}] /\ sl[s] \in SlotRecords
        /\ sl[s].valid => sl[s].completed /\ dis[out] = 0 /\ Current(sub, out, s)
    BY DEF CellsOK, SlotOK, DisposedOK
  <1>2. CASE ~sl[s].valid
    <2>1. new = dis
      BY <1>2 DEF Released
    <2> QED
      BY <1>1, <2>1
  <1>3. CASE sl[s].valid
    <2>1. new = [dis EXCEPT ![out] = @ + 1]
      BY <1>3 DEF Released
    <2>2. out \in Generations /\ dis[out] = 0 /\ Current(sub, out, s) /\ sl[s].completed
      BY <1>1, <1>3 DEF Current
    <2> HIDE DEF new, out
    <2>3. new \in [Generations -> {0, 1}] /\ \A g \in Generations : g # out => new[g] = dis[g]
      <3>1. new = [dis EXCEPT ![out] = 1]
        BY <1>1, <2>1, <2>2
      <3> QED
        BY Zenon, <1>1, <3>1
    <2>4. ASSUME NEW t \in Slots, NEW g, t # s, Current(sub, g, t) PROVE new[g] = dis[g]
      <3>1. g \in Generations /\ g # out
        BY <2>2, <2>4 DEF Current
      <3> QED
        BY <2>3, <3>1
    <2> QED
      BY <2>2, <2>3, <2>4 DEF new
  <1> QED
    BY <1>2, <1>3

\* A step that changes no cell keeps the custody when it keeps every slot's last
\* generation, the Arcs of what is valid and the neglect of what was released.
LEMMA CellsKept ==
    ASSUME NEW sub, NEW ob, NEW po, NEW sl, NEW n \in Nat, NEW dis, CellsOK(sub, ob, po, sl, n, dis),
           NEW sub2, NEW ob2, NEW po2,
           \A t \in Slots : \A g : Current(sub, g, t) => Current(sub2, g, t),
           \A t \in Slots : Reached(sub, ob, po, t) => Reached(sub2, ob2, po2, t),
           \A t \in Slots : t \notin po /\ Unused(sub, ob, t) => t \notin po2 /\ Unused(sub2, ob2, t),
           \A g \in Generations : sub2[g].phase = "live" => sub[g] = sub2[g]
    PROVE  CellsOK(sub2, ob2, po2, sl, n, dis)
  <1>1. ASSUME NEW t \in Slots PROVE SlotOK(sub2, ob2, po2, sl[t], t, n, dis)
    <2>1. SlotOK(sub, ob, po, sl[t], t, n, dis)
      BY DEF CellsOK
    <2>2. n <= n
      OBVIOUS
    <2>3. \A g : Current(sub, g, t) => Current(sub2, g, t) /\ dis[g] = dis[g]
      OBVIOUS
    <2>4. /\ Reached(sub, ob, po, t) => Reached(sub2, ob2, po2, t)
          /\ t \notin po /\ Unused(sub, ob, t) => t \notin po2 /\ Unused(sub2, ob2, t)
      OBVIOUS
    <2> QED
      BY ONLY <2>1, <2>2, <2>3, <2>4, SlotKept, n \in Nat
  <1>2. DisposedOK(sub2, sl, n, dis)
    BY DEF CellsOK, DisposedOK
  <1> QED
    BY <1>1, <1>2 DEF CellsOK

\* The last Arc of a slot goes, or reset or into_outcome empties the cell: the outcome is
\* released.
LEMMA Emptied ==
    ASSUME NEW sub, NEW ob, NEW po, NEW sl, NEW n \in Nat, NEW dis, SubjectsOK(sub, n),
           CellsOK(sub, ob, po, sl, n, dis), NEW s \in Slots, s < n,
           NEW sub2, NEW ob2, NEW po2, NEW n2 \in Nat, n <= n2, s \notin po2, Unused(sub2, ob2, s),
           \A t \in Slots : \A g : Current(sub, g, t) => Current(sub2, g, t),
           \A t \in Slots : t # s /\ Reached(sub, ob, po, t) => Reached(sub2, ob2, po2, t),
           \A t \in Slots : t # s /\ t \notin po /\ Unused(sub, ob, t) => t \notin po2 /\ Unused(sub2, ob2, t),
           \A g \in Generations : sub2[g].phase = "live" => sub[g] = sub2[g]
    PROVE  CellsOK(sub2, ob2, po2, [sl EXCEPT ![s].valid = FALSE], n2, Released(sl, dis, s))
  <1> DEFINE new == [sl EXCEPT ![s].valid = FALSE]
             dis2 == Released(sl, dis, s)
  <1>1. sl \in [Slots -> SlotRecords] /\ DisposedOK(sub, sl, n, dis) /\ \A t \in Slots : SlotOK(sub, ob, po, sl[t], t, n, dis)
    BY DEF CellsOK
  <1>2. /\ dis2 \in [Generations -> {0, 1}]
        /\ \A g \in Generations : dis2[g] # dis[g] => Current(sub, g, s) /\ sl[s].completed
        /\ \A t \in Slots : \A g : t # s /\ Current(sub, g, t) => dis2[g] = dis[g]
    BY ReleasedOnce
  <1>3. /\ new \in [Slots -> SlotRecords] /\ \A t \in Slots : t # s => new[t] = sl[t]
        /\ new[s].completed = sl[s].completed /\ ~new[s].valid /\ new[s].waiters = sl[s].waiters
        /\ new[s].outcome = sl[s].outcome
    BY Zenon, <1>1 DEF SlotRecords
  <1> HIDE DEF new, dis2
  <1>4. SlotOK(sub2, ob2, po2, new[s], s, n2, dis2)
    <2>1. /\ \A r \in sl[s].waiters : Current(sub, r, s)
          /\ sl[s].completed => Current(sub, sl[s].outcome, s)
      BY <1>1 DEF SlotOK
    <2>2. ~(s >= n2) /\ new[s] \in SlotRecords
      <3>1. s \in Nat
        BY SlotNumbers
      <3>2. ~(s >= n2)
        BY ONLY <3>1, s < n, n <= n2, n \in Nat, n2 \in Nat
      <3> QED
        BY <1>3, <3>2
    <2> QED
      BY <1>3, <2>1, <2>2 DEF SlotOK
  <1>5. ASSUME NEW t \in Slots, t # s PROVE SlotOK(sub2, ob2, po2, new[t], t, n2, dis2)
    <2>1. SlotOK(sub, ob, po, sl[t], t, n, dis) /\ new[t] = sl[t]
      BY <1>1, <1>3, <1>5
    <2>2. \A g : Current(sub, g, t) => Current(sub2, g, t) /\ dis2[g] = dis[g]
      BY <1>2, <1>5
    <2>3. /\ Reached(sub, ob, po, t) => Reached(sub2, ob2, po2, t)
          /\ t \notin po /\ Unused(sub, ob, t) => t \notin po2 /\ Unused(sub2, ob2, t)
      BY <1>5
    <2>4. SlotOK(sub2, ob2, po2, sl[t], t, n2, dis2)
      BY ONLY <2>1, <2>2, <2>3, SlotKept, n \in Nat, n2 \in Nat, n <= n2, t \in Slots
    <2> QED
      BY <2>1, <2>4
  <1>6. ASSUME NEW g \in Generations, dis2[g] # 0
        PROVE  g < n2 /\ (sub2[g].phase = "live" => new[sub2[g].slot].completed)
    <2>1. CASE dis2[g] # dis[g]
      <3>1. Current(sub, g, s) /\ Current(sub2, g, s) /\ sl[s].completed
        BY <1>2, <2>1
      <3>2. sub2[g].phase = "live" => new[sub2[g].slot].completed
        BY Zenon, <1>3, <3>1 DEF Current
      <3>3. g < n
        BY <3>1, CurrentOld
      <3> QED
        BY <3>2, <3>3, SlotNumbers
    <2>2. CASE dis2[g] = dis[g]
      <3>1. g < n /\ (sub[g].phase = "live" => sl[sub[g].slot].completed)
        BY <1>1, <1>6, <2>2 DEF DisposedOK
      <3>2. sub[g].phase = "live" => sub[g].slot \in Slots
        BY SubjectFacts DEF Held
      <3>3. sub2[g].phase = "live" => new[sub2[g].slot].completed
        BY <1>3, <3>1, <3>2
      <3> QED
        BY <3>1, <3>3, SlotNumbers
    <2> QED
      BY <2>1, <2>2
  <1>7. CellsOK(sub2, ob2, po2, new, n2, dis2)
    BY <1>2, <1>3, <1>4, <1>5, <1>6 DEF CellsOK, DisposedOK
  <1> QED
    BY <1>7 DEF new, dis2

\* A subject is born in a slot that nothing uses, which starts empty.
LEMMA BornCells ==
    ASSUME NEW sub, NEW ob, NEW po, NEW sl, NEW n \in Generations, NEW dis, SubjectsOK(sub, n),
           ObsOK(sub, ob), PoolOK(sub, ob, po, n), CellsOK(sub, ob, po, sl, n, dis),
           NEW k \in Keys, NEW s \in Slots, Unused(sub, ob, s)
    PROVE  /\ ObsOK(Born(sub, n, k, s), ob)
           /\ PoolOK(Born(sub, n, k, s), ob, po \ {s}, n + 1)
           /\ CellsOK(Born(sub, n, k, s), ob, po \ {s}, [sl EXCEPT ![s] = Pristine], n + 1,
                      Released(sl, dis, s))
  <1> DEFINE sub2 == Born(sub, n, k, s)
             new == [sl EXCEPT ![s] = Pristine]
             dis2 == Released(sl, dis, s)
             row == [key |-> k, slot |-> s, phase |-> "live"]
  <1>1. sl \in [Slots -> SlotRecords] /\ DisposedOK(sub, sl, n, dis) /\ \A t \in Slots : SlotOK(sub, ob, po, sl[t], t, n, dis)
    BY DEF CellsOK
  <1>2. /\ dis2 \in [Generations -> {0, 1}]
        /\ \A g \in Generations : dis2[g] # dis[g] => Current(sub, g, s) /\ sl[s].completed
        /\ \A t \in Slots : \A g : t # s /\ Current(sub, g, t) => dis2[g] = dis[g]
    BY ReleasedOnce
  <1>3. new \in [Slots -> SlotRecords] /\ new[s] = Pristine /\ \A t \in Slots : t # s => new[t] = sl[t]
    BY <1>1, PristineOK
  <1>4. /\ \A t \in Slots : \A g : t # s /\ Current(sub, g, t) => Current(sub2, g, t)
        /\ sub[n] = NoSubject /\ sub2[n] = row /\ \A g \in Generations : g # n => sub2[g] = sub[g]
    BY BornAt, BornCurrent
  <1>5. /\ row.slot = s /\ row.phase = "live" /\ NoSubject.slot = Nothing /\ NoSubject.phase \notin Held
        /\ n \in Nat /\ n + 1 \in Nat /\ n <= n + 1 /\ \A t \in Slots : t < n => t < n + 1
    BY SlotNumbers DEF NoSubject, Held
  <1> HIDE DEF sub2, new, dis2, row
  <1>6. \A t \in Slots : t # s /\ Unused(sub, ob, t) => Unused(sub2, ob, t)
    BY <1>4, <1>5 DEF Unused
  <1>7. ObsOK(sub2, ob)
    <2>1. ASSUME NEW o \in Handles, ob[o] # NoHandle
          PROVE  ob[o].slot \in Slots /\ Current(sub2, ob[o].generation, ob[o].slot)
      <3>1. ob[o].slot \in Slots /\ Current(sub, ob[o].generation, ob[o].slot)
        BY <2>1 DEF ObsOK
      <3>2. ob[o].slot # s
        BY DEF Unused
      <3> QED
        BY <1>4, <3>1, <3>2
    <2> QED
      BY <2>1 DEF ObsOK
  <1>8. PoolOK(sub2, ob, po \ {s}, n + 1)
    <2>1. po \subseteq Slots /\ IsFiniteSet(po) /\ Cardinality(po) <= PoolCap
      BY DEF PoolOK
    <2>2. IsFiniteSet(po \ {s}) /\ Cardinality(po \ {s}) <= PoolCap
      <3>1. IsFiniteSet(po \ {s}) /\ Cardinality(po \ {s}) <= Cardinality(po)
        BY <2>1, FS_Subset
      <3>2. Cardinality(po) \in Nat /\ Cardinality(po \ {s}) \in Nat
        BY <2>1, <3>1, FS_CardinalityType
      <3> QED
        BY <2>1, <3>1, <3>2, PoolCapAssumption
    <2>3. \A t \in po \ {s} : t < n + 1 /\ Unused(sub2, ob, t)
      BY <1>5, <1>6, <2>1 DEF PoolOK
    <2> QED
      BY <2>1, <2>2, <2>3 DEF PoolOK
  <1>9. SlotOK(sub2, ob, po \ {s}, new[s], s, n + 1, dis2)
    BY <1>3, PristineOK
  <1>10. ASSUME NEW t \in Slots, t # s PROVE SlotOK(sub2, ob, po \ {s}, new[t], t, n + 1, dis2)
    <2>1. SlotOK(sub, ob, po, sl[t], t, n, dis) /\ new[t] = sl[t]
      BY <1>1, <1>3, <1>10
    <2>2. \A g : Current(sub, g, t) => Current(sub2, g, t) /\ dis2[g] = dis[g]
      BY <1>2, <1>4, <1>10
    <2>3. Reached(sub, ob, po, t) => Reached(sub2, ob, po \ {s}, t)
      <3>1. ASSUME NEW g \in Generations, sub[g].slot = t, sub[g].phase \in Held
            PROVE  sub2[g].slot = t /\ sub2[g].phase \in Held
        BY <1>4, <1>5, <3>1
      <3> QED
        BY <1>10, <3>1 DEF Reached
    <2>4. t \notin po /\ Unused(sub, ob, t) => t \notin po \ {s} /\ Unused(sub2, ob, t)
      BY <1>6, <1>10
    <2>5. SlotOK(sub2, ob, po \ {s}, sl[t], t, n + 1, dis2)
      BY ONLY <1>5, <2>1, <2>2, <2>3, <2>4, SlotKept, t \in Slots
    <2> QED
      BY <2>1, <2>5
  <1>11. ASSUME NEW g \in Generations, dis2[g] # 0
         PROVE  g < n + 1 /\ (sub2[g].phase = "live" => new[sub2[g].slot].completed)
    <2>1. g < n /\ (sub[g].phase = "live" => sub[g].slot # s /\ sl[sub[g].slot].completed)
      <3>1. CASE dis2[g] # dis[g]
        <4>1. Current(sub, g, s)
          BY <1>2, <3>1
        <4>2. g < n
          BY <4>1, CurrentOld
        <4> QED
          BY <4>1, <4>2 DEF Unused, Current
      <3>2. CASE dis2[g] = dis[g]
        <4>1. g < n /\ (sub[g].phase = "live" => sl[sub[g].slot].completed)
          BY <1>1, <1>11, <3>2 DEF DisposedOK
        <4> QED
          BY <4>1 DEF Unused
      <3> QED
        BY <3>1, <3>2
    <2>2. g # n /\ g < n + 1
      <3>1. g \in Nat
        BY SlotNumbers
      <3> QED
        BY ONLY <1>5, <2>1, <3>1
    <2>3. sub[g].phase = "live" => sub[g].slot \in Slots
      BY SubjectFacts DEF Held
    <2> QED
      BY <1>3, <1>4, <2>1, <2>2, <2>3
  <1>12. CellsOK(sub2, ob, po \ {s}, new, n + 1, dis2)
    BY Zenon, <1>2, <1>3, <1>9, <1>10, <1>11 DEF CellsOK, DisposedOK
  <1> QED
    BY <1>7, <1>8, <1>12 DEF sub2, new, dis2

-----------------------------------------------------------------------------
(* The end of a subject *)

Phased(sub, g, phase) == [sub EXCEPT ![g].phase = phase]

\* The phase of a subject that ends changes, and nothing else of any subject.
LEMMA PhasedAt ==
    ASSUME NEW sub, NEW n, SubjectsOK(sub, n), NEW g \in Generations, NEW phase \in {"retiring", "dropped"},
           sub[g].phase \in Held
    PROVE  /\ Phased(sub, g, phase) \in [Generations -> SubjectRecords]
           /\ Phased(sub, g, phase)[g].phase = phase
           /\ \A h \in Generations :
                /\ Phased(sub, g, phase)[h].slot = sub[h].slot /\ Phased(sub, g, phase)[h].key = sub[h].key
                /\ h # g => Phased(sub, g, phase)[h] = sub[h]
           /\ \A h, t : Current(sub, h, t) <=> Current(Phased(sub, g, phase), h, t)
           /\ SubjectsOK(Phased(sub, g, phase), n)
  <1> DEFINE new == Phased(sub, g, phase)
  <1>1. sub \in [Generations -> SubjectRecords] /\ sub[g] \in SubjectRecords
    BY DEF SubjectsOK
  <1>2. new = [sub EXCEPT ![g] = [sub[g] EXCEPT !.phase = phase]]
    BY <1>1 DEF Phased
  <1>3. /\ [sub[g] EXCEPT !.phase = phase] \in SubjectRecords
        /\ [sub[g] EXCEPT !.phase = phase].phase = phase
        /\ [sub[g] EXCEPT !.phase = phase].key = sub[g].key
        /\ [sub[g] EXCEPT !.phase = phase].slot = sub[g].slot
    BY <1>1 DEF SubjectRecords
  <1> HIDE DEF new
  <1>4. /\ new \in [Generations -> SubjectRecords] /\ new[g].phase = phase
        /\ \A h \in Generations : new[h].slot = sub[h].slot /\ new[h].key = sub[h].key /\ (h # g => new[h] = sub[h])
    BY <1>1, <1>2, <1>3
  <1>5. \A h, t : Current(sub, h, t) <=> Current(new, h, t)
    BY <1>4 DEF Current
  <1>6. sub[g] # NoSubject /\ sub[g].key \in Keys /\ sub[g].slot \in Slots /\ new[g] # NoSubject
    BY <1>4, SubjectFacts DEF NoSubject
  <1>7. ASSUME NEW h \in Generations
        PROVE  /\ h >= n => new[h] = NoSubject
               /\ new[h] # NoSubject => new[h].key \in Keys /\ new[h].slot \in Slots /\ new[h].slot < n
               /\ new[h].phase \in {"live", "retiring", "dropped"} => new[h] # NoSubject
               /\ new[h].phase = "live" => Current(new, h, new[h].slot)
    <2>1. /\ h >= n => sub[h] = NoSubject
          /\ sub[h] # NoSubject => sub[h].key \in Keys /\ sub[h].slot \in Slots /\ sub[h].slot < n
          /\ sub[h].phase \in {"live", "retiring", "dropped"} => sub[h] # NoSubject
          /\ sub[h].phase = "live" => Current(sub, h, sub[h].slot)
      BY DEF SubjectsOK
    <2>2. CASE h = g
      BY <1>4, <1>6, <2>1, <2>2
    <2>3. CASE h # g
      <3>1. new[h] = sub[h]
        BY <1>4, <2>3
      <3> QED
        BY <1>5, <2>1, <3>1
    <2> QED
      BY <2>2, <2>3
  <1>8. \A h, j \in Generations :
          new[h].phase = "live" /\ new[j].phase = "live" /\ new[h].key = new[j].key => h = j
    BY <1>4 DEF SubjectsOK
  <1>9. SubjectsOK(new, n)
    BY <1>4, <1>7, <1>8 DEF SubjectsOK
  <1> QED
    BY <1>4, <1>5, <1>9 DEF new

-----------------------------------------------------------------------------
(* The steps *)

LEMMA Parts ==
    SpaceInv <=> /\ TableOK(map) /\ RowsOf(map) = LiveRows(subjects)
                 /\ SubjectsOK(subjects, next) /\ ObsOK(subjects, obs) /\ PoolOK(subjects, obs, pool, next)
                 /\ CellsOK(subjects, obs, pool, slots, next, disposed)
                 /\ Exact(uses)
  BY DEF SpaceInv, CellsOK

LEMMA PartsNext ==
    ASSUME TableOK(map'), RowsOf(map') = LiveRows(subjects'), SubjectsOK(subjects', next'),
           ObsOK(subjects', obs'), PoolOK(subjects', obs', pool', next'),
           CellsOK(subjects', obs', pool', slots', next', disposed'), Exact(uses')
    PROVE  SpaceInv'
  BY DEF SpaceInv, CellsOK

LEMMA NoUses == Exact({})
  BY DEF Exact

\* ObservationSpace::subject inserts the row of the new subject.
LEMMA Inserts ==
    ASSUME SpaceInv, next \in Generations, NEW k \in Keys, Vacant(k), NEW s \in Slots,
           Unused(subjects, obs, s), s <= next, Insert(k, s)
    PROVE  /\ subjects' = Born(subjects, next, k, s) /\ SubjectsOK(subjects', next + 1)
           /\ TableOK(map') /\ RowsOf(map') = LiveRows(subjects')
  <1>1. TableOK(map) /\ RowsOf(map) = LiveRows(subjects) /\ SubjectsOK(subjects, next)
    BY Parts
  <1>2. subjects' = Born(subjects, next, k, s) /\ map' = InsertVacant(map, <<k, next>>)
    BY DEF Insert, Born
  <1>3. \A g \in Generations : subjects[g].phase = "live" => subjects[g].key # k /\ subjects[g].slot # s
    BY <1>1, GetLive DEF Unused
  <1>4. SubjectsOK(Born(subjects, next, k, s), next + 1)
    BY <1>1, <1>3, BornSubjects
  <1>5. <<k, next>> \notin RowsOf(map)
    BY <1>1, <1>3 DEF LiveRows
  <1>6. /\ TableOK(InsertVacant(map, <<k, next>>))
        /\ RowsOf(InsertVacant(map, <<k, next>>)) = RowsOf(map) \cup {<<k, next>>}
    <2>1. <<k, next>> \in Keys \X Generations
      OBVIOUS
    <2> QED
      BY <1>1, <1>5, <2>1, InsertRows
  <1>7. LiveRows(Born(subjects, next, k, s)) = LiveRows(subjects) \cup {<<k, next>>}
    BY <1>1, BornRows
  <1> QED
    BY <1>1, <1>2, <1>4, <1>6, <1>7

LEMMA FreshKeeps ==
    ASSUME SpaceInv, NEW k \in Keys, SubjectFresh(k)
    PROVE  SpaceInv'
  <1>1. /\ SubjectsOK(subjects, next) /\ ObsOK(subjects, obs) /\ PoolOK(subjects, obs, pool, next)
        /\ CellsOK(subjects, obs, pool, slots, next, disposed)
    BY Parts
  <1>2. /\ next \in Generations /\ Vacant(k) /\ pool = {} /\ slots' = [slots EXCEPT ![next] = Pristine]
        /\ Insert(k, next) /\ next' = next + 1 /\ uses' = {} /\ pool' = pool /\ obs' = obs /\ disposed' = disposed
    BY DEF SubjectFresh
  <1>3. next \in Slots /\ next \in Nat /\ next <= next /\ ~(next < next) /\ next >= next
    BY <1>2, SlotNumbers
  <1>4. Unused(subjects, obs, next)
    <2>1. ASSUME NEW o \in Handles, obs[o].slot = next PROVE FALSE
      <3>1. obs[o] # NoHandle
        BY <1>3, <2>1, SlotNumbers DEF NoHandle
      <3>2. Current(subjects, obs[o].generation, next)
        BY <1>1, <2>1, <3>1 DEF ObsOK
      <3>3. next < next
        BY <1>1, <1>3, <3>2, CurrentOld
      <3> QED
        BY <1>3, <3>3
    <2>2. ASSUME NEW g \in Generations, subjects[g].slot = next PROVE FALSE
      <3>1. next < next
        BY <1>1, <1>3, <2>2, SubjectFacts
      <3> QED
        BY <1>3, <3>1
    <2> QED
      BY <2>1, <2>2 DEF Unused
  <1>5. slots[next] = Pristine
    BY <1>1, <1>3 DEF CellsOK, SlotOK
  <1>6. Released(slots, disposed, next) = disposed
    BY <1>5 DEF Released, Pristine
  <1>7. /\ ObsOK(Born(subjects, next, k, next), obs)
        /\ PoolOK(Born(subjects, next, k, next), obs, pool \ {next}, next + 1)
        /\ CellsOK(Born(subjects, next, k, next), obs, pool \ {next}, [slots EXCEPT ![next] = Pristine],
                   next + 1, Released(slots, disposed, next))
    BY Zenon, <1>1, <1>2, <1>3, <1>4, BornCells
  <1>8. pool \ {next} = pool
    BY <1>2
  <1>9. /\ subjects' = Born(subjects, next, k, next) /\ SubjectsOK(subjects', next + 1)
        /\ TableOK(map') /\ RowsOf(map') = LiveRows(subjects')
    BY <1>2, <1>3, <1>4, Inserts
  <1> QED
    BY <1>2, <1>6, <1>7, <1>8, <1>9, NoUses, PartsNext

LEMMA ReuseKeeps ==
    ASSUME SpaceInv, NEW k \in Keys, SubjectReuse(k)
    PROVE  SpaceInv'
  <1>1. /\ SubjectsOK(subjects, next) /\ ObsOK(subjects, obs) /\ PoolOK(subjects, obs, pool, next)
        /\ CellsOK(subjects, obs, pool, slots, next, disposed)
    BY Parts
  <1>2. PICK s \in pool :
          /\ pool' = pool \ {s} /\ slots' = [slots EXCEPT ![s] = Pristine] /\ Insert(k, s)
          /\ disposed' = Released(slots, disposed, s)
    BY Zenon DEF SubjectReuse, Reset, Dispose, Released
  <1>3. next \in Generations /\ Vacant(k) /\ next' = next + 1 /\ uses' = {} /\ obs' = obs
    BY DEF SubjectReuse
  <1>4. s \in Slots /\ s < next /\ Unused(subjects, obs, s)
    BY <1>1, <1>2 DEF PoolOK
  <1>5. s <= next
    BY <1>3, <1>4, SlotNumbers
  <1>6. /\ ObsOK(Born(subjects, next, k, s), obs)
        /\ PoolOK(Born(subjects, next, k, s), obs, pool \ {s}, next + 1)
        /\ CellsOK(Born(subjects, next, k, s), obs, pool \ {s}, [slots EXCEPT ![s] = Pristine],
                   next + 1, Released(slots, disposed, s))
    BY <1>1, <1>3, <1>4, BornCells
  <1>7. /\ subjects' = Born(subjects, next, k, s) /\ SubjectsOK(subjects', next + 1)
        /\ TableOK(map') /\ RowsOf(map') = LiveRows(subjects')
    BY <1>2, <1>3, <1>4, <1>5, Inserts
  <1> QED
    BY <1>2, <1>3, <1>6, <1>7, NoUses, PartsNext

\* A generation number that is spent without a subject.
LEMMA Spent ==
    ASSUME NEW sub, NEW ob, NEW po, NEW n \in Generations, SubjectsOK(sub, n), PoolOK(sub, ob, po, n), NEW s
    PROVE  SubjectsOK(sub, n + 1) /\ PoolOK(sub, ob, po \ {s}, n + 1)
  <1>1. n \in Nat /\ n >= 1 /\ n + 1 \in Nat /\ n + 1 >= 1
    BY SlotNumbers
  <1>2. \A t \in Generations : (t < n => t < n + 1) /\ (t >= n + 1 => t >= n)
    <2>1. \A t \in Generations : t \in Nat
      BY SlotNumbers
    <2> QED
      BY ONLY <1>1, <2>1
  <1>3. SubjectsOK(sub, n + 1)
    <2>1. ASSUME NEW g \in Generations
          PROVE  /\ g >= n + 1 => sub[g] = NoSubject
                 /\ sub[g] # NoSubject => sub[g].key \in Keys /\ sub[g].slot \in Slots /\ sub[g].slot < n + 1
      BY Zenon, <1>2, SlotNumbers DEF SubjectsOK
    <2> QED
      BY <1>1, <2>1 DEF SubjectsOK
  <1>4. po \subseteq Slots /\ IsFiniteSet(po) /\ Cardinality(po) <= PoolCap
    BY DEF PoolOK
  <1>5. IsFiniteSet(po \ {s}) /\ Cardinality(po \ {s}) <= PoolCap
    <2>1. IsFiniteSet(po \ {s}) /\ Cardinality(po \ {s}) <= Cardinality(po)
      BY <1>4, FS_Subset
    <2>2. Cardinality(po) \in Nat /\ Cardinality(po \ {s}) \in Nat
      BY <1>4, <2>1, FS_CardinalityType
    <2> QED
      BY <1>4, <2>1, <2>2, PoolCapAssumption
  <1>6. \A t \in po \ {s} : t < n + 1 /\ Unused(sub, ob, t)
    BY <1>2, <1>4, SlotNumbers DEF PoolOK
  <1> QED
    BY <1>3, <1>4, <1>5, <1>6 DEF PoolOK

LEMMA PanicsKeeps ==
    ASSUME SpaceInv, NEW k \in Keys, SubjectPanics(k)
    PROVE  SpaceInv'
  <1>1. /\ SubjectsOK(subjects, next) /\ ObsOK(subjects, obs) /\ PoolOK(subjects, obs, pool, next)
        /\ CellsOK(subjects, obs, pool, slots, next, disposed)
        /\ TableOK(map) /\ RowsOf(map) = LiveRows(subjects)
    BY Parts
  <1>2. PICK s \in pool :
          /\ pool' = pool \ {s} /\ slots' = [slots EXCEPT ![s].valid = FALSE]
          /\ disposed' = Released(slots, disposed, s)
    BY Zenon DEF SubjectPanics, Dispose, Released
  <1>3. /\ next \in Generations /\ next' = next + 1 /\ uses' = {}
        /\ map' = map /\ subjects' = subjects /\ obs' = obs
    BY DEF SubjectPanics
  <1>4. s \in Slots /\ s < next /\ Unused(subjects, obs, s) /\ s \notin pool \ {s}
    BY <1>1, <1>2 DEF PoolOK
  <1>5. next \in Nat /\ next + 1 \in Nat /\ next <= next + 1
    BY <1>3, SlotNumbers
  <1>6. SubjectsOK(subjects, next + 1) /\ PoolOK(subjects, obs, pool \ {s}, next + 1)
    BY <1>1, <1>3, Spent
  <1>7. \A t \in Slots : t # s /\ Reached(subjects, obs, pool, t) => Reached(subjects, obs, pool \ {s}, t)
    BY DEF Reached
  <1>8. /\ \A t \in Slots : \A g : Current(subjects, g, t) => Current(subjects, g, t)
        /\ \A t \in Slots : t # s /\ t \notin pool /\ Unused(subjects, obs, t) =>
             t \notin pool \ {s} /\ Unused(subjects, obs, t)
        /\ \A g \in Generations : subjects[g].phase = "live" => subjects[g] = subjects[g]
    BY Zenon
  <1>9. CellsOK(subjects, obs, pool \ {s}, [slots EXCEPT ![s].valid = FALSE], next + 1,
                Released(slots, disposed, s))
    BY ONLY Zenon, <1>1, <1>4, <1>5, <1>7, <1>8, Emptied
  <1> QED
    BY <1>1, <1>2, <1>3, <1>6, <1>9, NoUses, PartsNext

\* A handle takes an Arc of a slot that is in use.
LEMMA Gains ==
    ASSUME SpaceInv, NEW o \in Handles, obs[o] = NoHandle, NEW s \in Slots, NEW g, Current(subjects, g, s),
           ~Unused(subjects, obs, s), obs' = [obs EXCEPT ![o] = [slot |-> s, generation |-> g]],
           uses' = {}, UNCHANGED <<next, map, pool, slots, subjects, disposed>>
    PROVE  SpaceInv'
  <1>1. /\ SubjectsOK(subjects, next) /\ ObsOK(subjects, obs) /\ PoolOK(subjects, obs, pool, next)
        /\ CellsOK(subjects, obs, pool, slots, next, disposed)
        /\ TableOK(map) /\ RowsOf(map) = LiveRows(subjects)
    BY Parts
  <1> DEFINE row == [slot |-> s, generation |-> g]
             new == [obs EXCEPT ![o] = row]
  <1>2. row \in ObsRecords /\ row.slot = s /\ row.generation = g
    BY DEF ObsRecords, Current
  <1>3. obs \in [Handles -> ObsRecords]
    BY <1>1 DEF ObsOK
  <1> HIDE DEF row
  <1>4. new \in [Handles -> ObsRecords] /\ new[o] = row /\ \A p \in Handles : p # o => new[p] = obs[p]
    BY <1>2, <1>3
  <1>5. obs' = new
    BY DEF row
  <1> HIDE DEF new
  <1>6. obs[o].slot = Nothing /\ Nothing \notin Slots
    BY SlotNumbers DEF NoHandle
  <1>7. ObsOK(subjects, new)
    <2>1. ASSUME NEW p \in Handles
          PROVE  new[p] = NoHandle \/ (new[p].slot \in Slots /\ Current(subjects, new[p].generation, new[p].slot))
      <3>1. CASE p = o
        BY <1>2, <1>4, <3>1
      <3>2. CASE p # o
        BY <1>1, <1>4, <3>2 DEF ObsOK
      <3> QED
        BY <3>1, <3>2
    <2> QED
      BY <1>4, <2>1 DEF ObsOK
  <1>8. \A t \in Slots : Unused(subjects, obs, t) => Unused(subjects, new, t)
    BY <1>2, <1>4 DEF Unused
  <1>9. \A t \in Slots : Reached(subjects, obs, pool, t) => Reached(subjects, new, pool, t)
    BY <1>4, <1>6 DEF Reached
  <1>10. PoolOK(subjects, new, pool, next)
    BY <1>1, <1>8 DEF PoolOK
  <1>11. /\ \A t \in Slots : \A h : Current(subjects, h, t) => Current(subjects, h, t)
         /\ \A t \in Slots : t \notin pool /\ Unused(subjects, obs, t) => t \notin pool /\ Unused(subjects, new, t)
         /\ \A h \in Generations : subjects[h].phase = "live" => subjects[h] = subjects[h]
    BY Zenon, <1>8
  <1>12. next \in Nat
    BY <1>1 DEF SubjectsOK
  <1>13. CellsOK(subjects, new, pool, slots, next, disposed)
    BY ONLY Zenon, <1>1, <1>9, <1>11, <1>12, CellsKept
  <1> QED
    BY Zenon, <1>1, <1>5, <1>7, <1>10, <1>13, NoUses, PartsNext

LEMMA ObserveKeeps ==
    ASSUME SpaceInv, NEW o \in Handles, NEW k \in Keys, Observe(o, k)
    PROVE  SpaceInv'
  <1>1. SubjectsOK(subjects, next) /\ RowsOf(map) = LiveRows(subjects)
    BY Parts
  <1>2. PICK g : g = Get(k)
    OBVIOUS
  <1>3. g \in Generations /\ subjects[g].phase = "live"
    BY Zenon, <1>1, <1>2, GetSome DEF Observe
  <1>4. subjects[g].slot \in Slots /\ Current(subjects, g, subjects[g].slot)
    BY <1>1, <1>3, SubjectFacts DEF Held
  <1>5. ~Unused(subjects, obs, subjects[g].slot)
    BY <1>3 DEF Unused
  <1>6. /\ obs[o] = NoHandle /\ obs' = [obs EXCEPT ![o] = [slot |-> subjects[g].slot, generation |-> g]]
        /\ uses' = {} /\ UNCHANGED <<next, map, pool, slots, subjects, disposed>>
    BY <1>2 DEF Observe
  <1> QED
    BY Zenon, <1>4, <1>5, <1>6, Gains

LEMMA CloneKeeps ==
    ASSUME SpaceInv, NEW o \in Handles, NEW p \in Handles, Clone(o, p)
    PROVE  SpaceInv'
  <1>1. ObsOK(subjects, obs)
    BY Parts
  <1>2. obs[o] # NoHandle /\ obs[o] \in ObsRecords
    BY <1>1 DEF Clone, ObsOK
  <1>3. obs[o].slot \in Slots /\ Current(subjects, obs[o].generation, obs[o].slot)
    BY <1>1, <1>2 DEF ObsOK
  <1>4. ~Unused(subjects, obs, obs[o].slot)
    BY DEF Unused
  <1>5. obs[o] = [slot |-> obs[o].slot, generation |-> obs[o].generation]
    BY <1>2 DEF ObsRecords
  <1>6. /\ obs[p] = NoHandle /\ obs' = [obs EXCEPT ![p] = [slot |-> obs[o].slot, generation |-> obs[o].generation]]
        /\ uses' = {} /\ UNCHANGED <<next, map, pool, slots, subjects, disposed>>
    BY Zenon, <1>5 DEF Clone
  <1> QED
    BY Zenon, <1>3, <1>4, <1>6, Gains

\* Some Arc other than the handle's own reaches its slot, or the handle is the only one.
LEMMA Loses ==
    ASSUME SpaceInv, NEW o \in Handles, obs[o] # NoHandle, NEW new, new = [obs EXCEPT ![o] = NoHandle]
    PROVE  /\ obs[o].slot \in Slots /\ obs[o].slot < next
           /\ ObsOK(subjects, new) /\ PoolOK(subjects, new, pool, next)
           /\ \A t \in Slots : Unused(subjects, obs, t) => Unused(subjects, new, t)
           /\ \A t \in Slots : t # obs[o].slot /\ Reached(subjects, obs, pool, t) => Reached(subjects, new, pool, t)
           /\ Sole(o) => obs[o].slot \notin pool /\ Unused(subjects, new, obs[o].slot)
           /\ ~Sole(o) => Reached(subjects, new, pool, obs[o].slot)
  <1> DEFINE s == obs[o].slot
  <1>1. /\ SubjectsOK(subjects, next) /\ ObsOK(subjects, obs) /\ PoolOK(subjects, obs, pool, next)
        /\ RowsOf(map) = LiveRows(subjects)
    BY Parts
  <1>2. s \in Slots /\ Current(subjects, obs[o].generation, s) /\ obs \in [Handles -> ObsRecords]
    BY <1>1 DEF ObsOK
  <1>3. s < next
    BY <1>1, <1>2, CurrentOld
  <1>4. NoHandle \in ObsRecords /\ NoHandle.slot = Nothing /\ Nothing \notin Slots
    BY SlotNumbers DEF NoHandle, ObsRecords
  <1>5. new \in [Handles -> ObsRecords] /\ new[o] = NoHandle /\ \A p \in Handles : p # o => new[p] = obs[p]
    BY <1>2, <1>4
  <1>6. ObsOK(subjects, new)
    BY <1>1, <1>5 DEF ObsOK
  <1>7. \A t \in Slots : Unused(subjects, obs, t) => Unused(subjects, new, t)
    BY <1>4, <1>5 DEF Unused
  <1>8. PoolOK(subjects, new, pool, next)
    BY Zenon, <1>1, <1>7 DEF PoolOK
  <1>9. \A t \in Slots : t # s /\ Reached(subjects, obs, pool, t) => Reached(subjects, new, pool, t)
    BY <1>5 DEF Reached
  <1>10. ASSUME Sole(o) PROVE s \notin pool /\ Unused(subjects, new, s)
    <2>1. Observations(s) = {o} /\ Subjects(s) = {} /\ s \notin pool
      BY <1>10 DEF Sole
    <2>2. \A p \in Handles : new[p].slot # s
      BY <1>2, <1>4, <1>5, <2>1 DEF Observations
    <2>3. \A g \in Generations : subjects[g].slot = s => subjects[g].phase # "live"
      BY <2>1 DEF Subjects, Held
    <2> QED
      BY <2>1, <2>2, <2>3 DEF Unused
  <1>11. ASSUME ~Sole(o) PROVE Reached(subjects, new, pool, s)
    <2>1. \/ Observations(s) # {o} \/ Subjects(s) # {} \/ Mapped(s) # {} \/ s \in pool
      BY <1>11 DEF Sole
    <2>2. CASE Observations(s) # {o}
      <3>1. PICK p \in Handles : p # o /\ obs[p].slot = s
        BY <2>2 DEF Observations
      <3> QED
        BY <1>5, <3>1 DEF Reached
    <2>3. CASE Subjects(s) # {}
      BY <2>3 DEF Subjects, Reached
    <2>4. CASE Mapped(s) # {}
      <3>1. PICK k \in Keys : ~Vacant(k) /\ subjects[Get(k)].slot = s
        BY <2>4 DEF Mapped
      <3>2. Get(k) \in Generations /\ subjects[Get(k)].phase \in Held
        BY <1>1, <3>1, GetSome DEF Held
      <3> QED
        BY <3>1, <3>2 DEF Reached
    <2>5. CASE s \in pool
      BY <2>5 DEF Reached
    <2> QED
      BY <2>1, <2>2, <2>3, <2>4, <2>5
  <1> QED
    BY Zenon, <1>2, <1>3, <1>6, <1>7, <1>8, <1>9, <1>10, <1>11

\* The last handle of a slot goes, by drop or by into_outcome.
LEMMA LastHandle ==
    ASSUME SpaceInv, NEW o \in Handles, obs[o] # NoHandle, Sole(o), NEW new, new = [obs EXCEPT ![o] = NoHandle]
    PROVE  CellsOK(subjects, new, pool, [slots EXCEPT ![obs[o].slot].valid = FALSE], next,
                   Released(slots, disposed, obs[o].slot))
  <1> DEFINE s == obs[o].slot
  <1>1. SubjectsOK(subjects, next) /\ CellsOK(subjects, obs, pool, slots, next, disposed)
    BY Parts
  <1>2. next \in Nat /\ next <= next
    BY <1>1 DEF SubjectsOK
  <1>3. /\ s \in Slots /\ s < next /\ s \notin pool /\ Unused(subjects, new, s)
        /\ \A t \in Slots : Unused(subjects, obs, t) => Unused(subjects, new, t)
        /\ \A t \in Slots : t # s /\ Reached(subjects, obs, pool, t) => Reached(subjects, new, pool, t)
    BY Zenon, Loses
  <1> HIDE DEF s
  <1>4. /\ \A t \in Slots : \A g : Current(subjects, g, t) => Current(subjects, g, t)
        /\ \A t \in Slots : t # s /\ t \notin pool /\ Unused(subjects, obs, t) =>
             t \notin pool /\ Unused(subjects, new, t)
        /\ \A g \in Generations : subjects[g].phase = "live" => subjects[g] = subjects[g]
    BY Zenon, <1>3
  <1>5. CellsOK(subjects, new, pool, [slots EXCEPT ![s].valid = FALSE], next, Released(slots, disposed, s))
    BY ONLY <1>1, <1>2, <1>3, <1>4, Emptied
  <1> QED
    BY <1>5 DEF s

LEMMA DropObservationKeeps ==
    ASSUME SpaceInv, NEW o \in Handles, DropObservation(o)
    PROVE  SpaceInv'
  <1> DEFINE s == obs[o].slot
  <1>1. /\ SubjectsOK(subjects, next) /\ CellsOK(subjects, obs, pool, slots, next, disposed)
        /\ TableOK(map) /\ RowsOf(map) = LiveRows(subjects)
    BY Parts
  <1>2. /\ obs[o] # NoHandle /\ obs' = [obs EXCEPT ![o] = NoHandle] /\ Reclaim(s, Sole(o))
        /\ uses' = {} /\ next' = next /\ map' = map /\ pool' = pool /\ subjects' = subjects
    BY DEF DropObservation
  <1>3. PICK new : new = obs'
    OBVIOUS
  <1>4. /\ s \in Slots /\ ObsOK(subjects, new) /\ PoolOK(subjects, new, pool, next)
        /\ \A t \in Slots : Unused(subjects, obs, t) => Unused(subjects, new, t)
        /\ \A t \in Slots : t # s /\ Reached(subjects, obs, pool, t) => Reached(subjects, new, pool, t)
        /\ ~Sole(o) => Reached(subjects, new, pool, s)
    BY Zenon, <1>2, <1>3, Loses
  <1>5. CellsOK(subjects, new, pool, slots', next, disposed')
    <2>1. CASE Sole(o)
      <3>1. slots' = [slots EXCEPT ![s].valid = FALSE] /\ disposed' = Released(slots, disposed, s)
        BY <1>2, <2>1 DEF Reclaim, Released, Dispose
      <3>2. CellsOK(subjects, new, pool, [slots EXCEPT ![s].valid = FALSE], next, Released(slots, disposed, s))
        BY Zenon, <1>2, <1>3, <2>1, LastHandle
      <3> QED
        BY <3>1, <3>2
    <2>2. CASE ~Sole(o)
      <3>1. slots' = [slots EXCEPT ![s].valid = slots[s].valid] /\ disposed' = disposed
        BY <1>2, <2>2 DEF Reclaim
      <3>2. slots \in [Slots -> SlotRecords] /\ slots[s] \in SlotRecords
        BY <1>1, <1>4 DEF CellsOK
      <3>3. slots' = slots
        <4>1. [slots[s] EXCEPT !.valid = slots[s].valid] = slots[s]
          BY <3>2 DEF SlotRecords
        <4> HIDE DEF s
        <4>2. slots' = [slots EXCEPT ![s] = [slots[s] EXCEPT !.valid = slots[s].valid]]
          BY <1>4, <3>1, <3>2
        <4> QED
          BY <1>4, <3>2, <4>1, <4>2
      <3>4. /\ \A t \in Slots : \A g : Current(subjects, g, t) => Current(subjects, g, t)
            /\ \A t \in Slots : Reached(subjects, obs, pool, t) => Reached(subjects, new, pool, t)
            /\ \A t \in Slots : t \notin pool /\ Unused(subjects, obs, t) => t \notin pool /\ Unused(subjects, new, t)
            /\ \A g \in Generations : subjects[g].phase = "live" => subjects[g] = subjects[g]
        BY Zenon, <1>4, <2>2
      <3>5. next \in Nat
        BY <1>1 DEF SubjectsOK
      <3>6. CellsOK(subjects, new, pool, slots, next, disposed)
        BY ONLY <1>1, <3>4, <3>5, CellsKept
      <3> QED
        BY <3>1, <3>3, <3>6
    <2> QED
      BY <2>1, <2>2
  <1> QED
    BY <1>1, <1>2, <1>3, <1>4, <1>5, NoUses, PartsNext

LEMMA TakeSoleKeeps ==
    ASSUME SpaceInv, NEW o \in Handles, TakeSole(o)
    PROVE  SpaceInv'
  <1> DEFINE s == obs[o].slot
  <1>1. /\ SubjectsOK(subjects, next) /\ CellsOK(subjects, obs, pool, slots, next, disposed)
        /\ TableOK(map) /\ RowsOf(map) = LiveRows(subjects) /\ ObsOK(subjects, obs)
    BY Parts
  <1>2. /\ obs[o] # NoHandle /\ Sole(o) /\ slots[s].completed
        /\ obs' = [obs EXCEPT ![o] = NoHandle] /\ slots' = [slots EXCEPT ![s].valid = FALSE]
        /\ disposed' = [disposed EXCEPT ![slots[s].outcome] = @ + 1]
        /\ uses' = {<<slots[s].outcome, obs[o].generation>>}
        /\ next' = next /\ map' = map /\ pool' = pool /\ subjects' = subjects
    BY DEF TakeSole, Dispose
  <1>3. PICK new : new = obs'
    OBVIOUS
  <1>4. s \in Slots /\ ObsOK(subjects, new) /\ PoolOK(subjects, new, pool, next)
    BY Zenon, <1>2, <1>3, Loses
  <1>5. SlotOK(subjects, obs, pool, slots[s], s, next, disposed)
    BY <1>1, <1>4 DEF CellsOK
  <1>6. slots[s].valid
    BY <1>2, <1>5 DEF SlotOK, Unused
  <1>7. disposed' = Released(slots, disposed, s)
    BY <1>2, <1>6 DEF Released
  <1>8. CellsOK(subjects, new, pool, [slots EXCEPT ![s].valid = FALSE], next, Released(slots, disposed, s))
    BY Zenon, <1>2, <1>3, LastHandle
  <1>9. Exact(uses')
    <2>1. Current(subjects, slots[s].outcome, s) /\ Current(subjects, obs[o].generation, s)
      BY <1>1, <1>2, <1>5 DEF SlotOK, ObsOK
    <2>2. slots[s].outcome = obs[o].generation
      BY <2>1, CurrentOne
    <2> QED
      BY <1>2, <2>2 DEF Exact
  <1> QED
    BY Zenon, <1>1, <1>2, <1>3, <1>4, <1>7, <1>8, <1>9, PartsNext

LEMMA RegisterKeeps ==
    ASSUME SpaceInv, NEW o \in Handles, RegisterWaiter(o)
    PROVE  SpaceInv'
  <1> DEFINE s == obs[o].slot
             g == obs[o].generation
             cell == [slots[s] EXCEPT !.waiters = slots[s].waiters \cup {g}]
  <1>1. /\ SubjectsOK(subjects, next) /\ CellsOK(subjects, obs, pool, slots, next, disposed)
        /\ TableOK(map) /\ RowsOf(map) = LiveRows(subjects) /\ ObsOK(subjects, obs)
        /\ PoolOK(subjects, obs, pool, next)
    BY Parts
  <1>2. /\ obs[o] # NoHandle /\ ~slots[s].completed
        /\ slots' = [slots EXCEPT ![s].waiters = slots[s].waiters \cup {g}] /\ uses' = {}
        /\ next' = next /\ map' = map /\ pool' = pool /\ subjects' = subjects /\ obs' = obs /\ disposed' = disposed
    BY DEF RegisterWaiter
  <1>3. s \in Slots /\ Current(subjects, g, s)
    BY <1>1, <1>2 DEF ObsOK
  <1>4. g \in Generations /\ s < next
    BY <1>1, <1>3, CurrentOld
  <1>5. slots \in [Slots -> SlotRecords] /\ slots[s] \in SlotRecords
    BY <1>1, <1>3 DEF CellsOK
  <1>6. /\ cell \in SlotRecords /\ cell.waiters = slots[s].waiters \cup {g} /\ cell.completed = slots[s].completed
        /\ cell.valid = slots[s].valid /\ cell.outcome = slots[s].outcome
    BY <1>4, <1>5 DEF SlotRecords
  <1> HIDE DEF s, g
  <1>7. slots' = [slots EXCEPT ![s] = cell]
    BY <1>2, <1>3, <1>5
  <1> HIDE DEF cell
  <1>8. slots' \in [Slots -> SlotRecords] /\ slots'[s] = cell /\ \A t \in Slots : t # s => slots'[t] = slots[t]
    BY <1>3, <1>5, <1>6, <1>7
  <1>9. SlotOK(subjects, obs, pool, cell, s, next, disposed)
    <2>1. SlotOK(subjects, obs, pool, slots[s], s, next, disposed)
      BY <1>1, <1>3 DEF CellsOK
    <2>2. ~(s >= next)
      <3>1. s \in Nat /\ next \in Nat
        BY <1>1, <1>3, SlotNumbers DEF SubjectsOK
      <3> QED
        BY ONLY <1>4, <3>1
    <2> QED
      BY <1>3, <1>6, <2>1, <2>2 DEF SlotOK
  <1>10. \A t \in Slots : slots'[t].completed = slots[t].completed
    BY <1>6, <1>8
  <1>11. DisposedOK(subjects, slots', next, disposed)
    <2>1. DisposedOK(subjects, slots, next, disposed)
      BY <1>1 DEF CellsOK
    <2>2. \A h \in Generations : subjects[h].phase = "live" => subjects[h].slot \in Slots
      BY ZenonT(60), <1>1, SubjectFacts DEF Held
    <2> QED
      BY <1>10, <2>1, <2>2 DEF DisposedOK
  <1>12. CellsOK(subjects, obs, pool, slots', next, disposed)
    <2>1. \A t \in Slots : SlotOK(subjects, obs, pool, slots'[t], t, next, disposed)
      BY <1>1, <1>8, <1>9 DEF CellsOK
    <2> QED
      BY <1>8, <1>11, <2>1 DEF CellsOK
  <1> QED
    BY <1>1, <1>2, <1>12, NoUses, PartsNext

LEMMA ReadKeeps ==
    ASSUME SpaceInv, NEW o \in Handles, ReadOutcome(o)
    PROVE  SpaceInv'
  <1> DEFINE s == obs[o].slot
  <1>1. /\ SubjectsOK(subjects, next) /\ CellsOK(subjects, obs, pool, slots, next, disposed)
        /\ TableOK(map) /\ RowsOf(map) = LiveRows(subjects) /\ ObsOK(subjects, obs)
        /\ PoolOK(subjects, obs, pool, next)
    BY Parts
  <1>2. /\ obs[o] # NoHandle /\ slots[s].completed /\ uses' = {<<slots[s].outcome, obs[o].generation>>}
        /\ next' = next /\ map' = map /\ pool' = pool /\ slots' = slots /\ subjects' = subjects
        /\ obs' = obs /\ disposed' = disposed
    BY DEF ReadOutcome
  <1>3. s \in Slots /\ Current(subjects, obs[o].generation, s)
    BY ZenonT(60), <1>1, <1>2 DEF ObsOK
  <1>4. Current(subjects, slots[s].outcome, s)
    BY Zenon, <1>1, <1>2, <1>3 DEF CellsOK, SlotOK
  <1>5. slots[s].outcome = obs[o].generation
    BY <1>3, <1>4, CurrentOne
  <1>6. Exact(uses')
    BY <1>2, <1>5 DEF Exact
  <1> QED
    BY ZenonT(60), <1>1, <1>2, <1>6, PartsNext

LEMMA CompleteKeeps ==
    ASSUME SpaceInv, NEW g \in Generations, Complete(g)
    PROVE  SpaceInv'
  <1> DEFINE s == subjects[g].slot
             cell == [completed |-> TRUE, valid |-> TRUE, outcome |-> g, waiters |-> {}]
  <1>1. /\ SubjectsOK(subjects, next) /\ CellsOK(subjects, obs, pool, slots, next, disposed)
        /\ TableOK(map) /\ RowsOf(map) = LiveRows(subjects) /\ ObsOK(subjects, obs)
        /\ PoolOK(subjects, obs, pool, next)
    BY Parts
  <1>2. /\ subjects[g].phase = "live" /\ ~slots[s].completed /\ slots' = [slots EXCEPT ![s] = cell]
        /\ uses' = {<<r, g>> : r \in slots[s].waiters}
        /\ next' = next /\ map' = map /\ pool' = pool /\ subjects' = subjects /\ obs' = obs /\ disposed' = disposed
    BY DEF Complete
  <1>3. s \in Slots /\ s < next /\ Current(subjects, g, s)
    BY Zenon, <1>1, <1>2, SubjectFacts DEF Held
  <1>4. /\ cell \in SlotRecords /\ cell.completed /\ cell.valid /\ cell.outcome = g /\ cell.waiters = {}
    BY DEF SlotRecords
  <1>5. slots \in [Slots -> SlotRecords] /\ DisposedOK(subjects, slots, next, disposed)
    BY <1>1 DEF CellsOK
  <1>6. disposed[g] = 0 /\ Reached(subjects, obs, pool, s)
    BY <1>2, <1>5 DEF DisposedOK, Reached, Held
  <1> HIDE DEF s, cell
  <1>7. slots' \in [Slots -> SlotRecords] /\ slots'[s] = cell /\ \A t \in Slots : t # s => slots'[t] = slots[t]
    BY ZenonT(60), <1>2, <1>3, <1>4, <1>5
  <1>8. SlotOK(subjects, obs, pool, cell, s, next, disposed)
    <2>1. ~(s >= next)
      <3>1. s \in Nat /\ next \in Nat
        BY <1>1, <1>3, SlotNumbers DEF SubjectsOK
      <3> QED
        BY ONLY <1>3, <3>1
    <2> QED
      BY <1>3, <1>4, <1>6, <2>1 DEF SlotOK
  <1>9. DisposedOK(subjects, slots', next, disposed)
    <2>1. \A h \in Generations : subjects[h].phase = "live" => subjects[h].slot \in Slots
      BY Zenon, <1>1, SubjectFacts DEF Held
    <2> QED
      BY <1>4, <1>5, <1>7, <2>1 DEF DisposedOK
  <1>10. CellsOK(subjects, obs, pool, slots', next, disposed)
    <2>1. \A t \in Slots : SlotOK(subjects, obs, pool, slots'[t], t, next, disposed)
      BY <1>1, <1>7, <1>8 DEF CellsOK
    <2> QED
      BY <1>7, <1>9, <2>1 DEF CellsOK
  <1>11. Exact(uses')
    <2>1. \A r \in slots[s].waiters : Current(subjects, r, s)
      BY Zenon, <1>1, <1>3 DEF CellsOK, SlotOK
    <2>2. \A r \in slots[s].waiters : r = g
      BY <1>3, <2>1, CurrentOne
    <2> QED
      BY <1>2, <2>2 DEF Exact
  <1> QED
    BY <1>1, <1>2, <1>10, <1>11, PartsNext

LEMMA DropSubjectKeeps ==
    ASSUME SpaceInv, NEW g \in Generations, DropSubject(g)
    PROVE  SpaceInv'
  <1> DEFINE s == subjects[g].slot
             k == subjects[g].key
  <1>1. /\ SubjectsOK(subjects, next) /\ CellsOK(subjects, obs, pool, slots, next, disposed)
        /\ TableOK(map) /\ RowsOf(map) = LiveRows(subjects) /\ ObsOK(subjects, obs)
        /\ PoolOK(subjects, obs, pool, next)
    BY Parts
  <1>2. /\ subjects[g].phase = "live" /\ subjects' = Phased(subjects, g, "retiring") /\ uses' = {}
        /\ next' = next /\ slots' = slots /\ obs' = obs /\ disposed' = disposed
    BY DEF DropSubject, Phased
  <1>3. Get(k) = g
    BY Zenon, <1>1, <1>2, GetLive
  <1>4. map' = RemoveRow(map, <<k, g>>) /\ pool' = IF Recyclable(g) THEN pool \cup {s} ELSE pool
    BY <1>3 DEF DropSubject
  <1>5. PICK sub2 : sub2 = subjects'
    OBVIOUS
  <1>6. /\ sub2[g].phase = "retiring"
        /\ \A h \in Generations : sub2[h].slot = subjects[h].slot /\ sub2[h].key = subjects[h].key
                                  /\ (h # g => sub2[h] = subjects[h])
        /\ \A h, t : Current(subjects, h, t) <=> Current(sub2, h, t)
        /\ SubjectsOK(sub2, next)
    <2>1. "retiring" \in {"retiring", "dropped"} /\ subjects[g].phase \in Held
      BY <1>2 DEF Held
    <2> QED
      BY <1>1, <1>2, <1>5, <2>1, PhasedAt
  <1>7. s \in Slots /\ s < next
    BY Zenon, <1>1, <1>2, SubjectFacts DEF Held
  <1>8. TableOK(map') /\ RowsOf(map') = LiveRows(sub2)
    <2>1. <<k, g>> \in RowsOf(map)
      BY <1>1, <1>2 DEF LiveRows
    <2>2. TableOK(map') /\ RowsOf(map') = RowsOf(map) \ {<<k, g>>}
      BY <1>1, <1>4, <2>1, RemoveRows
    <2>3. LiveRows(sub2) = LiveRows(subjects) \ {<<k, g>>}
      BY <1>2, <1>6 DEF LiveRows
    <2> QED
      BY <1>1, <2>2, <2>3
  <1> HIDE DEF s, k
  <1>9. ObsOK(sub2, obs)
    BY <1>1, <1>6 DEF ObsOK
  <1>10. \A t \in Slots : Unused(subjects, obs, t) => t # s /\ Unused(sub2, obs, t)
    BY <1>2, <1>6 DEF Unused, s
  <1>11. \A t \in Slots : Reached(subjects, obs, pool, t) => Reached(sub2, obs, pool', t)
    <2>1. \A h \in Generations : subjects[h].phase \in Held => sub2[h].phase \in Held
      BY <1>6 DEF Held
    <2> QED
      BY <1>4, <1>6, <2>1 DEF Reached
  <1>12. PoolOK(sub2, obs, pool', next)
    <2>1. /\ pool \subseteq Slots /\ IsFiniteSet(pool) /\ Cardinality(pool) <= PoolCap
          /\ \A t \in pool : t < next /\ Unused(sub2, obs, t)
      BY <1>1, <1>10 DEF PoolOK
    <2>2. CASE ~Recyclable(g)
      BY <1>4, <2>1, <2>2 DEF PoolOK
    <2>3. CASE Recyclable(g)
      <3>1. /\ Observations(s) = {} /\ Subjects(s) = {g} /\ s \notin pool /\ Cardinality(pool) < PoolCap
            /\ pool' = pool \cup {s}
        BY <1>4, <2>3 DEF Recyclable, s
      <3>2. Unused(sub2, obs, s)
        <4>1. \A h \in Generations : subjects[h].slot = s /\ h # g => subjects[h].phase # "live"
          BY <3>1 DEF Subjects, Held
        <4>2. \A o \in Handles : obs[o].slot # s
          BY <3>1 DEF Observations
        <4> QED
          BY <1>6, <4>1, <4>2 DEF Unused
      <3>3. IsFiniteSet(pool \cup {s}) /\ Cardinality(pool \cup {s}) = Cardinality(pool) + 1
        BY <2>1, <3>1, FS_AddElement
      <3>4. Cardinality(pool \cup {s}) <= PoolCap
        <4>1. Cardinality(pool) \in Nat
          BY <2>1, FS_CardinalityType
        <4> QED
          BY <3>1, <3>3, <4>1, PoolCapAssumption
      <3> QED
        BY <1>7, <2>1, <3>1, <3>2, <3>3, <3>4 DEF PoolOK
    <2> QED
      BY <2>2, <2>3
  <1>13. PICK po2 : po2 = pool'
    OBVIOUS
  <1>14. CellsOK(sub2, obs, po2, slots, next, disposed)
    <2>1. next \in Nat
      BY <1>1 DEF SubjectsOK
    <2>2. /\ \A t \in Slots : \A h : Current(subjects, h, t) => Current(sub2, h, t)
          /\ \A t \in Slots : Reached(subjects, obs, pool, t) => Reached(sub2, obs, po2, t)
      BY Zenon, <1>6, <1>11, <1>13
    <2>3. \A t \in Slots : t \notin pool /\ Unused(subjects, obs, t) => t \notin po2 /\ Unused(sub2, obs, t)
      BY <1>4, <1>10, <1>13
    <2>4. \A h \in Generations : sub2[h].phase = "live" => subjects[h] = sub2[h]
      BY <1>6
    <2> QED
      BY ONLY Zenon, <1>1, <2>1, <2>2, <2>3, <2>4, CellsKept
  <1> QED
    BY Zenon, <1>2, <1>5, <1>6, <1>8, <1>9, <1>12, <1>13, <1>14, NoUses, PartsNext

LEMMA DropFieldsKeeps ==
    ASSUME SpaceInv, NEW g \in Generations, DropFields(g)
    PROVE  SpaceInv'
  <1> DEFINE s == subjects[g].slot
             last == Subjects(s) = {g} /\ Observations(s) = {} /\ Mapped(s) = {} /\ s \notin pool
  <1>1. /\ SubjectsOK(subjects, next) /\ CellsOK(subjects, obs, pool, slots, next, disposed)
        /\ TableOK(map) /\ RowsOf(map) = LiveRows(subjects) /\ ObsOK(subjects, obs)
        /\ PoolOK(subjects, obs, pool, next)
    BY Parts
  <1>2. /\ subjects[g].phase = "retiring" /\ subjects' = Phased(subjects, g, "dropped") /\ uses' = {}
        /\ Reclaim(s, last) /\ next' = next /\ map' = map /\ obs' = obs /\ pool' = pool
    BY DEF DropFields, Phased
  <1>3. PICK sub2 : sub2 = subjects'
    OBVIOUS
  <1>4. /\ sub2[g].phase = "dropped"
        /\ \A h \in Generations : sub2[h].slot = subjects[h].slot /\ sub2[h].key = subjects[h].key
                                  /\ (h # g => sub2[h] = subjects[h])
        /\ \A h, t : Current(subjects, h, t) <=> Current(sub2, h, t)
        /\ SubjectsOK(sub2, next)
    <2>1. "dropped" \in {"retiring", "dropped"} /\ subjects[g].phase \in Held
      BY ZenonT(60), <1>2 DEF Held
    <2> QED
      BY <1>1, <1>2, <1>3, <2>1, PhasedAt
  <1>5. s \in Slots /\ s < next /\ g \in Subjects(s)
    BY ZenonT(60), <1>1, <1>2, SubjectFacts DEF Held, Subjects
  <1>6. LiveRows(sub2) = LiveRows(subjects)
    BY <1>2, <1>4 DEF LiveRows
  <1>7. ObsOK(sub2, obs)
    BY Zenon, <1>1, <1>4 DEF ObsOK
  <1>8. \A t : Unused(subjects, obs, t) => Unused(sub2, obs, t)
    BY Zenon, <1>4 DEF Unused
  <1>9. PoolOK(sub2, obs, pool, next)
    BY <1>1, <1>8 DEF PoolOK
  <1>10. \A t \in Slots : t # s /\ Reached(subjects, obs, pool, t) => Reached(sub2, obs, pool, t)
    BY <1>4 DEF Reached
  <1>11. /\ \A t \in Slots : \A h : Current(subjects, h, t) => Current(sub2, h, t)
         /\ \A t \in Slots : t \notin pool /\ Unused(subjects, obs, t) => t \notin pool /\ Unused(sub2, obs, t)
         /\ \A h \in Generations : sub2[h].phase = "live" => subjects[h] = sub2[h]
         /\ next \in Nat /\ next <= next
    BY <1>1, <1>4, <1>8 DEF SubjectsOK
  <1>12. CellsOK(sub2, obs, pool, slots', next, disposed')
    <2>1. CASE last
      <3>1. slots' = [slots EXCEPT ![s].valid = FALSE] /\ disposed' = Released(slots, disposed, s)
        BY <1>2, <2>1 DEF Reclaim, Released, Dispose
      <3>2. s \notin pool /\ Unused(sub2, obs, s)
        BY <1>4, <2>1 DEF Unused, Subjects, Observations, Held
      <3> HIDE DEF s, last
      <3>3. \A t \in Slots : t # s /\ t \notin pool /\ Unused(subjects, obs, t) => t \notin pool /\ Unused(sub2, obs, t)
        BY <1>11
      <3>4. CellsOK(sub2, obs, pool, [slots EXCEPT ![s].valid = FALSE], next, Released(slots, disposed, s))
        BY ONLY <1>1, <1>5, <1>10, <1>11, <3>2, <3>3, Emptied
      <3> QED
        BY <3>1, <3>4
    <2>2. CASE ~last
      <3>1. slots' = [slots EXCEPT ![s].valid = slots[s].valid] /\ disposed' = disposed
        BY Zenon, <1>2, <2>2 DEF Reclaim
      <3>2. slots \in [Slots -> SlotRecords] /\ slots[s] \in SlotRecords
        BY Zenon, <1>1, <1>5 DEF CellsOK
      <3>3. Reached(sub2, obs, pool, s)
        <4>1. \/ Subjects(s) # {g} \/ Observations(s) # {} \/ Mapped(s) # {} \/ s \in pool
          BY <2>2
        <4>2. CASE Subjects(s) # {g}
          <5>1. PICK h \in Generations : h # g /\ subjects[h].slot = s /\ subjects[h].phase \in Held
            BY <1>5, <4>2 DEF Subjects
          <5> QED
            BY <1>4, <5>1 DEF Reached
        <4>3. CASE Observations(s) # {} \/ s \in pool
          BY <4>3 DEF Observations, Reached
        <4>4. CASE Mapped(s) # {}
          <5>1. PICK k \in Keys : ~Vacant(k) /\ subjects[Get(k)].slot = s
            BY <4>4 DEF Mapped
          <5>2. Get(k) \in Generations /\ subjects[Get(k)].phase = "live"
            BY <1>1, <5>1, GetSome
          <5>3. Get(k) # g
            BY <1>2, <5>2
          <5> QED
            BY <1>4, <5>1, <5>2, <5>3 DEF Reached, Held
        <4> QED
          BY <4>1, <4>2, <4>3, <4>4
      <3> HIDE DEF s, last
      <3>4. slots' = slots
        <4>1. [slots[s] EXCEPT !.valid = slots[s].valid] = slots[s]
          BY <3>2 DEF SlotRecords
        <4>2. slots' = [slots EXCEPT ![s] = [slots[s] EXCEPT !.valid = slots[s].valid]]
          BY <1>5, <3>1, <3>2
        <4> QED
          BY <1>5, <3>2, <4>1, <4>2
      <3>5. \A t \in Slots : Reached(subjects, obs, pool, t) => Reached(sub2, obs, pool, t)
        BY <1>10, <3>3
      <3>6. CellsOK(sub2, obs, pool, slots, next, disposed)
        BY ONLY Zenon, <1>1, <1>11, <3>5, CellsKept
      <3> QED
        BY <3>1, <3>4, <3>6
    <2> QED
      BY <2>1, <2>2
  <1> QED
    BY Zenon, <1>1, <1>2, <1>3, <1>4, <1>6, <1>7, <1>9, <1>12, NoUses, PartsNext

-----------------------------------------------------------------------------
LEMMA InitSpace == SpaceInit => SpaceInv
  <1> SUFFICES ASSUME SpaceInit PROVE SpaceInv
    OBVIOUS
  <1>1. NoSubject \in SubjectRecords /\ NoHandle \in ObsRecords /\ NoSubject.phase = "unborn" /\ NoHandle.slot = Nothing
    BY DEF NoSubject, NoHandle, SubjectRecords, ObsRecords
  <1>2. TableOK(map) /\ RowsOf(map) = {}
    <2>1. PICK rows : rows = <<>>
      OBVIOUS
    <2>2. map = Inline(rows)
      BY <2>1 DEF SpaceInit, EmptyMap
    <2>3. rows \in Seq(Keys \X Generations) /\ DOMAIN rows = {}
      BY <2>1
    <2>4. map.rows = rows /\ RowsOf(map) = {rows[i] : i \in DOMAIN rows}
      BY <2>2, RowsInline
    <2> QED
      BY <2>2, <2>3, <2>4 DEF TableOK
  <1>3. LiveRows(subjects) = {}
    BY <1>1 DEF SpaceInit, LiveRows
  <1>4. SubjectsOK(subjects, next)
    BY <1>1 DEF SpaceInit, SubjectsOK
  <1>5. ObsOK(subjects, obs)
    BY <1>1 DEF SpaceInit, ObsOK
  <1>6. PoolOK(subjects, obs, pool, next)
    <2>1. IsFiniteSet({}) /\ Cardinality({}) = 0
      BY FS_EmptySet
    <2> QED
      BY <2>1, PoolCapAssumption DEF SpaceInit, PoolOK
  <1>7. CellsOK(subjects, obs, pool, slots, next, disposed)
    <2>1. Pristine \in SlotRecords /\ \A s : SlotOK(subjects, obs, pool, Pristine, s, next, disposed)
      BY PristineOK
    <2>2. slots \in [Slots -> SlotRecords] /\ \A s \in Slots : slots[s] = Pristine
      BY <2>1 DEF SpaceInit
    <2>3. DisposedOK(subjects, slots, next, disposed)
      BY DEF SpaceInit, DisposedOK
    <2> QED
      BY <2>1, <2>2, <2>3 DEF CellsOK
  <1> QED
    BY <1>2, <1>3, <1>4, <1>5, <1>6, <1>7, NoUses, Parts DEF SpaceInit

LEMMA SpaceStep == SpaceInv /\ [SpaceNext]_spaceVars => SpaceInv'
  <1> SUFFICES ASSUME SpaceInv, [SpaceNext]_spaceVars PROVE SpaceInv'
    OBVIOUS
  <1>1. CASE UNCHANGED spaceVars
    <2>1. /\ next' = next /\ map' = map /\ pool' = pool /\ slots' = slots /\ subjects' = subjects
          /\ obs' = obs /\ disposed' = disposed /\ uses' = uses
      BY <1>1 DEF spaceVars
    <2> QED
      BY <2>1, Parts, PartsNext
  <1>2. CASE \E k \in Keys : SubjectFresh(k) \/ SubjectReuse(k) \/ SubjectPanics(k)
    BY <1>2, FreshKeeps, ReuseKeeps, PanicsKeeps
  <1>3. CASE \E o \in Handles : RegisterWaiter(o) \/ ReadOutcome(o) \/ DropObservation(o) \/ TakeSole(o)
    BY <1>3, RegisterKeeps, ReadKeeps, DropObservationKeeps, TakeSoleKeeps
  <1>4. CASE \E o \in Handles : (\E k \in Keys : Observe(o, k)) \/ (\E p \in Handles : Clone(o, p))
    BY <1>4, ObserveKeeps, CloneKeeps
  <1>5. CASE \E g \in Generations : Complete(g) \/ DropSubject(g) \/ DropFields(g)
    BY <1>5, CompleteKeeps, DropSubjectKeeps, DropFieldsKeeps
  <1> QED
    BY <1>1, <1>2, <1>3, <1>4, <1>5 DEF SpaceNext

\* The invariant is what the property says of a state.
LEMMA ExactFromInv == SpaceInv => GenerationsExact
  <1> SUFFICES ASSUME SpaceInv PROVE GenerationsExact
    OBVIOUS
  <1>1. /\ SubjectsOK(subjects, next) /\ CellsOK(subjects, obs, pool, slots, next, disposed)
        /\ RowsOf(map) = LiveRows(subjects) /\ PoolOK(subjects, obs, pool, next) /\ Exact(uses)
    BY Parts
  <1>2. ASSUME NEW s \in pool
        PROVE  /\ Observations(s) = {} /\ Mapped(s) = {}
               /\ \A g \in Subjects(s) : subjects[g].phase = "retiring"
    <2>1. Unused(subjects, obs, s)
      BY <1>1, <1>2 DEF PoolOK
    <2>2. ASSUME NEW k \in Mapped(s) PROVE FALSE
      <3>1. k \in Keys /\ ~Vacant(k) /\ subjects[Get(k)].slot = s
        BY <2>2 DEF Mapped
      <3>2. Get(k) \in Generations /\ subjects[Get(k)].phase = "live"
        BY <1>1, <3>1, GetSome
      <3> QED
        BY <2>1, <3>1, <3>2 DEF Unused
    <2> QED
      BY <2>1, <2>2 DEF Unused, Observations, Subjects, Held
  <1>3. NamespaceExact
    BY <1>1, <1>2 DEF NamespaceExact, LiveRows, PoolOK
  <1>4. GenerationExact
    BY <1>1 DEF GenerationExact, Exact
  <1>5. DisposedOnce
    <2>1. ASSUME NEW g \in Generations PROVE disposed[g] <= 1
      <3>1. disposed[g] \in {0, 1}
        BY <1>1 DEF CellsOK, DisposedOK
      <3> QED
        BY <3>1
    <2>2. ASSUME NEW s \in Slots, slots[s].valid
          PROVE  disposed[slots[s].outcome] = 0 /\ (s \in pool \/ Subjects(s) # {} \/ Observations(s) # {})
      <3>1. disposed[slots[s].outcome] = 0 /\ Reached(subjects, obs, pool, s)
        BY Zenon, <1>1, <2>2 DEF CellsOK, SlotOK
      <3> QED
        BY <3>1 DEF Reached, Subjects, Observations
    <2> QED
      BY <2>1, <2>2 DEF DisposedOnce
  <1> QED
    BY <1>3, <1>4, <1>5 DEF GenerationsExact

\* GenerationsExact in every reachable state of the namespace, for any number of keys,
\* handles and generations, any pool and inline capacity and any set of destructors that
\* panic: ObservationSpace::subject, observe and the drops of observe/mod.rs recycle slots
\* and keys without one generation reaching another's outcome, row or disposal.
THEOREM GenerationsKept == SpaceSpec => []GenerationsExact
  <1>1. SpaceInit => SpaceInv
    BY InitSpace
  <1>2. SpaceInv /\ [SpaceNext]_spaceVars => SpaceInv'
    BY SpaceStep
  <1>3. SpaceInv => GenerationsExact
    BY ExactFromInv
  <1> QED
    BY <1>1, <1>2, <1>3, PTL DEF SpaceSpec
=============================================================================
