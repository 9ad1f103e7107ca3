--------------------------- MODULE FmRows_proofs ----------------------------
(***************************************************************************)
(* FmRows for every number of threads, slots, words and records, every     *)
(* width of the sequence counter, and every workload in which a thread     *)
(* that clears the table is the only one that deletes.  First the theorems *)
(* about writers, references, the freelist and the row count.  Then the    *)
(* seqlock: a row that no update is in the middle of is whole, and a read  *)
(* returns such a row.                                                     *)
(***************************************************************************)
EXTENDS FmRows_base, FiniteSetTheorems

\* The leaves below are for Zenon unless they name SMTT.
USE ZenonT(30)

-----------------------------------------------------------------------------
(* The life cycle of slots.                                                *)

\* A table has finitely many slots.
LEMMA SlotsFinite ==
    IsFiniteSet(Slots) /\ Cardinality(Slots) \in Nat /\ IsFiniteSet(ActiveSlots)
<1>1. IsFiniteSet(Slots)
  BY SMTT(30), CapOK, FS_Interval DEF Slots
<1>2. ActiveSlots \in SUBSET Slots
  BY DEF ActiveSlots
<1> QED BY <1>1, <1>2, FS_Subset, FS_CardinalityType

LEMMA Counts == Counting
<1>1. \A S \in SUBSET Slots : IsFiniteSet(S)
  BY SlotsFinite, FS_Subset
<1>2. IsFiniteSet({}) /\ Cardinality({}) = 0
  BY FS_EmptySet
<1>3. ASSUME NEW S, IsFiniteSet(S) PROVE Cardinality(S) \in Nat
  BY <1>3, FS_CardinalityType
<1>4. ASSUME NEW S, NEW x, IsFiniteSet(S), x \notin S
      PROVE  IsFiniteSet(S \union {x}) /\ Cardinality(S \union {x}) = Cardinality(S) + 1
  BY <1>4, FS_AddElement
<1>5. ASSUME NEW S, NEW x, IsFiniteSet(S), x \in S
      PROVE  IsFiniteSet(S \ {x}) /\ Cardinality(S \ {x}) = Cardinality(S) - 1
  BY <1>5, FS_RemoveElement
<1> QED BY <1>1, <1>2, <1>3, <1>4, <1>5 DEF Counting

\* LifeInv holds in every reachable state.
LEMMA LifeCorrect == ASSUME ClearsApart PROVE Spec => [](Types /\ LocksOK /\ LifeInv)
<1>1. Init => Types /\ LocksOK /\ LifeInv
  BY TypesInit, LocksInit, LifeInit, Counts
<1>2. Types /\ LocksOK /\ LifeInv /\ [Next]_vars => (Types /\ LocksOK /\ LifeInv)'
  BY TypesStep, LocksStep, LifeStep, Counts
<1> QED BY <1>1, <1>2, PTL DEF Spec

\* From its generation check to the end of its write, every update and delete
\* works on the live row its reference names, under the row's wlock
\* (fm_core_update_row, fm_core_delete_row and their _locked variants).
THEOREM WritersSafe == ASSUME ClearsApart PROVE Spec => []WritersOwnTheirRow
<1>1. Types /\ LocksOK /\ LifeInv => WritersOwnTheirRow
  BY Facts, LifeWork DEF Work, WorkOK, WorkAt, LockFacts, WritePhase, WritersOwnTheirRow
<1> QED BY <1>1, LifeCorrect, PTL

\* No two rows of a slot are ever published under the same generation, so a
\* reference <slot, generation> names one row for ever (fm_core_alloc_slot,
\* fm_core_delete_row, fm_core_insert_row).
THEOREM RefsUnique == ASSUME ClearsApart PROVE Spec => []FreshGeneration
<1>1. Types /\ LocksOK /\ LifeInv => FreshGeneration
  BY LifeWork DEF Work, WorkOK, WorkAt, InsPhase, FreshGeneration
<1> QED BY <1>1, LifeCorrect, PTL

-----------------------------------------------------------------------------
(* The freelist as SlotsAccounted reads it.                                *)

\* A nonempty set of naturals has a least element: what a recursive function
\* computes is shown by looking at the first argument where it might differ.
LEMMA LeastNat ==
    ASSUME NEW T \in SUBSET Nat, T # {} PROVE \E x \in T : \A y \in T : x <= y
<1>1. PICK x \in T : \A y \in T : ~ (<<y, x>> \in OpToRel(<, Nat))
  BY NatLessThanWellFounded, WFMin
<1>2. \A y \in T : ~(y < x)
  BY <1>1 DEF OpToRel
<1> QED BY SMTT(30), <1>2

\* FreeNth walks the list F and stays at FM_NULL_SLOT after its end.
LEMMA FreeNthOfList ==
    ASSUME NEW F \in Seq(Slots), FreeList(F), -1 \notin Slots
    PROVE  FreeNth = [n \in 0 .. Cardinality(Slots) |->
                        IF n < Len(F) THEN F[n + 1] ELSE FM_NULL_SLOT]
<1> DEFINE N == Cardinality(Slots)
           g == [n \in 0 .. N |-> IF n < Len(F) THEN F[n + 1] ELSE FM_NULL_SLOT]
           R(h) == [n \in 0 .. N |->
                        IF n = 0 THEN free_head
                        ELSE IF h[n - 1] = FM_NULL_SLOT THEN FM_NULL_SLOT
                        ELSE free_next[h[n - 1]]]
<1>1. N \in Nat /\ Len(F) \in Nat
  BY SMTT(30), SlotsFinite
<1> HIDE DEF N
<1>2. ASSUME NEW n \in 0 .. N PROVE g[n] = R(g)[n]
  <2>1. g[n] = IF n < Len(F) THEN F[n + 1] ELSE FM_NULL_SLOT
    OBVIOUS
  <2>2. CASE n = 0
    <3>1. R(g)[n] = free_head
      BY <2>2
    <3>2. free_head = IF Len(F) = 0 THEN FM_NULL_SLOT ELSE F[1]
      BY DEF FreeList
    <3> HIDE DEF g, R
    <3> QED BY SMTT(30), <1>1, <2>1, <2>2, <3>1, <3>2
  <2>3. CASE n # 0
    <3>1. n - 1 \in 0 .. N /\ n \in Nat
      BY SMTT(30), <1>1, <2>3
    <3>2. g[n - 1] = IF n - 1 < Len(F) THEN F[n - 1 + 1] ELSE FM_NULL_SLOT
      BY <3>1
    <3>3. R(g)[n] = IF g[n - 1] = FM_NULL_SLOT THEN FM_NULL_SLOT ELSE free_next[g[n - 1]]
      BY <2>3
    <3> HIDE DEF g, R
    <3>4. CASE n - 1 < Len(F)
      <4>1. n \in 1 .. Len(F) /\ n - 1 + 1 = n /\ (n = Len(F) <=> ~(n < Len(F)))
        BY SMTT(30), <1>1, <2>3, <3>1, <3>4
      <4>2. /\ F[n] \in Slots /\ F[n] # FM_NULL_SLOT
            /\ free_next[F[n]] = IF n = Len(F) THEN FM_NULL_SLOT ELSE F[n + 1]
        <5>1. F[n] \in Slots /\ free_next[F[n]] = IF n = Len(F) THEN FM_NULL_SLOT ELSE F[n + 1]
          BY <4>1 DEF FreeList
        <5> QED BY <5>1 DEF FM_NULL_SLOT
      <4> QED BY <2>1, <3>2, <3>3, <3>4, <4>1, <4>2
    <3>5. CASE ~(n - 1 < Len(F))
      <4>1. ~(n < Len(F))
        BY SMTT(30), <1>1, <3>1, <3>5
      <4> QED BY <2>1, <3>2, <3>3, <3>5, <4>1
    <3> QED BY <3>4, <3>5
  <2> QED BY <2>2, <2>3
<1>3. g = R(g)
  BY <1>2
<1>4. FreeNth = CHOOSE h : h = R(h)
  BY DEF FreeNth, N
<1>5. FreeNth = R(FreeNth)
  <2> HIDE DEF R, g
  <2> QED BY <1>3, <1>4
<1>6. SUFFICES ASSUME NEW h, h = R(h) PROVE h = g
  BY <1>5 DEF N
<1>7. SUFFICES ASSUME {n \in 0 .. N : h[n] # g[n]} # {} PROVE FALSE
  <2>1. h = [n \in 0 .. N |-> h[n]]
    BY <1>6
  <2>2. g = [n \in 0 .. N |-> g[n]]
    OBVIOUS
  <2> HIDE DEF R, g
  <2> QED BY <2>1, <2>2
<1>8. PICK n \in {m \in 0 .. N : h[m] # g[m]} : \A y \in {m \in 0 .. N : h[m] # g[m]} : n <= y
  <2>1. {m \in 0 .. N : h[m] # g[m]} \in SUBSET Nat
    BY SMTT(30), <1>1
  <2> HIDE DEF g
  <2> QED BY <2>1, <1>7, LeastNat
<1>9. n # 0 => h[n - 1] = g[n - 1]
  <2> HIDE DEF g
  <2> QED BY SMTT(30), <1>1, <1>8
<1>10. R(h)[n] = R(g)[n]
  BY <1>8, <1>9
<1> HIDE DEF R, g
<1> QED BY <1>3, <1>6, <1>8, <1>10

\* A list of distinct slots is no longer than the table.
LEMMA ListFits ==
    ASSUME NEW F \in Seq(Slots), FreeList(F)
    PROVE  Len(F) <= Cardinality(Slots) /\ Len(F) \in Nat /\ Cardinality(Slots) \in Nat
<1>1. Len(F) \in Nat /\ F \in [1 .. Len(F) -> Slots]
  BY SMTT(30)
<1>2. F \in Injection(1 .. Len(F), Slots)
  BY <1>1 DEF FreeList, Injection, IsInjective
<1>3. Cardinality(1 .. Len(F)) <= Cardinality(Slots)
  BY <1>2, SlotsFinite, FS_Injection
<1>4. Cardinality(1 .. Len(F)) = Len(F)
  <2>1. Cardinality(1 .. Len(F)) = IF 1 > Len(F) THEN 0 ELSE Len(F) - 1 + 1
    BY SMTT(30), <1>1, FS_Interval
  <2> QED BY SMTT(30), <1>1, <2>1
<1> QED BY <1>1, <1>3, <1>4, SlotsFinite

\* The freelist (fm_core_alloc_slot, fm_core_free_slot, fm_core_clear): whatever
\* inserts and deletes do, and after a clear again, it ends, it holds no slot
\* that is live or being worked on, and no unused slot below max_records is
\* ever lost.
THEOREM NoSlotLost == ASSUME ClearsApart PROVE Spec => []SlotsAccounted
<1>1. ASSUME Types, LocksOK, LifeInv, ~Clearing PROVE SlotsAccounted
  <2>1. PICK F \in Seq(Slots) : Life(F)
    BY <1>1 DEF LifeInv, Listed
  <2>2. FreeList(F) /\ -1 \notin Slots
    BY <1>1, <2>1, Facts DEF Life, SlotFacts
  <2> DEFINE N == Cardinality(Slots)
             nth == [n \in 0 .. N |-> IF n < Len(F) THEN F[n + 1] ELSE FM_NULL_SLOT]
             list == {nth[n] : n \in DOMAIN nth} \ {FM_NULL_SLOT}
             unused == {i \in Slots : i < SlotCount /\ state[i] # "ACTIVE" /\ ~InTransit(i)}
  <2>3. FreeNth = nth
    BY <2>1, <2>2, FreeNthOfList
  <2>4. Len(F) <= N /\ Len(F) \in Nat /\ N \in Nat
    BY <2>1, <2>2, ListFits
  <2> HIDE DEF N
  <2>5. \A i \in Slots : InTransit(i) <=> \E t \in Threads : pc[t] \in OwnPhase /\ idx[t] = i
    BY DEF InTransit, OwnPhase, InsPhase, DelPhase
  <2>6. nth[N] = FM_NULL_SLOT
    BY SMTT(30), <2>4
  <2>7. ASSUME NEW i \in list PROVE i \in unused
    <3>1. PICK n \in 0 .. N : i = nth[n] /\ i # FM_NULL_SLOT
      BY <2>7
    <3>2. n < Len(F) /\ i = F[n + 1]
      BY <3>1
    <3>3. n + 1 \in 1 .. Len(F)
      BY SMTT(30), <2>4, <3>1, <3>2
    <3>4. i \in Slots /\ Spare(i)
      BY <2>2, <3>2, <3>3 DEF FreeList
    <3> QED BY <2>5, <3>4 DEF Spare, Unused, Vacant
  <2>8. ASSUME NEW i \in unused, i < max_records PROVE i \in list
    <3>1. i \in Slots /\ Unused(i)
      BY <2>5, <2>8 DEF Unused, Vacant, Limited
    <3>2. PICK m \in 1 .. Len(F) : F[m] = i
      BY <2>2, <3>1 DEF FreeList
    <3>3. m - 1 \in 0 .. N /\ m - 1 < Len(F) /\ m - 1 + 1 = m
      BY SMTT(30), <2>4, <3>2
    <3>4. nth[m - 1] = i /\ m - 1 \in DOMAIN nth
      BY <3>2, <3>3
    <3> HIDE DEF nth
    <3> QED BY <2>2, <3>1, <3>4 DEF FM_NULL_SLOT
  <2>9. nth[N] = FM_NULL_SLOT /\ list \subseteq unused /\ {i \in unused : i < max_records} \subseteq list
    <3> HIDE DEF nth, list, unused
    <3> QED BY <2>6, <2>7, <2>8
  <2> QED BY <2>3, <2>9 DEF SlotsAccounted, N
<1>2. Clearing => SlotsAccounted
  BY DEF SlotsAccounted
<1> QED BY <1>1, <1>2, LifeCorrect, PTL

\* HA_STATS_RECORDS_IS_EXACT: records is off only by the calls between their
\* state store and their counter update (fm_core_insert_row,
\* fm_core_delete_row), and during a clear.
THEOREM CountExact == ASSUME ClearsApart PROVE Spec => []RecordsExact
<1>1. Types /\ LocksOK /\ LifeInv => RecordsExact
  BY DEF LifeInv, Listed, Life, Counted, Inserted, Deleting, RecordsExact
<1> QED BY <1>1, LifeCorrect, PTL

\* The table never holds more than max_records live rows (fm_core_alloc_slot
\* threads no slot at or beyond the limit), in a table nobody truncates.
THEOREM LimitHolds == ASSUME NoClear PROVE Spec => []RowLimit
<1>1. ASSUME Types, LifeInv PROVE RowLimit
  <2>1. \A i \in Slots : state[i] = "ACTIVE" => i < max_records
    BY <1>1, LifeWork DEF Work, GensOK, Limited
  <2>2. ActiveSlots \in SUBSET (0 .. max_records - 1)
    BY SMTT(30), <2>1, CapOK, SizesAssumption DEF ActiveSlots, Slots
  <2>3. IsFiniteSet(0 .. max_records - 1) /\ Cardinality(0 .. max_records - 1) = max_records
    BY SMTT(30), FS_Interval, SizesAssumption
  <2> QED BY <2>2, <2>3, FS_Subset DEF RowLimit
<1>2. ClearsApart
  BY DEF ClearsApart, NoClear
<1> QED BY <1>1, <1>2, LifeCorrect, PTL

-----------------------------------------------------------------------------
(* The seqlock.                                                            *)

\* Steps at which an update has made seq odd.
OddPhase == {"up_copy", "up_even"}

ReadPhase == {"rd_state", "rd_gen", "rd_seq", "rd_copy", "rd_check"}

\* Steps between read_row's two loads of seq.
CopyPhase == {"rd_copy", "rd_check"}

-----------------------------------------------------------------------------
(* The inductive invariant.                                                *)

\* What a memcpy into a slot has moved so far, and the parity of seq.
CopyOK(t) ==
    /\ pc[t] \in {"ins_copy", "up_copy"} => \A w \in Words \ left[t] : image[idx[t]][w] = rec[t]
    /\ pc[t] \in {"ins_publish", "up_even"} => \A w \in Words : image[idx[t]][w] = rec[t]
    /\ pc[t] \in OddPhase => seq[idx[t]] % 2 = 1

\* No insert is filling slot i.
NotFilled(i) == \A u \in Threads : pc[u] \in InsPhase => idx[u] # i

\* Slot i holds one record, published under its last generation.
Published(i) ==
    \E r \in Recs : (\A w \in Words : image[i][w] = r) /\ <<pubgen[i], r>> \in hist[i]

\* seq is odd only during an update.  A slot that was ever published holds a
\* whole record unless it is being updated or filled again, deleted or not.
RowOK(i) ==
    /\ seq[i] % 2 = 1 => \E t \in Threads : pc[t] \in OddPhase /\ idx[t] = i
    /\ pubgen[i] # NoGen /\ seq[i] % 2 = 0 /\ NotFilled(i) => Published(i)

\* A reader's reference is not from the future; a scan has none.
RefOK(t) ==
    /\ pc[t] \in ReadPhase => exp[t] <= gen[idx[t]]
    /\ pc[t] = "sc_next" \/ (pc[t] \in ReadPhase /\ op[t] = "scan") => exp[t] = NoGen

\* A reader has seen its slot live; until an insert takes the slot, the row it
\* holds is the one the reader asked for.
SlotOK(t) ==
    Reading(t) =>
        /\ pubgen[idx[t]] # NoGen /\ exp[t] <= pubgen[idx[t]]
        /\ ~recycled[t] => /\ NotFilled(idx[t])
                           /\ pc[t] # "rd_gen" => exp[t] \in {NoGen, pubgen[idx[t]]}

\* since counts the increments of seq.  While there were none, what has been
\* copied is the image.
SnapOK(t) ==
    pc[t] \in CopyPhase =>
        /\ s1[t] % 2 = 0
        /\ since[t] < SEQ_MOD =>
              seq[idx[t]] \in {s1[t] + since[t], s1[t] + since[t] - SEQ_MOD}
        /\ ~recycled[t] /\ since[t] = 0 =>
              \A w \in Words \ left[t] : buf[t][w] = image[idx[t]][w]
        /\ pc[t] = "rd_check" => left[t] = {}

SeqInv ==
    /\ \A i \in Slots : RowOK(i)
    /\ \A t \in Threads : CopyOK(t) /\ RefOK(t) /\ SlotOK(t) /\ SnapOK(t)

-----------------------------------------------------------------------------
\* A number is even or odd.
LEMMA Parity == \A n \in Nat : n % 2 = 0 \/ n % 2 = 1
BY SMTT(30)

\* A counter modulo M that is back where it was has not moved or has gone once
\* around.
LEMMA FullTurn ==
    ASSUME NEW M \in Nat, NEW s \in 0 .. M - 1, NEW n \in 0 .. M,
           s \in {s + n, s + n - M}, n < M
    PROVE  n = 0
BY SMTT(30)

LEMMA SameImage ==
    \A f, g \in [Words -> Recs \union {NoRec}] : (\A w \in Words : f[w] = g[w]) => f = g
BY SMTT(30)

LEMMA Antisymmetric == \A a, b \in Int : a <= b /\ b <= a => a = b
BY SMTT(30)

\* What the proofs use of the types.
CellFacts ==
    /\ seq \in [Slots -> 0 .. SEQ_MOD - 1]
    /\ image \in [Slots -> [Words -> Recs \union {NoRec}]]
    /\ hist \in [Slots -> SUBSET (Nat \X Recs)]
    /\ op \in [Threads -> AllCalls \union {"none"}]
    /\ rec \in [Threads -> Recs \union {NoRec}]
    /\ s1 \in [Threads -> 0 .. SEQ_MOD - 1]
    /\ buf \in [Threads -> [Words -> Recs \union {NoRec}]]
    /\ left \in [Threads -> SUBSET Words]
    /\ recycled \in [Threads -> BOOLEAN]
    /\ since \in [Threads -> 0 .. SEQ_MOD]
    /\ \A t \in Threads : pc[t] \in {"ins_copy", "ins_publish", "up_odd"} \union OddPhase
                            => rec[t] \in Recs

LEMMA Cells == ASSUME Types PROVE CellFacts
BY DEF Types, TypeOK, SlotTypes, HistTypes, ArgTypes, LocalTypes, ArgsOK, CellFacts, OddPhase

\* A step of t leaves the arguments and locals of the other threads alone.
OnlyOf(t) ==
    \A u \in Threads \ {t} :
        /\ pc'[u] = pc[u] /\ op'[u] = op[u] /\ idx'[u] = idx[u] /\ exp'[u] = exp[u]
        /\ rec'[u] = rec[u] /\ left'[u] = left[u] /\ s1'[u] = s1[u] /\ buf'[u] = buf[u]

\* A step that changes no image, sequence number or publication and is not
\* part of a write keeps the invariant if t's own read is in order.
LEMMA ReadFrame ==
    ASSUME SlotFacts, CellFacts, SeqInv, NEW t \in Threads, OnlyOf(t),
           UNCHANGED <<seq, image, pubgen, hist>>,
           \A i \in Slots : gen'[i] \in Nat /\ gen'[i] >= gen[i],
           \A u \in Threads \ {t} : recycled'[u] = recycled[u] /\ since'[u] = since[u],
           pc[t] \notin InsPhase \union OddPhase, pc'[t] \notin InsPhase \union OddPhase,
           RefOK(t)', SlotOK(t)', SnapOK(t)'
    PROVE  SeqInv'
<1> USE DEF InsPhase, OddPhase
<1>1. \A i : NotFilled(i)' <=> NotFilled(i)
  BY DEF OnlyOf, NotFilled
<1>2. ASSUME NEW i \in Slots PROVE RowOK(i)'
  <2>1. RowOK(i)
    BY DEF SeqInv
  <2>2. Published(i)' <=> Published(i)
    BY DEF Published
  <2> QED BY <1>1, <2>1, <2>2 DEF RowOK, OnlyOf
<1>3. ASSUME NEW u \in Threads PROVE CopyOK(u)'
  <2>1. CASE u = t
    BY <2>1 DEF CopyOK
  <2>2. CASE u # t
    BY SMTT(30), <2>2 DEF SeqInv, CopyOK, OnlyOf
  <2> QED BY <2>1, <2>2
<1>4. ASSUME NEW u \in Threads, u # t PROVE RefOK(u)' /\ SlotOK(u)' /\ SnapOK(u)'
  <2>1. RefOK(u)'
    BY SMTT(30), <1>4 DEF SeqInv, RefOK, OnlyOf, SlotFacts, SlotPhase, ReadPhase
  <2>2. SlotOK(u)'
    BY <1>1, <1>4 DEF SeqInv, SlotOK, OnlyOf, Reading
  <2>3. SnapOK(u)'
    BY SMTT(30), <1>4 DEF SeqInv, SnapOK, OnlyOf
  <2> QED BY <2>1, <2>2, <2>3
<1> QED BY <1>2, <1>3, <1>4 DEF SeqInv

\* The same for a step after which t is neither reading nor writing.
LEMMA CalmFrame ==
    ASSUME SlotFacts, CellFacts, SeqInv, NEW t \in Threads, OnlyOf(t),
           UNCHANGED <<seq, image, pubgen, hist>>,
           \A i \in Slots : gen'[i] \in Nat /\ gen'[i] >= gen[i],
           \A u \in Threads \ {t} : recycled'[u] = recycled[u] /\ since'[u] = since[u],
           pc[t] \notin InsPhase \union OddPhase,
           pc'[t] \notin InsPhase \union OddPhase \union ReadPhase \union {"sc_next"}
    PROVE  SeqInv'
<1>1. RefOK(t)' /\ SlotOK(t)' /\ SnapOK(t)'
  BY DEF RefOK, SlotOK, SnapOK, Reading, ReadPhase, CopyPhase
<1> QED BY <1>1, ReadFrame

LEMMA SeqInit == Init => SeqInv
BY SMTT(30) DEF Init, SeqInv, RowOK, CopyOK, RefOK, SlotOK, SnapOK, Reading, OddPhase, ReadPhase, CopyPhase

-----------------------------------------------------------------------------
(* Steps that leave the images and seq alone.                              *)

\* Steps of t that neither read nor write an image.
Quiet(t) ==
    /\ OnlyOf(t) /\ UNCHANGED <<seq, image, pubgen, hist>>
    /\ gen' = gen \/ DeleteBump(t) \/ ClearSlot(t)
    /\ \A u \in Threads \ {t} : recycled'[u] = recycled[u] /\ since'[u] = since[u]
    /\ pc[t] \notin InsPhase \union OddPhase
    /\ pc'[t] \notin InsPhase \union OddPhase \union ReadPhase \union {"sc_next"}

LEMMA QuietStep ==
    ASSUME SlotFacts, CellFacts, SeqInv, NEW t \in Threads, Quiet(t) PROVE SeqInv'
<1>1. \A i \in Slots : gen'[i] \in Nat /\ gen'[i] >= gen[i]
  <2>1. CASE gen' = gen
    BY SMTT(30), <2>1 DEF SlotFacts
  <2>2. CASE DeleteBump(t)
    <3>1. gen' = [gen EXCEPT ![idx[t]] = gen[idx[t]] + 1]
      BY <2>2 DEF DeleteBump
    <3> QED BY SMTT(30), <3>1 DEF SlotFacts
  <2>3. CASE ClearSlot(t)
    <3>1. gen' = [gen EXCEPT ![idx[t]] = gen[idx[t]] + 1]
      BY <2>3 DEF ClearSlot, FreeSlotStores
    <3> QED BY SMTT(30), <3>1 DEF SlotFacts
  <2> QED BY <2>1, <2>2, <2>3 DEF Quiet
<1> QED BY <1>1, CalmFrame DEF Quiet

QuietAction(t) ==
    \/ CallInsert(t) \/ CallUpdate(t) \/ CallDelete(t) \/ CallLock(t)
    \/ InsertFail(t) \/ InsertCount(t)
    \/ UpdateLock(t) \/ UpdateState(t) \/ UpdateGen(t)
    \/ DeleteLock(t) \/ DeleteState(t) \/ DeleteGen(t) \/ DeleteMark(t) \/ DeleteDead(t)
    \/ DeleteBump(t) \/ DeleteCount(t) \/ DeletePush(t)
    \/ LockRow(t) \/ UpdateLocked(t) \/ DeleteLocked(t) \/ UnlockRow(t)
    \/ CallClear(t) \/ ClearLock(t) \/ ClearSlot(t) \/ ClearRebuild(t)
    \/ Finish(t)

LEMMA QuietActions ==
    ASSUME SlotFacts, CellFacts, NEW t \in Threads
    PROVE  QuietAction(t) => Quiet(t)
<1> USE DEF SlotFacts, CellFacts, Quiet, OnlyOf, InsPhase, OddPhase, ReadPhase, Goto,
        slotVars, argVars, readVars, histVars
<1>1. CASE CallInsert(t)
  BY SMTT(30), <1>1 DEF CallInsert, Begin
<1>2. CASE CallUpdate(t)
  BY SMTT(30), <1>2 DEF CallUpdate, Begin
<1>3. CASE CallDelete(t)
  BY SMTT(30), <1>3 DEF CallDelete, Begin
<1>4. CASE CallLock(t)
  BY SMTT(30), <1>4 DEF CallLock, Begin
<1>5. CASE UpdateLock(t)
  BY <1>5 DEF UpdateLock, LockSlot, Exchange
<1>6. CASE DeleteLock(t)
  BY <1>6 DEF DeleteLock, LockSlot, Exchange
<1>7. CASE LockRow(t)
  BY <1>7 DEF LockRow, LockSlot, Exchange
<1>8. CASE DeletePush(t)
  BY <1>8 DEF DeletePush, Push
<1>9. CASE InsertFail(t)
  BY <1>9 DEF InsertFail, Return
<1>10. CASE InsertCount(t)
  BY <1>10 DEF InsertCount, Return
<1>11. CASE UpdateState(t)
  BY SMTT(30), <1>11 DEF UpdateState, VerifyState, Unlock, KeepLock, DropLock, Return
<1>12. CASE UpdateGen(t)
  BY SMTT(30), <1>12 DEF UpdateGen, VerifyGen, Unlock, KeepLock, DropLock, Return
<1>13. CASE DeleteState(t)
  BY SMTT(30), <1>13 DEF DeleteState, VerifyState, Unlock, KeepLock, DropLock, Return
<1>14. CASE DeleteGen(t)
  BY SMTT(30), <1>14 DEF DeleteGen, VerifyGen, Unlock, KeepLock, DropLock, Return
<1>15. CASE DeleteMark(t)
  BY <1>15 DEF DeleteMark
<1>16. CASE DeleteDead(t)
  BY <1>16 DEF DeleteDead
<1>17. CASE DeleteCount(t)
  BY <1>17 DEF DeleteCount
<1>18. CASE UpdateLocked(t)
  BY SMTT(30), <1>18 DEF UpdateLocked, StartLocked
<1>19. CASE DeleteLocked(t)
  BY SMTT(30), <1>19 DEF DeleteLocked, StartLocked
<1>20. CASE UnlockRow(t)
  BY <1>20 DEF UnlockRow
<1>21. CASE Finish(t)
  BY <1>21 DEF Finish
<1>22. CASE DeleteBump(t)
  <2>1. DeleteBump(t)
    BY <1>22
  <2>2. OnlyOf(t) /\ UNCHANGED <<seq, image, pubgen, hist, recycled, since>>
    BY <2>1 DEF DeleteBump
  <2>3. pc[t] = "dl_bump" /\ pc'[t] = "dl_count"
    BY <2>1 DEF DeleteBump
  <2> QED BY <2>1, <2>2, <2>3
<1>23. CASE CallClear(t)
  BY <1>23 DEF CallClear, Begin
<1>24. CASE ClearLock(t)
  BY <1>24 DEF ClearLock
<1>25. CASE ClearSlot(t)
  <2>1. ClearSlot(t)
    BY <1>25
  <2>2. /\ UNCHANGED <<seq, image, pubgen, hist, recycled, since, op, exp, rec, left, s1, buf>>
        /\ \A u \in Threads \ {t} : pc'[u] = pc[u] /\ idx'[u] = idx[u]
        /\ pc[t] = "cl_slot" /\ pc'[t] \in {"cl_slot", "cl_rebuild"}
    BY <2>1 DEF ClearSlot, FreeSlotStores
  <2> QED BY <2>1, <2>2
<1>26. CASE ClearRebuild(t)
  BY <1>26 DEF ClearRebuild, Rebuild, Return
<1> QED
  BY <1>1, <1>2, <1>3, <1>4, <1>5, <1>6, <1>7, <1>8, <1>9, <1>10, <1>11, <1>12,
     <1>13, <1>14, <1>15, <1>16, <1>17, <1>18, <1>19, <1>20, <1>21, <1>22, <1>23,
     <1>24, <1>25, <1>26
  DEF QuietAction

-----------------------------------------------------------------------------
(* Steps that change what a slot holds.                                    *)

\* Two threads never write the same slot: updates exclude each other by wlock,
\* and an update has a live slot, an insert a dead one of its own.
LEMMA OneWriter ==
    ASSUME SlotFacts, LockFacts, WorkOK, OwnOK,
           NEW t \in Threads, NEW u \in Threads, t # u,
           pc[t] \in InsPhase \union WritePhase, pc[u] \in InsPhase \union WritePhase
    PROVE  idx[t] # idx[u]
BY SMTT(30) DEF SlotFacts, LockFacts, WorkOK, WorkAt, OwnOK, InsPhase, DelPhase, OwnPhase, WritePhase

\* alloc_slot gives t a slot; readers of the slot are told.
LEMMA ReadTake ==
    ASSUME SlotFacts, CellFacts, SeqInv, NEW t \in Threads, NEW i \in Slots,
           pc[t] = "ins_alloc", TakeSlot(t, i),
           UNCHANGED <<seq, image, gen, pubgen, hist, op, exp, rec, s1, buf, since>>
    PROVE  SeqInv'
<1> USE DEF SlotFacts, CellFacts, InsPhase, OddPhase
<1>1. /\ pc' = [pc EXCEPT ![t] = "ins_copy"] /\ idx' = [idx EXCEPT ![t] = i]
      /\ left' = [left EXCEPT ![t] = Words]
      /\ recycled' = [u \in Threads |-> recycled[u] \/ (Reading(u) /\ idx[u] = i)]
  BY DEF TakeSlot, Goto
<1>2. ASSUME NEW j, NotFilled(j)' PROVE NotFilled(j)
  BY <1>1, <1>2 DEF NotFilled
<1>3. ASSUME NEW j, NotFilled(j), j # i PROVE NotFilled(j)'
  BY <1>1, <1>3 DEF NotFilled
<1>4. ASSUME NEW j \in Slots PROVE RowOK(j)'
  <2>1. RowOK(j)
    BY DEF SeqInv
  <2>2. Published(j)' <=> Published(j)
    BY DEF Published
  <2> QED BY <1>1, <1>2, <2>1, <2>2 DEF RowOK
<1>5. CopyOK(t)' /\ RefOK(t)' /\ SlotOK(t)' /\ SnapOK(t)'
  BY <1>1 DEF CopyOK, RefOK, SlotOK, SnapOK, Reading, ReadPhase, CopyPhase
<1>6. ASSUME NEW u \in Threads, u # t PROVE CopyOK(u)' /\ RefOK(u)' /\ SlotOK(u)' /\ SnapOK(u)'
  <2>1. pc'[u] = pc[u] /\ idx'[u] = idx[u] /\ left'[u] = left[u] /\ Reading(u)' = Reading(u)
    BY <1>1, <1>6 DEF Reading
  <2>2. recycled'[u] = (recycled[u] \/ (Reading(u) /\ idx[u] = i))
    BY <1>1
  <2>3. CopyOK(u)' /\ RefOK(u)'
    BY SMTT(30), <2>1 DEF SeqInv, CopyOK, RefOK
  <2>4. SlotOK(u)'
    BY <1>3, <2>1, <2>2 DEF SeqInv, SlotOK
  <2>5. SnapOK(u)'
    BY SMTT(30), <2>1, <2>2 DEF SeqInv, SnapOK
  <2> QED BY <2>3, <2>4, <2>5
<1> QED BY <1>4, <1>5, <1>6 DEF SeqInv

\* One word of a memcpy into a slot: no reader that would take the result has
\* the slot, because seq is odd or the slot was recycled.
LEMMA ReadCopyIn ==
    ASSUME SlotFacts, LockFacts, CellFacts, WorkOK, OwnOK, SeqInv, NEW t \in Threads,
           NEW from, NEW to, CopyIn(t, from, to),
           (from = "ins_copy" /\ to = "ins_publish") \/ (from = "up_copy" /\ to = "up_even")
    PROVE  SeqInv'
<1> USE DEF SlotFacts, CellFacts, InsPhase, OddPhase
<1>1. PICK w0 \in left[t] :
        /\ image' = [image EXCEPT ![idx[t]][w0] = rec[t]]
        /\ left' = [left EXCEPT ![t] = @ \ {w0}]
        /\ pc' = [pc EXCEPT ![t] = IF left[t] = {w0} THEN to ELSE from]
  BY DEF CopyIn, Goto
<1>2. /\ pc[t] = from /\ idx[t] \in Slots /\ w0 \in Words
      /\ UNCHANGED <<seq, gen, pubgen, hist, op, idx, exp, rec, s1, buf, recycled, since>>
  BY <1>1 DEF CopyIn, argVars, readVars, histVars, SlotPhase
<1>3. /\ (from = "ins_copy" /\ to = "ins_publish") \/ (from = "up_copy" /\ to = "up_even")
      /\ pc[t] \in InsPhase \union WritePhase
  BY <1>2 DEF WritePhase
<1>4. /\ \A j \in Slots, w \in Words : <<j, w>> # <<idx[t], w0>> => image'[j][w] = image[j][w]
      /\ image'[idx[t]][w0] = rec[t]
  BY <1>1, <1>2
<1>5. \A j : NotFilled(j)' <=> NotFilled(j)
  BY <1>1, <1>2, <1>3 DEF NotFilled
<1>6. ASSUME NEW j \in Slots PROVE RowOK(j)'
  <2>1. RowOK(j) /\ CopyOK(t)
    BY DEF SeqInv
  <2>2. CASE j = idx[t]
    <3>1. from = "ins_copy" => ~NotFilled(j)'
      BY <1>1, <1>2, <1>3, <2>2 DEF NotFilled
    <3>2. from = "up_copy" => seq'[j] % 2 = 1
      BY <1>2, <2>1, <2>2 DEF CopyOK
    <3>3. seq[j] % 2 = 1 => \E u \in Threads : pc'[u] \in OddPhase /\ idx'[u] = j
      BY <1>1, <1>2, <1>3, <2>1 DEF RowOK
    <3>4. seq[j] \in Nat
      BY SMTT(30), SeqAssumption
    <3> QED BY SMTT(30), <1>2, <1>3, <3>1, <3>2, <3>3, <3>4 DEF RowOK
  <2>3. CASE j # idx[t]
    <3>1. Published(j)' <=> Published(j)
      BY <1>2, <1>4, <2>3 DEF Published
    <3>2. seq[j] % 2 = 1 => \E u \in Threads : pc'[u] \in OddPhase /\ idx'[u] = j
      BY <1>1, <1>2, <2>1, <2>3 DEF RowOK
    <3> QED BY <1>2, <1>5, <2>1, <3>1, <3>2 DEF RowOK
  <2> QED BY <2>2, <2>3
<1>7. CopyOK(t)' /\ RefOK(t)' /\ SlotOK(t)' /\ SnapOK(t)'
  <2>1. CopyOK(t)
    BY DEF SeqInv
  <2>2. \A w \in Words \ left'[t] : image'[idx[t]][w] = rec[t]
    BY SMTT(30), <1>1, <1>2, <1>3, <1>4, <2>1 DEF CopyOK
  <2>3. left[t] = {w0} => left'[t] = {}
    BY <1>1
  <2>4. CopyOK(t)'
    BY <1>1, <1>2, <1>3, <2>1, <2>2, <2>3 DEF CopyOK
  <2> QED
    BY <1>1, <1>3, <2>4 DEF RefOK, SlotOK, SnapOK, Reading, ReadPhase, CopyPhase
<1>8. ASSUME NEW u \in Threads, u # t PROVE CopyOK(u)' /\ RefOK(u)' /\ SlotOK(u)' /\ SnapOK(u)'
  <2>1. pc'[u] = pc[u] /\ left'[u] = left[u]
    BY <1>1, <1>8
  <2>2. CopyOK(u) /\ RefOK(u) /\ SlotOK(u) /\ SnapOK(u) /\ CopyOK(t)
    BY DEF SeqInv
  <2>3. CopyOK(u)'
    <3>1. CASE pc[u] \in InsPhase \union OddPhase
      <4>1. idx[u] # idx[t] /\ idx[u] \in Slots
        BY <1>3, <1>8, <3>1, OneWriter DEF WritePhase, SlotPhase
      <4> QED BY ZenonT(20), <1>2, <1>4, <2>1, <2>2, <4>1 DEF CopyOK
    <3>2. CASE pc[u] \notin InsPhase \union OddPhase
      BY <2>1, <3>2 DEF CopyOK
    <3> QED BY <3>1, <3>2
  <2>4. RefOK(u)' /\ SlotOK(u)'
    BY <1>2, <1>5, <2>1, <2>2 DEF RefOK, SlotOK, Reading
  <2>5. SnapOK(u)'
    <3>1. ASSUME pc[u] \in CopyPhase, ~recycled[u], since[u] = 0 PROVE idx[u] # idx[t]
      <4>1. from = "ins_copy" => ~NotFilled(idx[t])
        BY <1>2 DEF NotFilled
      <4>2. NotFilled(idx[u])
        BY <2>2, <3>1 DEF SlotOK, Reading, CopyPhase
      <4>3. seq[idx[u]] = s1[u] /\ s1[u] % 2 = 0
        <5>1. idx[u] \in Slots
          BY <3>1 DEF CopyPhase, SlotPhase
        <5> QED BY SMTT(30), <2>2, <3>1, <5>1, SeqAssumption DEF SnapOK
      <4>4. from = "up_copy" => seq[idx[t]] % 2 = 1
        BY <1>2, <2>2 DEF CopyOK
      <4> QED BY SMTT(30), <1>3, <4>1, <4>2, <4>3, <4>4
    <3>2. pc[u] \in CopyPhase => idx[u] \in Slots
      BY DEF CopyPhase, SlotPhase
    <3> QED BY <1>2, <1>4, <2>1, <2>2, <3>1, <3>2 DEF SnapOK
  <2> QED BY <2>3, <2>4, <2>5
<1> QED BY <1>6, <1>7, <1>8 DEF SeqInv

\* insert_row makes its slot live.  A reader of the slot is one that was there
\* before the slot was taken.
LEMMA ReadPublish ==
    ASSUME SlotFacts, CellFacts, WorkOK, OwnOK, SeqInv, NEW t \in Threads, InsertPublish(t)
    PROVE  SeqInv'
<1> USE DEF SlotFacts, CellFacts, InsPhase, OddPhase
<1>1. /\ pc[t] = "ins_publish" /\ pc' = [pc EXCEPT ![t] = "ins_count"]
      /\ idx[t] \in Slots /\ rec[t] \in Recs
      /\ pubgen' = [pubgen EXCEPT ![idx[t]] = gen[idx[t]]]
      /\ hist' = [hist EXCEPT ![idx[t]] = @ \union {<<gen[idx[t]], rec[t]>>}]
      /\ UNCHANGED <<seq, image, gen, op, idx, exp, rec, left, s1, buf, recycled, since>>
  BY DEF InsertPublish, Goto, argVars, readVars, SlotPhase
<1>2. ASSUME NEW j, j # idx[t] PROVE NotFilled(j)' <=> NotFilled(j)
  BY <1>1, <1>2 DEF NotFilled
<1>3. ~NotFilled(idx[t])
  BY <1>1 DEF NotFilled
<1>4. ASSUME NEW j \in Slots PROVE RowOK(j)'
  <2>1. RowOK(j) /\ CopyOK(t)
    BY DEF SeqInv
  <2>2. seq'[j] % 2 = 1 => \E u \in Threads : pc'[u] \in OddPhase /\ idx'[u] = j
    BY <1>1, <2>1 DEF RowOK
  <2>3. CASE j = idx[t]
    <3>1. Published(j)'
      BY <1>1, <2>1, <2>3 DEF Published, CopyOK
    <3> QED BY <2>2, <3>1 DEF RowOK
  <2>4. CASE j # idx[t]
    <3>1. Published(j) => Published(j)'
      BY <1>1, <2>4 DEF Published
    <3> QED BY <1>1, <1>2, <2>1, <2>2, <2>4, <3>1 DEF RowOK
  <2> QED BY <2>3, <2>4
<1>5. CopyOK(t)' /\ RefOK(t)' /\ SlotOK(t)' /\ SnapOK(t)'
  BY <1>1 DEF CopyOK, RefOK, SlotOK, SnapOK, Reading, ReadPhase, CopyPhase
<1>6. ASSUME NEW u \in Threads, u # t PROVE CopyOK(u)' /\ RefOK(u)' /\ SlotOK(u)' /\ SnapOK(u)'
  <2>1. pc'[u] = pc[u]
    BY <1>1, <1>6
  <2>2. CopyOK(u) /\ RefOK(u) /\ SlotOK(u) /\ SnapOK(u)
    BY DEF SeqInv
  <2>3. CopyOK(u)' /\ RefOK(u)' /\ SnapOK(u)'
    BY <1>1, <2>1, <2>2 DEF CopyOK, RefOK, SnapOK
  <2>4. SlotOK(u)'
    <3>1. CASE idx[u] = idx[t]
      <4>1. Reading(u) => recycled[u] /\ exp[u] <= gen[idx[u]]
        BY <1>3, <2>2, <3>1 DEF SlotOK, RefOK, Reading, ReadPhase
      <4> QED BY SMTT(30), <1>1, <2>1, <3>1, <4>1 DEF SlotOK, Reading, NoGen
    <3>2. CASE idx[u] # idx[t]
      <4>1. Reading(u) => idx[u] \in Slots
        BY DEF Reading, SlotPhase
      <4>2. PICK j : j = idx[u] /\ j = idx'[u]
        BY <1>1
      <4>3. NotFilled(j)' <=> NotFilled(j)
        BY <1>2, <3>2, <4>2
      <4>4. Reading(u) => pubgen'[idx[u]] = pubgen[idx[u]]
        BY <1>1, <3>2, <4>1
      <4> QED BY <1>1, <2>1, <2>2, <4>2, <4>3, <4>4 DEF SlotOK, Reading
    <3> QED BY <3>1, <3>2
  <2> QED BY <2>3, <2>4
<1> QED BY <1>4, <1>5, <1>6 DEF SeqInv

\* A reader between its two loads keeps count of seq.
LEMMA BumpSnap ==
    ASSUME SlotFacts, CellFacts, NEW i \in Slots, BumpSeq(i), NEW u \in Threads, SnapOK(u),
           pc'[u] = pc[u], left'[u] = left[u], UNCHANGED <<idx, s1, buf, image, recycled>>
    PROVE  SnapOK(u)'
<1> USE DEF SlotFacts, CellFacts
<1> SUFFICES ASSUME pc[u] \in CopyPhase PROVE SnapOK(u)'
  BY DEF SnapOK
<1>1. idx[u] \in Slots /\ seq[idx[u]] \in 0 .. SEQ_MOD - 1 /\ SEQ_MOD \in Nat \ {0}
  BY SeqAssumption DEF CopyPhase, SlotPhase
<1>2. CASE idx[u] = i
  <2>1. /\ seq'[i] = IF seq[i] + 1 = SEQ_MOD THEN 0 ELSE seq[i] + 1
        /\ since'[u] = IF since[u] < SEQ_MOD THEN since[u] + 1 ELSE since[u]
    BY <1>2 DEF BumpSeq, SeqInc, CopyPhase
  <2>2. /\ s1[u] \in 0 .. SEQ_MOD - 1 /\ since[u] \in 0 .. SEQ_MOD
        /\ since[u] < SEQ_MOD => seq[i] \in {s1[u] + since[u], s1[u] + since[u] - SEQ_MOD}
    BY <1>2 DEF SnapOK
  <2>3. since'[u] < SEQ_MOD =>
          seq'[i] \in {s1[u] + since'[u], s1[u] + since'[u] - SEQ_MOD}
    BY SMTT(30), <1>1, <1>2, <2>1, <2>2
  <2>4. since'[u] # 0
    BY SMTT(30), <1>1, <2>1, <2>2
  <2> QED BY <1>2, <2>3, <2>4 DEF SnapOK
<1>3. CASE idx[u] # i
  <2>1. seq'[idx[u]] = seq[idx[u]] /\ since'[u] = since[u]
    BY <1>1, <1>3 DEF BumpSeq
  <2> QED BY <2>1 DEF SnapOK
<1> QED BY <1>2, <1>3

\* write_image makes seq odd.  It was even, or another update would hold the
\* wlock.
LEMMA ReadOdd ==
    ASSUME SlotFacts, LockFacts, CellFacts, WorkOK, OwnOK, SeqInv, NEW t \in Threads, UpdateOdd(t)
    PROVE  SeqInv'
<1> USE DEF SlotFacts, CellFacts, InsPhase, OddPhase
<1>1. /\ pc[t] = "up_odd" /\ pc' = [pc EXCEPT ![t] = "up_copy"] /\ idx[t] \in Slots
      /\ seq' = [seq EXCEPT ![idx[t]] = SeqInc(@)] /\ BumpSeq(idx[t])
      /\ left' = [left EXCEPT ![t] = Words]
      /\ UNCHANGED <<image, gen, pubgen, hist, op, idx, exp, rec, s1, buf, recycled>>
  BY DEF UpdateOdd, BumpSeq, Goto, argVars, readVars, SlotPhase
<1>2. \A j : NotFilled(j)' <=> NotFilled(j)
  BY <1>1 DEF NotFilled
<1>3. seq[idx[t]] % 2 # 1
  <2>1. SUFFICES ASSUME seq[idx[t]] % 2 = 1 PROVE FALSE
    OBVIOUS
  <2>2. PICK u \in Threads : pc[u] \in OddPhase /\ idx[u] = idx[t]
    BY <1>1, <2>1 DEF SeqInv, RowOK
  <2> QED BY <1>1, <2>2, OneWriter DEF WritePhase
<1>4. seq'[idx[t]] % 2 = 1
  <2>1. seq[idx[t]] \in 0 .. SEQ_MOD - 1
    BY <1>1
  <2>2. SeqInc(seq[idx[t]]) % 2 = 1 - (seq[idx[t]] % 2)
    BY <2>1, SeqIncOK
  <2>3. seq[idx[t]] % 2 = 0
    <3>1. seq[idx[t]] \in Nat
      BY SMTT(30), <2>1, SeqAssumption
    <3> QED BY <1>3, <3>1, Parity
  <2> QED BY SMTT(30), <1>1, <2>2, <2>3
<1>5. ASSUME NEW j \in Slots PROVE RowOK(j)'
  <2>1. CASE j = idx[t]
    BY SMTT(30), <1>1, <1>4, <2>1 DEF RowOK
  <2>2. CASE j # idx[t]
    <3>1. RowOK(j) /\ seq'[j] = seq[j]
      BY <1>1, <2>2 DEF SeqInv
    <3>2. Published(j)' <=> Published(j)
      BY <1>1 DEF Published
    <3>3. seq[j] % 2 = 1 => \E u \in Threads : pc'[u] \in OddPhase /\ idx'[u] = j
      BY <1>1, <3>1 DEF RowOK
    <3> QED BY <1>1, <1>2, <3>1, <3>2, <3>3 DEF RowOK
  <2> QED BY <2>1, <2>2
<1>6. CopyOK(t)' /\ RefOK(t)' /\ SlotOK(t)' /\ SnapOK(t)'
  BY <1>1, <1>4 DEF CopyOK, RefOK, SlotOK, SnapOK, Reading, ReadPhase, CopyPhase
<1>7. ASSUME NEW u \in Threads, u # t PROVE CopyOK(u)' /\ RefOK(u)' /\ SlotOK(u)' /\ SnapOK(u)'
  <2>1. pc'[u] = pc[u] /\ left'[u] = left[u]
    BY <1>1, <1>7
  <2>2. CopyOK(u) /\ RefOK(u) /\ SlotOK(u) /\ SnapOK(u)
    BY DEF SeqInv
  <2>3. pc[u] \in OddPhase => idx[u] # idx[t] /\ idx[u] \in Slots
    BY <1>1, <1>7, OneWriter DEF WritePhase, SlotPhase
  <2>4. CopyOK(u)'
    BY <1>1, <2>1, <2>2, <2>3 DEF CopyOK
  <2>5. RefOK(u)' /\ SlotOK(u)'
    BY <1>1, <1>2, <2>1, <2>2 DEF RefOK, SlotOK, Reading
  <2> QED BY <1>1, <2>1, <2>2, <2>4, <2>5, BumpSnap
<1> QED BY <1>5, <1>6, <1>7 DEF SeqInv

\* ... and even again, when all words are the new record's.
LEMMA ReadEven ==
    ASSUME SlotFacts, LockFacts, CellFacts, GensOK, WorkOK, OwnOK, SeqInv, NEW t \in Threads,
           UpdateEven(t)
    PROVE  SeqInv'
<1> USE DEF SlotFacts, CellFacts, InsPhase, OddPhase
<1>1. /\ pc[t] = "up_even" /\ idx[t] \in Slots /\ rec[t] \in Recs
      /\ seq' = [seq EXCEPT ![idx[t]] = SeqInc(@)] /\ BumpSeq(idx[t])
      /\ hist' = [hist EXCEPT ![idx[t]] = @ \union {<<exp[t], rec[t]>>}]
      /\ UNCHANGED <<image, gen, pubgen, op, idx, exp, rec, left, s1, buf, recycled>>
  BY DEF UpdateEven, BumpSeq, argVars, readVars, SlotPhase
<1>2. PICK l \in {"lk_unlock", "done"} : pc' = [pc EXCEPT ![t] = l]
  BY DEF UpdateEven, Unlock, KeepLock, DropLock, Return, Goto
<1>3. \A j : NotFilled(j)' <=> NotFilled(j)
  BY <1>1, <1>2 DEF NotFilled
<1>4. seq'[idx[t]] % 2 # 1
  <2>1. seq[idx[t]] % 2 = 1 /\ seq[idx[t]] \in 0 .. SEQ_MOD - 1
    BY <1>1 DEF SeqInv, CopyOK
  <2>2. SeqInc(seq[idx[t]]) % 2 = 1 - (seq[idx[t]] % 2)
    BY <2>1, SeqIncOK
  <2> QED BY SMTT(30), <1>1, <2>1, <2>2
<1>5. ASSUME NEW j \in Slots PROVE RowOK(j)'
  <2>1. CASE j = idx[t]
    <3>1. exp[t] = pubgen[j]
      BY SMTT(30), <1>1, <2>1 DEF WorkOK, WorkAt, GensOK, WritePhase
    <3>2. Published(j)'
      BY <1>1, <2>1, <3>1 DEF Published, SeqInv, CopyOK
    <3> QED BY <1>4, <2>1, <3>2 DEF RowOK
  <2>2. CASE j # idx[t]
    <3>1. RowOK(j) /\ seq'[j] = seq[j]
      BY <1>1, <2>2 DEF SeqInv
    <3>2. Published(j)' <=> Published(j)
      BY <1>1, <2>2 DEF Published
    <3>3. seq[j] % 2 = 1 => \E u \in Threads : pc'[u] \in OddPhase /\ idx'[u] = j
      BY <1>1, <1>2, <2>2, <3>1 DEF RowOK
    <3> QED BY <1>1, <1>3, <3>1, <3>2, <3>3 DEF RowOK
  <2> QED BY <2>1, <2>2
<1>6. CopyOK(t)' /\ RefOK(t)' /\ SlotOK(t)' /\ SnapOK(t)'
  BY <1>1, <1>2 DEF CopyOK, RefOK, SlotOK, SnapOK, Reading, ReadPhase, CopyPhase
<1>7. ASSUME NEW u \in Threads, u # t PROVE CopyOK(u)' /\ RefOK(u)' /\ SlotOK(u)' /\ SnapOK(u)'
  <2>1. pc'[u] = pc[u] /\ left'[u] = left[u]
    BY <1>1, <1>2, <1>7
  <2>2. CopyOK(u) /\ RefOK(u) /\ SlotOK(u) /\ SnapOK(u)
    BY DEF SeqInv
  <2>3. pc[u] \in OddPhase => idx[u] # idx[t] /\ idx[u] \in Slots
    BY <1>1, <1>7, OneWriter DEF WritePhase, SlotPhase
  <2>4. CopyOK(u)'
    BY <1>1, <2>1, <2>2, <2>3 DEF CopyOK
  <2>5. RefOK(u)' /\ SlotOK(u)'
    BY <1>1, <1>3, <2>1, <2>2 DEF RefOK, SlotOK, Reading
  <2> QED BY <1>1, <2>1, <2>2, <2>4, <2>5, BumpSnap
<1> QED BY <1>5, <1>6, <1>7 DEF SeqInv

-----------------------------------------------------------------------------
(* Steps of a reader.                                                      *)

\* What every reader's step leaves alone.
ReaderStep(t) ==
    /\ OnlyOf(t) /\ UNCHANGED <<seq, image, gen, pubgen, hist, exp, op>>
    /\ \A u \in Threads \ {t} : recycled'[u] = recycled[u] /\ since'[u] = since[u]

\* A reader's step keeps the invariant if the reader's own part holds after it.
LEMMA ReaderFrame ==
    ASSUME SlotFacts, CellFacts, SeqInv, NEW t \in Threads, ReaderStep(t),
           pc[t] \in ReadPhase \union {"sc_next"},
           pc'[t] \in ReadPhase \union {"sc_next", "done"},
           RefOK(t)', SlotOK(t)', SnapOK(t)'
    PROVE  SeqInv'
<1>1. \A i \in Slots : gen'[i] \in Nat /\ gen'[i] >= gen[i]
  BY SMTT(30) DEF ReaderStep, SlotFacts
<1> QED
  BY <1>1, ReadFrame DEF ReaderStep, InsPhase, OddPhase, ReadPhase

\* NotFilled does not change when a reader moves.
LEMMA StillNotFilled ==
    ASSUME SlotFacts, NEW t \in Threads, OnlyOf(t), NEW i, NotFilled(i), pc'[t] \notin InsPhase
    PROVE  NotFilled(i)'
BY DEF NotFilled, OnlyOf

\* The attempt ends: the row is deleted.
LEMMA ReadGone ==
    ASSUME SlotFacts, CellFacts, SeqInv, NEW t \in Threads, ReadDeleted(t),
           pc[t] \in ReadPhase, ReaderStep(t), idx' = idx
    PROVE  SeqInv'
<1>1. pc'[t] = (IF op[t] = "scan" THEN "sc_next" ELSE "done")
  BY DEF ReadDeleted, Goto, SlotFacts
<1>2. RefOK(t)'
  BY <1>1 DEF RefOK, SeqInv, ReaderStep, ReadPhase
<1>3. SlotOK(t)' /\ SnapOK(t)'
  BY <1>1 DEF SlotOK, SnapOK, Reading, CopyPhase
<1> QED BY <1>1, <1>2, <1>3, ReaderFrame

\* read_row sees its slot live: the last publication is the present one.
LEMMA ReadStateStep ==
    ASSUME SlotFacts, CellFacts, GensOK, WorkOK, SeqInv, NEW t \in Threads, ReadState(t)
    PROVE  SeqInv'
<1> USE DEF SlotFacts, CellFacts
<1>1. /\ pc[t] = "rd_state" /\ idx[t] \in Slots /\ RefOK(t)
      /\ UNCHANGED <<seq, image, gen, pubgen, hist, op, idx, exp, rec, left, s1, buf, since>>
  BY DEF ReadState, slotVars, argVars, readVars, SlotPhase, SeqInv
<1>2. CASE state[idx[t]] = "ACTIVE"
  <2>1. /\ pc' = [pc EXCEPT ![t] = IF exp[t] = NoGen THEN "rd_seq" ELSE "rd_gen"]
        /\ recycled' = [recycled EXCEPT ![t] = FALSE]
    BY <1>2 DEF ReadState, Goto
  <2>2. ReaderStep(t)
    BY <1>1, <2>1 DEF ReaderStep, OnlyOf
  <2>3. RefOK(t)' /\ SnapOK(t)'
    BY <1>1, <2>1 DEF RefOK, SnapOK, ReadPhase, CopyPhase
  <2>4. /\ pubgen[idx[t]] = gen[idx[t]] /\ exp[t] <= gen[idx[t]]
        /\ NotFilled(idx[t])
    BY <1>1, <1>2 DEF GensOK, WorkOK, WorkAt, NotFilled, InsPhase, RefOK, ReadPhase
  <2>5. SlotOK(t)'
    <3>1. PICK j : j = idx[t] /\ j = idx'[t]
      BY <1>1
    <3>2. NotFilled(j)'
      BY SMTT(30), <2>1, <2>2, <2>4, <3>1, StillNotFilled DEF ReaderStep, InsPhase
    <3> QED BY SMTT(30), <1>1, <2>1, <2>4, <3>1, <3>2 DEF SlotOK, Reading, NoGen
  <2> QED BY <1>1, <2>1, <2>2, <2>3, <2>5, ReaderFrame DEF ReadPhase
<1>3. CASE state[idx[t]] # "ACTIVE"
  <2>1. ReadDeleted(t) /\ recycled' = recycled
    BY <1>3 DEF ReadState
  <2>2. ReaderStep(t)
    BY <1>1, <2>1 DEF ReaderStep, OnlyOf, ReadDeleted, Goto
  <2> QED BY <1>1, <2>1, <2>2, ReadGone DEF ReadPhase
<1> QED BY <1>2, <1>3

\* read_row compares generations: the slot's generation is at least that of its
\* last publication, so that an equal one is the published one.
LEMMA ReadGenStep ==
    ASSUME SlotFacts, CellFacts, GensOK, SeqInv, NEW t \in Threads, ReadGen(t)
    PROVE  SeqInv'
<1> USE DEF SlotFacts, CellFacts
<1>1. /\ pc[t] = "rd_gen" /\ idx[t] \in Slots /\ RefOK(t) /\ SlotOK(t)
      /\ UNCHANGED <<seq, image, gen, pubgen, hist, op, idx, exp, rec, left, s1, buf, since,
                     recycled>>
  BY DEF ReadGen, slotVars, argVars, readVars, histVars, SlotPhase, SeqInv
<1>2. CASE gen[idx[t]] = exp[t]
  <2>1. pc' = [pc EXCEPT ![t] = "rd_seq"]
    BY <1>2 DEF ReadGen, Goto
  <2>2. ReaderStep(t)
    BY <1>1, <2>1 DEF ReaderStep, OnlyOf
  <2>3. RefOK(t)' /\ SnapOK(t)'
    BY <1>1, <2>1 DEF RefOK, SnapOK, ReadPhase, CopyPhase
  <2>4. exp[t] = pubgen[idx[t]]
    <3>1. exp[t] \in Int /\ pubgen[idx[t]] \in Int
      BY SMTT(30), <1>1
    <3>2. exp[t] <= pubgen[idx[t]]
      BY <1>1 DEF SlotOK, Reading
    <3>3. pubgen[idx[t]] <= exp[t]
      BY <1>1, <1>2 DEF GensOK
    <3> QED BY <3>1, <3>2, <3>3, Antisymmetric
  <2>5. SlotOK(t)'
    <3>1. PICK j : j = idx[t] /\ j = idx'[t]
      BY <1>1
    <3>2. NotFilled(j) => NotFilled(j)'
      BY <2>1, <2>2, StillNotFilled DEF ReaderStep, InsPhase
    <3> QED BY <1>1, <2>1, <2>4, <3>1, <3>2 DEF SlotOK, Reading
  <2> QED BY <1>1, <2>1, <2>2, <2>3, <2>5, ReaderFrame DEF ReadPhase
<1>3. CASE gen[idx[t]] # exp[t]
  <2>1. ReadDeleted(t)
    BY <1>3 DEF ReadGen
  <2>2. ReaderStep(t)
    BY <1>1, <2>1 DEF ReaderStep, OnlyOf, ReadDeleted, Goto
  <2> QED BY <1>1, <2>1, <2>2, ReadGone DEF ReadPhase
<1> QED BY <1>2, <1>3

\* A reader in the middle of an attempt goes on with it, or starts over.
LEMMA ReadOn ==
    ASSUME SlotFacts, CellFacts, SeqInv, NEW t \in Threads, ReaderStep(t),
           NEW l \in ReadPhase \ {"rd_gen"}, pc' = [pc EXCEPT ![t] = l],
           pc[t] \in {"rd_seq", "rd_copy", "rd_check"},
           UNCHANGED <<idx, recycled>>, SnapOK(t)'
    PROVE  SeqInv'
<1> USE DEF SlotFacts
<1>1. pc'[t] = l /\ Reading(t) /\ RefOK(t) /\ SlotOK(t)
  BY DEF SeqInv, Reading
<1>2. RefOK(t)'
  BY <1>1 DEF RefOK, ReaderStep, ReadPhase
<1>3. SlotOK(t)'
  <2>1. PICK j : j = idx[t] /\ j = idx'[t]
    OBVIOUS
  <2>2. NotFilled(j) => NotFilled(j)'
    BY <1>1, StillNotFilled DEF ReaderStep, InsPhase, ReadPhase
  <2> QED BY <1>1, <2>1, <2>2 DEF SlotOK, ReaderStep
<1> QED BY <1>1, <1>2, <1>3, ReaderFrame DEF ReadPhase

\* The rest of an attempt: the first load of seq, the memcpy and the second
\* load; and a scan's move to the next slot.
LEMMA ReadRestStep ==
    ASSUME SlotFacts, CellFacts, SeqInv, NEW t \in Threads,
           ReadSeq(t) \/ ReadCopy(t) \/ ReadCheck(t) \/ ScanStep(t),
           pc'[t] \in SlotPhase => idx'[t] \in Slots
    PROVE  SeqInv'
<1> USE DEF SlotFacts, CellFacts
<1>1. CASE ReadSeq(t)
  <2>1. /\ pc[t] = "rd_seq" /\ idx[t] \in Slots
        /\ UNCHANGED <<seq, image, gen, pubgen, hist, op, idx, exp, rec, buf, recycled>>
    BY <1>1 DEF ReadSeq, slotVars, argVars, SlotPhase
  <2>2. CASE seq[idx[t]] % 2 = 1
    <3>1. pc' = [pc EXCEPT ![t] = "rd_state"] /\ UNCHANGED <<s1, left, since>>
      BY SMTT(30), <1>1, <2>2 DEF ReadSeq, Goto
    <3>2. ReaderStep(t) /\ SnapOK(t)'
      BY <2>1, <3>1 DEF ReaderStep, OnlyOf, SnapOK, CopyPhase
    <3> QED BY <2>1, <3>1, <3>2, ReadOn DEF ReadPhase
  <2>3. CASE seq[idx[t]] % 2 # 1
    <3>1. /\ pc' = [pc EXCEPT ![t] = "rd_copy"] /\ seq[idx[t]] % 2 = 0
          /\ s1' = [s1 EXCEPT ![t] = seq[idx[t]]] /\ left' = [left EXCEPT ![t] = Words]
          /\ since' = [since EXCEPT ![t] = 0]
      BY <1>1, <2>3 DEF ReadSeq, Goto
    <3>2. ReaderStep(t)
      BY <2>1, <3>1 DEF ReaderStep, OnlyOf
    <3>3. SnapOK(t)'
      <4>1. seq[idx[t]] + 0 = seq[idx[t]]
        BY SMTT(30), <2>1, SeqAssumption
      <4> QED BY <2>1, <3>1, <4>1 DEF SnapOK, CopyPhase
    <3> QED BY <2>1, <3>1, <3>2, <3>3, ReadOn DEF ReadPhase
  <2> QED BY <2>2, <2>3
<1>2. CASE ReadCopy(t)
  <2>1. /\ pc[t] = "rd_copy" /\ idx[t] \in Slots /\ SnapOK(t)
        /\ UNCHANGED <<seq, image, gen, pubgen, hist, op, idx, exp, rec, s1, recycled, since>>
    BY <1>2 DEF ReadCopy, slotVars, argVars, histVars, SlotPhase, SeqInv
  <2>2. PICK w \in left[t] :
          /\ buf' = [buf EXCEPT ![t][w] = image[idx[t]][w]]
          /\ left' = [left EXCEPT ![t] = @ \ {w}]
          /\ pc' = [pc EXCEPT ![t] = IF left[t] = {w} THEN "rd_check" ELSE "rd_copy"]
    BY <1>2 DEF ReadCopy, Goto
  <2>3. PICK l \in {"rd_check", "rd_copy"} :
          pc' = [pc EXCEPT ![t] = l] /\ (l = "rd_check" => left'[t] = {})
    BY <2>2
  <2>4. ReaderStep(t)
    BY <2>1, <2>2 DEF ReaderStep, OnlyOf
  <2>5. \A v \in Words : buf'[t][v] = IF v = w THEN image[idx[t]][w] ELSE buf[t][v]
    BY <2>2
  <2>6. SnapOK(t)'
    BY SMTT(30), <2>1, <2>2, <2>3, <2>5 DEF SnapOK, CopyPhase
  <2> QED BY <2>1, <2>3, <2>4, <2>6, ReadOn DEF ReadPhase
<1>3. CASE ReadCheck(t)
  <2>1. /\ pc[t] = "rd_check"
        /\ UNCHANGED <<seq, image, gen, pubgen, hist, op, idx, exp, rec, left, buf, recycled>>
        /\ \A u \in Threads \ {t} : s1'[u] = s1[u] /\ since'[u] = since[u]
    BY <1>3 DEF ReadCheck, slotVars, argVars
  <2>2. PICK l \in {"rd_state", "done"} : pc' = [pc EXCEPT ![t] = l]
    BY <1>3 DEF ReadCheck, ReadOK, Return, Goto
  <2>3. ReaderStep(t) /\ SnapOK(t)'
    BY <2>1, <2>2 DEF ReaderStep, OnlyOf, SnapOK, CopyPhase
  <2>4. CASE l = "rd_state"
    BY <2>1, <2>2, <2>3, <2>4, ReadOn DEF ReadPhase
  <2>5. CASE l = "done"
    <3>1. RefOK(t)' /\ SlotOK(t)'
      BY <2>2, <2>5 DEF RefOK, SlotOK, Reading, ReadPhase
    <3> QED BY <2>1, <2>2, <2>3, <2>5, <3>1, ReaderFrame DEF ReadPhase
  <2> QED BY <2>4, <2>5
<1>4. CASE ScanStep(t)
  <2>1. /\ pc[t] = "sc_next" /\ RefOK(t)
        /\ UNCHANGED <<seq, image, gen, pubgen, hist, op, exp, rec, left, s1, buf, recycled,
                       since>>
    BY <1>4 DEF ScanStep, ScanUpTo, slotVars, readVars, histVars, SeqInv
  <2>2. \/ pc' = [pc EXCEPT ![t] = "rd_state"] /\ idx' = [idx EXCEPT ![t] = pos[t]]
        \/ pc' = [pc EXCEPT ![t] = "done"] /\ idx' = idx
    BY <1>4 DEF ScanStep, ScanUpTo, Return, Goto
  <2>3. ReaderStep(t)
    BY <2>1, <2>2 DEF ReaderStep, OnlyOf
  <2>4. SlotOK(t)' /\ SnapOK(t)'
    BY <2>2 DEF SlotOK, SnapOK, Reading, CopyPhase
  <2>5. RefOK(t)'
    <3>1. exp'[t] = NoGen
      BY <2>1 DEF RefOK
    <3>2. pc'[t] \in ReadPhase => gen'[idx'[t]] \in Nat
      BY <2>1 DEF ReadPhase, SlotPhase
    <3> QED BY SMTT(30), <3>1, <3>2 DEF RefOK, NoGen
  <2> QED BY <2>1, <2>2, <2>3, <2>4, <2>5, ReaderFrame DEF ReadPhase
<1> QED BY <1>1, <1>2, <1>3, <1>4

-----------------------------------------------------------------------------
(* Every step.                                                             *)

\* A reader's call begins.
LEMMA ReadCall ==
    ASSUME SlotFacts, CellFacts, SeqInv, NEW t \in Threads,
           CallRead(t) \/ CallScanFirst(t) \/ CallScanNext(t)
    PROVE  SeqInv'
<1> USE DEF SlotFacts, CellFacts
<1>1. /\ pc[t] = "idle" /\ OnlyOf(t)
      /\ UNCHANGED <<seq, image, gen, pubgen, hist, recycled, since>>
  <2>1. CASE CallRead(t)
    <3>1. PICK i \in Slots : \E g \in 0 .. gen[i] : Begin(t, "read", i, g, NoRec, "rd_state")
      BY <2>1 DEF CallRead
    <3>2. PICK g \in 0 .. gen[i] : Begin(t, "read", i, g, NoRec, "rd_state")
      BY <3>1
    <3> QED BY <2>1, <3>2 DEF CallRead, Begin, Goto, OnlyOf, slotVars, readVars, histVars
  <2>2. CASE CallScanFirst(t)
    BY <2>2 DEF CallScanFirst, Begin, Goto, OnlyOf, slotVars, readVars, histVars
  <2>3. CASE CallScanNext(t)
    BY <2>3 DEF CallScanNext, Begin, Goto, OnlyOf, slotVars, readVars, histVars
  <2> QED BY <2>1, <2>2, <2>3
<1>2. pc'[t] \in {"rd_state", "sc_next"} /\ RefOK(t)'
  <2>1. CASE CallRead(t)
    <3>. PICK i \in Slots : \E g \in 0 .. gen[i] : Begin(t, "read", i, g, NoRec, "rd_state")
      BY <2>1 DEF CallRead
    <3>1. PICK g \in 0 .. gen[i] : Begin(t, "read", i, g, NoRec, "rd_state")
      OBVIOUS
    <3>2. pc'[t] = "rd_state" /\ op'[t] = "read" /\ idx'[t] = i /\ exp'[t] = g /\ gen' = gen
      BY <3>1 DEF Begin, Goto, slotVars
    <3>3. g <= gen[i]
      BY SMTT(30)
    <3> QED BY <3>2, <3>3 DEF RefOK, ReadPhase
  <2>2. CASE CallScanFirst(t) \/ CallScanNext(t)
    <3>1. pc'[t] = "sc_next" /\ exp'[t] = NoGen
      BY <2>2 DEF CallScanFirst, CallScanNext, Begin, Goto
    <3> QED BY <3>1 DEF RefOK, ReadPhase
  <2> QED BY <2>1, <2>2
<1>3. SlotOK(t)' /\ SnapOK(t)'
  BY <1>2 DEF SlotOK, SnapOK, Reading, CopyPhase
<1>4. \A i \in Slots : gen'[i] \in Nat /\ gen'[i] >= gen[i]
  BY SMTT(30), <1>1
<1> QED BY <1>1, <1>2, <1>3, <1>4, ReadFrame DEF InsPhase, OddPhase

\* alloc_slot, with its three outcomes.
LEMMA ReadAlloc ==
    ASSUME Types, SlotFacts, CellFacts, SeqInv, NEW t \in Threads, InsertAlloc(t)
    PROVE  SeqInv'
<1>1. /\ pc[t] = "ins_alloc"
      /\ UNCHANGED <<seq, image, gen, pubgen, hist, op, exp, rec, s1, buf, since>>
  BY DEF InsertAlloc, slotVars, readVars
<1>2. CASE AllocPop(t)
  <2>1. free_head \in Slots /\ TakeSlot(t, free_head)
    BY <1>2 DEF AllocPop, Types, TypeOK, ShareTypes
  <2> QED BY <1>1, <2>1, ReadTake
<1>3. CASE AllocGrow(t)
  <2>1. SlotCount \in Slots /\ TakeSlot(t, SlotCount)
    BY <1>3, GrowSlot DEF AllocGrow, ChunkEnd, GrowTo, Types, TypeOK
  <2> QED BY <1>1, <2>1, ReadTake
<1>4. CASE AllocFail(t)
  <2>1. Quiet(t)
    BY <1>1, <1>4
    DEF AllocFail, Goto, Quiet, OnlyOf, SlotFacts, InsPhase, OddPhase, ReadPhase
  <2> QED BY <2>1, QuietStep
<1> QED BY <1>2, <1>3, <1>4 DEF InsertAlloc

\* Every step keeps SeqInv.
LEMMA SeqStep ==
    ASSUME ClearsApart, Types, LocksOK, LifeInv, SeqInv, [Next]_vars, Types' PROVE SeqInv'
<1>1. SlotFacts /\ LockFacts /\ CellFacts
  BY Facts, Cells
<1>2. GensOK /\ WorkOK /\ OwnOK
  BY LifeWork DEF Work
<1>3. ASSUME NEW t \in Threads, QuietAction(t) PROVE SeqInv'
  BY <1>1, <1>3, QuietActions, QuietStep
<1>4. ASSUME NEW t \in Threads, CallRead(t) \/ CallScanFirst(t) \/ CallScanNext(t) PROVE SeqInv'
  BY <1>1, <1>4, ReadCall
<1>5. ASSUME NEW t \in Threads, InsertAlloc(t) PROVE SeqInv'
  BY <1>1, <1>5, ReadAlloc
<1>6. ASSUME NEW t \in Threads, InsertCopy(t) \/ UpdateCopy(t) PROVE SeqInv'
  BY <1>1, <1>2, <1>6, ReadCopyIn DEF InsertCopy, UpdateCopy
<1>7. ASSUME NEW t \in Threads, InsertPublish(t) PROVE SeqInv'
  BY <1>1, <1>2, <1>7, ReadPublish
<1>8. ASSUME NEW t \in Threads, UpdateOdd(t) PROVE SeqInv'
  BY <1>1, <1>2, <1>8, ReadOdd
<1>9. ASSUME NEW t \in Threads, UpdateEven(t) PROVE SeqInv'
  BY <1>1, <1>2, <1>9, ReadEven
<1>10. ASSUME NEW t \in Threads, ReadState(t) PROVE SeqInv'
  BY <1>1, <1>2, <1>10, ReadStateStep
<1>11. ASSUME NEW t \in Threads, ReadGen(t) PROVE SeqInv'
  BY <1>1, <1>2, <1>11, ReadGenStep
<1>12. ASSUME NEW t \in Threads, ReadSeq(t) \/ ReadCopy(t) \/ ReadCheck(t) \/ ScanStep(t)
       PROVE  SeqInv'
  <2>1. pc'[t] \in SlotPhase => idx'[t] \in Slots
    BY DEF Types, ArgsOK
  <2> QED BY <1>1, <1>12, <2>1, ReadRestStep
<1>14. CASE UNCHANGED vars
  <2>1. UNCHANGED <<seq, image, gen, pubgen, hist, pc, op, idx, exp, rec, left, s1, buf, recycled,
                    since>>
    BY <1>14 DEF vars, slotVars, argVars, readVars, histVars
  <2>2. \A i \in Slots : RowOK(i)'
    BY <2>1 DEF SeqInv, RowOK, NotFilled, Published
  <2>3. \A t \in Threads : CopyOK(t)' /\ RefOK(t)'
    BY <2>1 DEF SeqInv, CopyOK, RefOK
  <2>4. \A t \in Threads : SlotOK(t)'
    BY <2>1 DEF SeqInv, SlotOK, Reading, NotFilled
  <2>5. \A t \in Threads : SnapOK(t)'
    BY <2>1 DEF SeqInv, SnapOK
  <2> QED BY <2>2, <2>3, <2>4, <2>5 DEF SeqInv
<1> QED
  BY <1>3, <1>4, <1>5, <1>6, <1>7, <1>8, <1>9, <1>10, <1>11, <1>12, <1>14
  DEF Next, Call, Acquire, Run, QuietAction

\* SeqInv holds in every reachable state.
LEMMA SeqCorrect == ASSUME ClearsApart PROVE Spec => [](Types /\ LocksOK /\ LifeInv /\ SeqInv)
<1>1. Types /\ LocksOK /\ LifeInv /\ SeqInv /\ [Next]_vars /\ Types' => SeqInv'
  BY SeqStep
<1> QED BY <1>1, SeqInit, LifeCorrect, PTL DEF Spec

\* A live row that no update is in the middle of is one whole record, published
\* under the slot's generation (fm_core_write_image, fm_core_insert_row).
THEOREM RowsWhole == ASSUME ClearsApart PROVE Spec => []PublishedImageWhole
<1>1. Types /\ LocksOK /\ LifeInv /\ SeqInv => PublishedImageWhole
  <2> SUFFICES ASSUME Types, LocksOK, LifeInv, SeqInv, NEW i \in ActiveSlots, seq[i] % 2 = 0
               PROVE  \E r \in Recs : image[i] = Whole(r) /\ <<gen[i], r>> \in hist[i]
    BY DEF PublishedImageWhole
  <2>1. SlotFacts /\ CellFacts /\ i \in Slots /\ state[i] = "ACTIVE"
    BY Facts, Cells DEF ActiveSlots
  <2>2. pubgen[i] = gen[i] /\ pubgen[i] # NoGen /\ NotFilled(i)
    BY SMTT(30), <2>1, LifeWork DEF Work, GensOK, WorkOK, WorkAt, NotFilled, SlotFacts, NoGen
  <2>3. PICK r \in Recs : (\A w \in Words : image[i][w] = r) /\ <<pubgen[i], r>> \in hist[i]
    BY <2>1, <2>2 DEF SeqInv, RowOK, Published
  <2>4. image[i] = Whole(r)
    BY <2>1, <2>3 DEF CellFacts, Whole
  <2> QED BY <2>2, <2>3, <2>4
<1> QED BY <1>1, SeqCorrect, PTL

\* A read leaves rd_check with a result only when seq is what it was.
LEMMA CheckPassed ==
    ASSUME SlotFacts, CellFacts, Next, NEW t \in Threads, pc[t] = "rd_check", pc'[t] = "done"
    PROVE  seq[idx[t]] = s1[t]
<1> USE DEF SlotFacts, CellFacts, Goto, Return
<1> DEFINE Away(u) == pc[u] # "rd_check" /\ pc' = [pc EXCEPT ![u] = pc'[u]]
<1>1. PICK u \in Threads : Call(u) \/ Acquire(u) \/ Run(u)
  BY DEF Next
<1>2. ASSUME Call(u) PROVE Away(u)
  BY <1>2 DEF Call, CallRead, CallInsert, CallUpdate, CallDelete, CallLock, CallClear,
    CallScanFirst, CallScanNext, Begin
<1>3. ASSUME Acquire(u) PROVE Away(u)
  BY <1>3 DEF Acquire, InsertAlloc, AllocPop, AllocGrow, ChunkEnd, GrowTo, AllocFail, TakeSlot,
    UpdateLock, DeleteLock, LockRow, LockSlot, Exchange, DeletePush, Push, ClearLock, ClearSlot,
    FreeSlotStores
<1>4. ASSUME ReadState(u) \/ ReadGen(u) \/ ReadSeq(u) \/ ReadCopy(u) \/ ScanStep(u) PROVE Away(u)
  BY <1>4 DEF ReadState, ReadGen, ReadDeleted, ReadSeq, ReadCopy, ScanStep, ScanUpTo
<1>5. ASSUME InsertFail(u) \/ InsertCopy(u) \/ InsertPublish(u) \/ InsertCount(u) \/ UpdateCopy(u)
      PROVE  Away(u)
  BY <1>5 DEF InsertFail, InsertCopy, InsertPublish, InsertCount, UpdateCopy, CopyIn
<1>6. ASSUME UpdateState(u) \/ UpdateGen(u) \/ UpdateOdd(u) \/ UpdateEven(u) PROVE Away(u)
  BY <1>6 DEF UpdateState, UpdateGen, UpdateOdd, UpdateEven, VerifyState, VerifyGen, Unlock,
    KeepLock, DropLock
<1>7. ASSUME DeleteState(u) \/ DeleteGen(u) \/ DeleteMark(u) \/ DeleteDead(u) \/ DeleteBump(u)
             \/ DeleteCount(u)
      PROVE  Away(u)
  BY <1>7 DEF DeleteState, DeleteGen, DeleteMark, DeleteDead, DeleteBump, DeleteCount,
    VerifyState, VerifyGen, Unlock, KeepLock, DropLock
<1>8. ASSUME UpdateLocked(u) \/ DeleteLocked(u) \/ UnlockRow(u) \/ ClearRebuild(u) \/ Finish(u)
      PROVE  Away(u)
  BY <1>8
  DEF UpdateLocked, DeleteLocked, StartLocked, UnlockRow, ClearRebuild, Rebuild, Finish
<1>9. ASSUME ReadCheck(u) PROVE seq[idx[t]] = s1[t]
  BY <1>9 DEF ReadCheck, ReadOK
<1>10. ~ Away(u)
  OBVIOUS
<1> QED
  BY <1>1, <1>2, <1>3, <1>4, <1>5, <1>6, <1>7, <1>8, <1>9, <1>10 DEF Run

\* The seqlock is right for any number of readers and writers, any number of
\* words and any width of seq (fm_core_read_row against fm_core_write_image): a
\* read that returns OK has the slot's present image, one whole record published
\* under the generation asked for, unless the slot was filled again during the
\* attempt or seq went once around.
THEOREM ReadsCurrent == ASSUME ClearsApart PROVE Spec => ReadReturnsCurrentRow
<1> DEFINE Current ==
        \A t \in Threads :
            (pc[t] = "rd_check" /\ pc'[t] = "done" /\ ~recycled[t] /\ since[t] < SEQ_MOD)
            => /\ buf[t] = image[idx[t]]
               /\ \E r \in Recs : /\ buf[t] = Whole(r)
                                 /\ <<pubgen[idx[t]], r>> \in hist[idx[t]]
               /\ exp[t] # NoGen => exp[t] = pubgen[idx[t]]
<1>1. Types /\ LocksOK /\ LifeInv /\ SeqInv /\ [Next]_vars => [Current]_vars
  <2> SUFFICES ASSUME Types, LocksOK, LifeInv, SeqInv, Next,
                      NEW t \in Threads, pc[t] = "rd_check", pc'[t] = "done",
                      ~recycled[t], since[t] < SEQ_MOD
               PROVE  /\ buf[t] = image[idx[t]]
                      /\ \E r \in Recs : /\ buf[t] = Whole(r)
                                        /\ <<pubgen[idx[t]], r>> \in hist[idx[t]]
                      /\ exp[t] # NoGen => exp[t] = pubgen[idx[t]]
    OBVIOUS
  <2>1. SlotFacts /\ CellFacts /\ idx[t] \in Slots
    BY Facts, Cells DEF SlotFacts, SlotPhase
  <2>2. seq[idx[t]] = s1[t]
    BY <2>1, CheckPassed
  <2>3. SnapOK(t) /\ SlotOK(t) /\ RowOK(idx[t])
    BY <2>1 DEF SeqInv
  <2>4. since[t] = 0 /\ s1[t] % 2 = 0
    <3>1. /\ s1[t] \in 0 .. SEQ_MOD - 1 /\ since[t] \in 0 .. SEQ_MOD /\ SEQ_MOD \in Nat
          /\ s1[t] \in {s1[t] + since[t], s1[t] + since[t] - SEQ_MOD} /\ s1[t] % 2 = 0
      BY <2>1, <2>2, <2>3, SeqAssumption DEF SnapOK, CopyPhase, CellFacts
    <3> QED BY <3>1, FullTurn
  <2>5. \A w \in Words : buf[t][w] = image[idx[t]][w]
    BY <2>3, <2>4 DEF SnapOK, CopyPhase
  <2>6. buf[t] = image[idx[t]]
    <3>1. /\ buf[t] \in [Words -> Recs \union {NoRec}]
          /\ image[idx[t]] \in [Words -> Recs \union {NoRec}]
      BY <2>1 DEF CellFacts
    <3> QED BY <2>5, <3>1, SameImage
  <2>7. /\ pubgen[idx[t]] # NoGen /\ NotFilled(idx[t])
        /\ exp[t] \in {NoGen, pubgen[idx[t]]}
    BY <2>3 DEF SlotOK, Reading
  <2>8. PICK r \in Recs : /\ \A w \in Words : image[idx[t]][w] = r
                          /\ <<pubgen[idx[t]], r>> \in hist[idx[t]]
    BY <2>2, <2>3, <2>4, <2>7 DEF RowOK, Published
  <2>9. buf[t] = Whole(r)
    BY <2>1, <2>6, <2>8 DEF CellFacts, Whole
  <2> QED BY <2>6, <2>7, <2>8, <2>9
<1> QED BY <1>1, SeqCorrect, PTL DEF Spec, ReadReturnsCurrentRow
=============================================================================
