--------------------------- MODULE FmIndex_chains ---------------------------
(***************************************************************************)
(* The bucket chains of FmIndex, for every number of threads, slots, keys  *)
(* and buckets and every workload: the inductive invariant, which rows a   *)
(* chain holds at every step, and what the walk of a lookup has still      *)
(* ahead of it when other threads move.                                    *)
(***************************************************************************)
EXTENDS FmIndex_base

\* The leaves below are for Zenon unless they name SMTT.
USE ZenonT(30)

-----------------------------------------------------------------------------
(* The invariant.                                                          *)

\* Steps at which a call has linked only some of the keys of its row, or
\* moved only some of them.
LinkPhase == {"ins_bucket", "ins_walk", "ins_publish", "ins_undo", "dl_unlink", "up_relink"}

\* The row of t that is not visible is linked in key k; the row t updates is
\* still linked under the old value of key k.
Mine(t, i, k) ==
    /\ idx[t] = i
    /\ \/ pc[t] \in {"ins_bucket", "ins_walk", "ins_publish"} /\ k < key[t]
       \/ pc[t] = "ins_undo" /\ k <= key[t]
       \/ pc[t] = "dl_unlink" /\ k >= key[t]
Pending(t, i, k) == pc[t] = "up_relink" /\ idx[t] = i /\ k \in Changed(t) /\ k >= key[t]

\* Row i is in the chain of bucket b of key k.
In(i, k, b) ==
    /\ state[i] = "ACTIVE" \/ \E t \in Threads : Mine(t, i, k)
    /\ \/ \E t \in Threads : Pending(t, i, k) /\ Bucket(old[t][k]) = b
       \/ Bucket(row[i][k]) = b /\ \A t \in Threads : ~Pending(t, i, k)
Members(k, b) == {i \in Slots : In(i, k, b)}
ChainsOK == \A k \in KeyNos : \A b \in Buckets : Chain(head[k][b], next[k], Members(k, b))

\* The rows R are what a walk that stands at x has ahead of it.
Ahead(x, k, b, R) == R \in SUBSET Slots /\ Chain(x, next[k], R) /\ \A i \in R : In(i, k, b)

\* A lookup: the rows that matched all the while still match, and those not
\* returned yet are ahead of the row it returned last, and of its walk.
Settled(t) == pc[t] # "fd_lock" \/ idx[t] # FM_NULL_SLOT
StableOK(t) ==
    \A k \in KeyNos : key[t] = k =>
        \A i \in stable[t] : /\ state[i] = "ACTIVE" /\ row[i][k] \in want[t]
                             /\ Settled(t) => \A u \in Threads : ~Pending(u, i, k)
AnswerOK(t) ==
    ret[t] = "NOT_FOUND" => pc[t] = "done" /\ (~lost[t] => stable[t] \subseteq seen[t])
Looks(t, k, b) == ~lost[t] /\ key[t] = k /\ WantBucket(t) = b
CursorAt(t, i, k, b) ==
    /\ In(i, k, b) /\ state[i] \in {"ACTIVE", "DELETING"} /\ i \in seen[t]
    /\ \E x \in Links : \E R \in SUBSET Slots :
           x = next[k][i] /\ Ahead(x, k, b, R) /\ stable[t] \ seen[t] \subseteq R
CursorOK(t) ==
    \A i \in Slots : \A k \in KeyNos : \A b \in Buckets :
        Looks(t, k, b) /\ idx[t] = i /\ ret[t] # "NOT_FOUND" => CursorAt(t, i, k, b)
WalkAt(t, x, k, b) ==
    \E R \in SUBSET Slots : /\ Ahead(x, k, b, R)
                            /\ after[t] => stable[t] \ seen[t] \subseteq R
                            /\ ~after[t] => idx[t] \in R
WalkOK(t) ==
    \A x \in Links : \A k \in KeyNos : \A b \in Buckets :
        Looks(t, k, b) /\ pc[t] = "fd_walk" /\ h[t] = x => WalkAt(t, x, k, b)
FindOK(t) ==
    /\ op[t] = "find" => StableOK(t) /\ AnswerOK(t) /\ CursorOK(t) /\ WalkOK(t)
    /\ op[t] # "find" => ret[t] = "none"

\* Rows that count for the uniqueness of key k: the visible ones and those an
\* insert has linked.
LivePhase == {"ins_bucket", "ins_walk", "ins_publish"}
Inserting(t, j, k) == pc[t] \in LivePhase /\ idx[t] = j /\ k < key[t]
Live(j, k) == state[j] = "ACTIVE" \/ \E t \in Threads : Inserting(t, j, k)
Guarded(k, v) == k \in Unique /\ v \notin NullVals

\* A duplicate check has met, or has ahead of it, every row with its value;
\* an update has met all of those of the keys it has checked.
Meets(i, k, v, R) ==
    \A j \in Slots : j # i /\ Live(j, k) /\ row[j][k] = v => j \in R \/ j \in raced
DupAt(x, i, k, v) ==
    \E R \in SUBSET Slots : Ahead(x, k, Bucket(v), R) /\ Meets(i, k, v, R)
Checks(t, i, k, v) ==
    pc[t] \in {"ins_walk", "up_walk"} /\ idx[t] = i /\ key[t] = k /\ new[t][k] = v /\ Guarded(k, v)
DupOK(t) ==
    \A x \in Links : \A i \in Slots : \A k \in KeyNos : \A v \in Vals :
        Checks(t, i, k, v) /\ h[t] = x => DupAt(x, i, k, v)
Checked(t, k) == k \in Changed(t) /\ (pc[t] = "up_write" \/ (pc[t] = "up_walk" /\ k < key[t]))
CheckedOK(t) ==
    \A i \in Slots : \A k \in KeyNos : \A v \in Vals :
        Checked(t, k) /\ idx[t] = i /\ new[t][k] = v /\ Guarded(k, v) => Meets(i, k, v, {})
UniqueOK ==
    \A k \in KeyNos : \A i \in Slots : \A j \in Slots :
        i # j /\ Live(i, k) /\ Live(j, k) /\ row[i][k] = row[j][k] /\ Guarded(k, row[i][k]) =>
            i \in raced \/ j \in raced

IndexInv ==
    /\ BaseInv /\ ChainsOK /\ UniqueOK
    /\ \A t \in Threads : FindOK(t) /\ DupOK(t) /\ CheckedOK(t)

-----------------------------------------------------------------------------
(* Which rows are in which chain, before and after a step.                 *)

\* No other thread has linked or is moving the row of t.
LEMMA OnlyMine ==
    ASSUME BaseInv, NEW t \in Threads, pc[t] \in InsPhase \cup RowPhase, NEW k,
           NEW u \in Threads \ {t}
    PROVE  ~Mine(u, idx[t], k) /\ ~Pending(u, idx[t], k)
<1>1. pc[u] \in InsPhase \cup RowPhase => idx[u] # idx[t]
  BY SlotOwner
<1> QED BY <1>1 DEF Mine, Pending, InsPhase, RowPhase, UpPhase, DelPhase

LEMMA MineSame ==
    ASSUME NEW u \in Threads, SameLocals(u), NEW i, NEW k
    PROVE  /\ Mine(u, i, k)' <=> Mine(u, i, k)
           /\ Pending(u, i, k)' <=> Pending(u, i, k)
           /\ old'[u] = old[u]
<1>1. Changed(u)' = Changed(u)
  BY LockSetSame DEF SameLocals
<1> QED BY <1>1 DEF Mine, Pending, SameLocals

\* The row of t: its chain depends on t alone.
Bucketed(t, i, k, b) ==
    /\ state[i] = "ACTIVE" \/ Mine(t, i, k)
    /\ IF Pending(t, i, k) THEN Bucket(old[t][k]) = b ELSE Bucket(row[i][k]) = b

LEMMA InMine ==
    ASSUME NEW t \in Threads, NEW i, NEW k, NEW b,
           \A u \in Threads \ {t} : ~Mine(u, i, k) /\ ~Pending(u, i, k)
    PROVE  In(i, k, b) <=> Bucketed(t, i, k, b)
<1>1. CASE Pending(t, i, k)
  BY <1>1 DEF In, Bucketed
<1>2. CASE ~Pending(t, i, k)
  BY <1>2 DEF In, Bucketed
<1> QED BY <1>1, <1>2

LEMMA InMineNext ==
    ASSUME BaseInv, NEW t \in Threads, Step(t), NEW i, NEW k, NEW b,
           \A u \in Threads \ {t} : ~Mine(u, i, k) /\ ~Pending(u, i, k)
    PROVE  In(i, k, b)' <=> Bucketed(t, i, k, b)'
<1>1. ASSUME NEW u \in Threads \ {t} PROVE ~Mine(u, i, k)' /\ ~Pending(u, i, k)'
  <2>1. SameLocals(u)
    BY OthersSame DEF BaseInv, Types
  <2> QED BY <2>1, MineSame
<1>2. CASE Pending(t, i, k)'
  BY <1>1, <1>2 DEF In, Bucketed
<1>3. CASE ~Pending(t, i, k)'
  BY <1>1, <1>3 DEF In, Bucketed
<1> QED BY <1>2, <1>3

\* A step of t that leaves row i where it is in key k.
KeepsIn(t, i, k) ==
    /\ (state'[i] = "ACTIVE" \/ Mine(t, i, k)') <=> (state[i] = "ACTIVE" \/ Mine(t, i, k))
    /\ Pending(t, i, k)' <=> Pending(t, i, k)
    /\ Pending(t, i, k) => old'[t] = old[t]
    /\ row'[i] = row[i]

LEMMA InSame ==
    ASSUME BaseInv, NEW t \in Threads, Step(t), NEW i, NEW k, KeepsIn(t, i, k), NEW b
    PROVE  In(i, k, b)' <=> In(i, k, b)
<1>1. ASSUME NEW u \in Threads \ {t}
      PROVE  /\ Mine(u, i, k)' <=> Mine(u, i, k)
             /\ Pending(u, i, k)' <=> Pending(u, i, k)
             /\ old'[u] = old[u]
  <2>1. SameLocals(u)
    BY OthersSame DEF BaseInv, Types
  <2> QED BY <2>1, MineSame
<1>2. (state'[i] = "ACTIVE" \/ \E u \in Threads : Mine(u, i, k)') <=>
      (state[i] = "ACTIVE" \/ \E u \in Threads : Mine(u, i, k))
  BY <1>1 DEF KeepsIn
<1>3. \A u \in Threads : Pending(u, i, k)' <=> Pending(u, i, k)
  BY <1>1 DEF KeepsIn
<1>4. \A u \in Threads : Pending(u, i, k) => old'[u] = old[u]
  BY <1>1 DEF KeepsIn
<1>5. row'[i] = row[i]
  BY DEF KeepsIn
<1> QED BY <1>2, <1>3, <1>4, <1>5 DEF In

\* Every row that counts after the step for the uniqueness of a key did before.
LiveKept ==
    /\ row' = row
    /\ \A j \in Slots : \A k \in KeyNos : Live(j, k)' => Live(j, k)
    /\ raced \subseteq raced'

\* Steps that change no chain, and steps of calls that have linked no row.
Kept ==
    /\ head' = head /\ next' = next
    /\ \A i \in Slots : \A k \in KeyNos : \A b \in Buckets : In(i, k, b)' <=> In(i, k, b)

LEMMA IdleChains ==
    ASSUME BaseInv, NEW t \in Threads, Step(t), head' = head, next' = next, state' = state,
           row' = row, pc[t] \notin LinkPhase, pc'[t] \notin LinkPhase
    PROVE  Kept
<1> SUFFICES ASSUME NEW i \in Slots, NEW k \in KeyNos PROVE KeepsIn(t, i, k)
  BY InSame DEF Kept
<1> QED BY DEF KeepsIn, Mine, Pending, LinkPhase

\* Steps that make no row visible, link none, and forget no race.
LEMMA LiveIdle ==
    ASSUME BaseInv, NEW t \in Threads, Step(t), state' = state, row' = row,
           raced \subseteq raced',
           pc'[t] \in LivePhase => pc[t] \in LivePhase /\ idx'[t] = idx[t] /\ key'[t] = key[t]
    PROVE  LiveKept
<1> SUFFICES ASSUME NEW j \in Slots, NEW k \in KeyNos, Live(j, k)' PROVE Live(j, k)
  BY DEF LiveKept
<1>1. CASE state'[j] = "ACTIVE"
  BY <1>1 DEF Live
<1>2. CASE \E u \in Threads : Inserting(u, j, k)'
  <2>1. PICK u \in Threads : Inserting(u, j, k)'
    BY <1>2
  <2>2. CASE u = t
    BY <2>1, <2>2 DEF Live, Inserting
  <2>3. CASE u # t
    <3>1. SameLocals(u)
      BY <2>3, OthersSame DEF BaseInv, Types
    <3> QED BY <2>1, <3>1 DEF Live, Inserting, SameLocals
  <2> QED BY <2>2, <2>3
<1> QED BY <1>1, <1>2 DEF Live

LEMMA Idle ==
    ASSUME BaseInv, NEW t \in Threads, Step(t), head' = head, next' = next, state' = state,
           row' = row, raced \subseteq raced', pc[t] \notin LinkPhase, pc'[t] \notin LinkPhase
    PROVE  Kept /\ LiveKept
<1>1. Kept
  BY IdleChains
<1>2. LiveKept
  BY LiveIdle DEF LinkPhase, LivePhase
<1> QED BY <1>1, <1>2

LinkStep(t) ==
    InsertLink(t) \/ InsertUndo(t) \/ DeleteUnlink(t) \/ UpdateRelink(t) \/ Truncate(t)
LiveStep(t) ==
    \/ InsertAlloc(t) \/ InsertLink(t) \/ InsertPublish(t) \/ InsertFree(t)
    \/ Delete(t) \/ DeleteDead(t) \/ UpdateWrite(t) \/ Truncate(t)

LEMMA KeepInsertAlloc ==
    ASSUME BaseInv, NEW t \in Threads, Step(t), InsertAlloc(t)
    PROVE  Kept
<1>0. LocalTypes /\ ArgsOK(t) /\ RowOK(t) /\ pc \in [Threads -> Labels] 
      /\ key \in [Threads -> -1 .. keys] /\ idx \in [Threads -> Links]
  BY DEF BaseInv, Types, LocalTypes
<1>1. /\ head' = head /\ next' = next /\ state' = state /\ pc[t] = "ins_alloc"
      /\ pc'[t] = "ins_bucket" /\ idx'[t] = Head(free) /\ key' = key /\ struct_mutex = NoThread
      /\ row' = [row EXCEPT ![Head(free)] = new[t]]
  BY <1>0 DEF InsertAlloc, walkVars, Goto, chainVars, slotVars
<1>2. key[t] = 0 /\ FreeOK /\ row \in [Slots -> Recs] /\ free \in Seq(Slots)
  BY <1>0, <1>1 DEF BaseInv, Types, ShareTypes, SlotTypes, ArgsOK
<1>3. Head(free) = free[1] /\ 1 \in 1 .. Len(free)
  BY SMTT(30), <1>2 DEF InsertAlloc
<1>4. free[1] \in Slots /\ state[free[1]] # "ACTIVE"
  BY <1>2, <1>3 DEF FreeOK, FreeDead
<1>5. ASSUME NEW k \in KeyNos, NEW i \in Slots
      PROVE  /\ ~Pending(t, i, k) /\ ~Pending(t, i, k)' /\ ~Mine(t, i, k) /\ ~Mine(t, i, k)'
  <2>1. ~(k < 0)
    BY SMTT(30), KeysAssumption DEF KeyNos
  <2> QED BY <1>1, <1>2, <2>1 DEF Pending, Mine
<1>6. ASSUME NEW i \in Slots, NEW k \in KeyNos, NEW b \in Buckets
      PROVE  In(i, k, b)' <=> In(i, k, b)
  <2>1. CASE i = free[1]
    <3>1. ASSUME NEW u \in Threads \ {t} PROVE ~Mine(u, i, k) /\ ~Pending(u, i, k)
      <4>1. pc[u] \in InsPhase \cup RowPhase => i # idx[u]
        BY <1>1, <1>3, <2>1, SlotOwner
      <4> QED BY <4>1 DEF Mine, Pending, InsPhase, RowPhase, UpPhase, DelPhase
    <3>2. ~Bucketed(t, i, k, b) /\ ~Bucketed(t, i, k, b)'
      BY <1>1, <1>4, <1>5, <2>1 DEF Bucketed
    <3> QED BY <3>1, <3>2, InMine, InMineNext
  <2>2. CASE i # free[1]
    <3>1. row'[i] = row[i]
      BY <1>1, <1>2, <1>3, <2>2
    <3>2. KeepsIn(t, i, k)
      BY <1>1, <1>5, <3>1 DEF KeepsIn
    <3> QED BY <3>2, InSame
  <2> QED BY <2>1, <2>2
<1> QED BY <1>1, <1>6 DEF Kept

LEMMA KeepInsertBucket ==
    ASSUME BaseInv, NEW t \in Threads, Step(t), InsertBucket(t)
    PROVE  Kept /\ LiveKept
<1>0. LocalTypes /\ ArgsOK(t) /\ RowOK(t) /\ pc \in [Threads -> Labels] 
      /\ key \in [Threads -> -1 .. keys] /\ idx \in [Threads -> Links]
  BY DEF BaseInv, Types, LocalTypes
<1>1. /\ head' = head /\ next' = next /\ state' = state /\ row' = row /\ key' = key
      /\ idx' = idx /\ pc[t] = "ins_bucket" /\ pc'[t] = "ins_walk"
  BY <1>0 DEF InsertBucket, argVars, Goto, chainVars, slotVars
<1>2. \A i \in Slots : \A k \in KeyNos : KeepsIn(t, i, k)
  BY <1>1 DEF KeepsIn, Mine, Pending
<1>8. Kept
  BY <1>1, <1>2, InSame DEF Kept
<1>9. LiveKept
  <2>1. raced' = raced
    BY DEF InsertBucket
  <2> QED BY <1>1, <2>1, LiveIdle DEF LivePhase
<1> QED BY <1>8, <1>9

LEMMA KeepUpdateBucket ==
    ASSUME BaseInv, NEW t \in Threads, Step(t), UpdateBucket(t)
    PROVE  Kept /\ LiveKept
<1>0. LocalTypes /\ ArgsOK(t) /\ RowOK(t) /\ pc \in [Threads -> Labels] 
      /\ key \in [Threads -> -1 .. keys] /\ idx \in [Threads -> Links]
  BY DEF BaseInv, Types, LocalTypes
<1>1. pc'[t] \in {"up_bucket", "up_walk", "up_write"}
  BY <1>0 DEF UpdateBucket, CheckKeys, Goto, chainVars, slotVars
<1> QED BY <1>1, Idle DEF UpdateBucket, chainVars, slotVars, LinkPhase

LEMMA KeepInsertWalk ==
    ASSUME BaseInv, NEW t \in Threads, Step(t), InsertWalk(t)
    PROVE  Kept /\ LiveKept
<1>0. LocalTypes /\ ArgsOK(t) /\ RowOK(t) /\ pc \in [Threads -> Labels] 
      /\ key \in [Threads -> -1 .. keys] /\ idx \in [Threads -> Links]
  BY DEF BaseInv, Types, LocalTypes
<1>1. /\ head' = head /\ next' = next /\ state' = state /\ row' = row /\ key' = key
      /\ idx' = idx /\ pc[t] = "ins_walk" /\ pc'[t] = "ins_walk"
  BY <1>0 DEF InsertWalk, argVars, DupStep, Goto, chainVars, slotVars
<1>2. \A i \in Slots : \A k \in KeyNos : KeepsIn(t, i, k)
  BY <1>1 DEF KeepsIn, Mine, Pending
<1>8. Kept
  BY <1>1, <1>2, InSame DEF Kept
<1>9. LiveKept
  <2>1. raced \subseteq raced'
    BY DEF InsertWalk, DupStep, Pass
  <2> QED BY <1>1, <2>1, LiveIdle DEF LivePhase
<1> QED BY <1>8, <1>9

LEMMA KeepInsertDup ==
    ASSUME BaseInv, NEW t \in Threads, Step(t), InsertDup(t)
    PROVE  Kept /\ LiveKept
<1>0. LocalTypes /\ ArgsOK(t) /\ RowOK(t) /\ pc \in [Threads -> Labels] 
      /\ key \in [Threads -> -1 .. keys] /\ idx \in [Threads -> Links]
  BY DEF BaseInv, Types, LocalTypes
<1>1. /\ head' = head /\ next' = next /\ state' = state /\ row' = row /\ key'[t] = key[t] - 1
      /\ idx' = idx /\ pc[t] = "ins_walk"
      /\ pc'[t] = IF key[t] = 0 THEN "ins_free" ELSE "ins_undo"
  BY <1>0 DEF InsertDup, argVars, Goto, chainVars, slotVars
<1>2. key[t] \in KeyNos
  BY <1>0, <1>1, InsArgs
<1>3. ASSUME NEW i \in Slots, NEW k \in KeyNos PROVE KeepsIn(t, i, k)
  <2>1. (k < key[t] <=> k <= key[t] - 1) /\ ~(k < 0)
    BY SMTT(30), <1>2, KeysAssumption DEF KeyNos
  <2>2. Mine(t, i, k)' <=> Mine(t, i, k)
    <3>1. CASE key[t] = 0
      BY <1>1, <2>1, <3>1 DEF Mine
    <3>2. CASE key[t] # 0
      BY <1>1, <2>1, <3>2 DEF Mine
    <3> QED BY <3>1, <3>2
  <2>3. ~Pending(t, i, k) /\ ~Pending(t, i, k)'
    BY <1>1 DEF Pending
  <2> QED BY <1>1, <2>2, <2>3 DEF KeepsIn
<1>8. Kept
  BY <1>1, <1>3, InSame DEF Kept
<1>9. LiveKept
  <2>1. raced' = raced /\ pc'[t] \notin LivePhase
    BY <1>1 DEF InsertDup, LivePhase
  <2> QED BY <1>1, <2>1, LiveIdle
<1> QED BY <1>8, <1>9

LEMMA KeepInsertPublish ==
    ASSUME BaseInv, NEW t \in Threads, Step(t), InsertPublish(t)
    PROVE  Kept
<1>0. LocalTypes /\ ArgsOK(t) /\ RowOK(t) /\ pc \in [Threads -> Labels] 
      /\ key \in [Threads -> -1 .. keys] /\ idx \in [Threads -> Links]
  BY DEF BaseInv, Types, LocalTypes
<1>a. state \in [Slots -> {"FREE", "ACTIVE", "DELETING", "DELETED"}]
  BY DEF BaseInv, Types, SlotTypes
<1>1. /\ head' = head /\ next' = next /\ row' = row /\ pc[t] = "ins_publish" /\ pc'[t] = "idle"
      /\ state' = [state EXCEPT ![idx[t]] = "ACTIVE"]
  BY <1>0, ReturnFacts DEF InsertPublish, Goto, chainVars, slotVars
<1>2. key[t] = keys /\ idx[t] \in Slots
  BY <1>0, <1>1 DEF ArgsOK, InsPhase
<1>3. ASSUME NEW i \in Slots, NEW k \in KeyNos PROVE KeepsIn(t, i, k)
  <2>1. k < key[t]
    BY <1>2, KeyNoFacts
  <2>2. ~Pending(t, i, k) /\ ~Pending(t, i, k)' /\ ~Mine(t, i, k)'
    BY <1>1 DEF Pending, Mine
  <2>3. CASE i = idx[t]
    <3>1. Mine(t, i, k) /\ state'[i] = "ACTIVE"
      BY <1>a, <1>1, <1>2, <2>1, <2>3 DEF Mine
    <3> QED BY <1>1, <2>2, <3>1 DEF KeepsIn
  <2>4. CASE i # idx[t]
    <3>1. ~Mine(t, i, k) /\ state'[i] = state[i]
      BY <1>a, <1>1, <1>2, <2>4 DEF Mine
    <3> QED BY <1>1, <2>2, <3>1 DEF KeepsIn
  <2> QED BY <2>3, <2>4
<1> QED BY <1>1, <1>3, InSame DEF Kept

LEMMA KeepUpdate ==
    ASSUME BaseInv, NEW t \in Threads, Step(t), Update(t)
    PROVE  Kept /\ LiveKept
<1>0. LocalTypes /\ ArgsOK(t) /\ RowOK(t) /\ pc \in [Threads -> Labels] 
      /\ key \in [Threads -> -1 .. keys] /\ idx \in [Threads -> Links]
  BY DEF BaseInv, Types, LocalTypes
<1>1. pc'[t] \in {"up_bucket", "up_write"}
  BY <1>0 DEF Update, Goto, chainVars, slotVars
<1> QED BY <1>1, Idle DEF Update, chainVars, slotVars, LinkPhase

LEMMA KeepUpdateChecked ==
    ASSUME BaseInv, NEW t \in Threads, Step(t), UpdateChecked(t)
    PROVE  Kept /\ LiveKept
<1>0. LocalTypes /\ ArgsOK(t) /\ RowOK(t) /\ pc \in [Threads -> Labels] 
      /\ key \in [Threads -> -1 .. keys] /\ idx \in [Threads -> Links]
  BY DEF BaseInv, Types, LocalTypes
<1>1. pc'[t] \in {"up_bucket", "up_walk", "up_write"}
  BY <1>0 DEF UpdateChecked, CheckKeys, Goto, chainVars, slotVars
<1> QED BY <1>1, Idle DEF UpdateChecked, chainVars, slotVars, LinkPhase

LEMMA KeepUpdateWrite ==
    ASSUME BaseInv, NEW t \in Threads, Step(t), UpdateWrite(t)
    PROVE  Kept
<1>0. LocalTypes /\ ArgsOK(t) /\ RowOK(t) /\ pc \in [Threads -> Labels] 
      /\ key \in [Threads -> -1 .. keys] /\ idx \in [Threads -> Links]
  BY DEF BaseInv, Types, LocalTypes
<1>1. /\ head' = head /\ next' = next /\ state' = state /\ pc[t] = "up_write"
      /\ row' = [row EXCEPT ![idx[t]] = new[t]]
  BY <1>0 DEF UpdateWrite, Goto, chainVars, slotVars
<1>2. IF Changed(t) = {} THEN pc'[t] = "idle"
      ELSE pc'[t] = "up_relink" /\ idx' = idx /\ old' = old /\ new' = new /\ key' = key
  BY <1>0, ReturnFacts DEF UpdateWrite, UnlockRow, argVars, walkVars, Goto
<1>3. /\ idx[t] \in Slots /\ state[idx[t]] = "ACTIVE" /\ row[idx[t]] = old[t]
      /\ row \in [Slots -> Recs] /\ pc[t] \in InsPhase \cup RowPhase
      /\ \A k \in Changed(t) : k >= key[t]
  <2>1. /\ idx[t] \in Slots /\ state[idx[t]] = "ACTIVE" /\ row[idx[t]] = old[t]
        /\ row \in [Slots -> Recs] /\ pc[t] \in InsPhase \cup RowPhase
        /\ \A k \in Changed(t) : key[t] <= k
    BY <1>0, <1>1 DEF BaseInv, Types, SlotTypes, ArgsOK, RowOK, RowPhase, UpPhase
  <2> QED BY SMTT(30), <2>1
<1>4. ASSUME NEW i \in Slots, NEW k \in KeyNos
      PROVE  ~Pending(t, i, k) /\ ~Mine(t, i, k) /\ ~Mine(t, i, k)'
  BY <1>1, <1>2 DEF Pending, Mine
<1>5. ASSUME NEW k \in KeyNos, NEW i, i = idx[t]
      PROVE  /\ Pending(t, i, k)' <=> k \in Changed(t)
             /\ k \notin Changed(t) => new[t][k] = old[t][k]
             /\ k \in Changed(t) => old'[t] = old[t]
  <2>1. CASE Changed(t) = {}
    BY <1>2, <1>5, <2>1 DEF Pending, Changed
  <2>2. CASE Changed(t) # {}
    <3>1. Changed(t)' = Changed(t)
      BY <1>2, <2>2 DEF Changed
    <3>2. Pending(t, i, k)' <=> k \in Changed(t)
      BY <1>2, <1>3, <1>5, <2>2, <3>1 DEF Pending
    <3> QED BY <1>2, <2>2, <3>2 DEF Changed
  <2> QED BY <2>1, <2>2
<1>6. ASSUME NEW i \in Slots, NEW k \in KeyNos, NEW b \in Buckets
      PROVE  In(i, k, b)' <=> In(i, k, b)
  <2>1. CASE i = idx[t]
    <3>1. \A u \in Threads \ {t} : ~Mine(u, i, k) /\ ~Pending(u, i, k)
      BY <1>3, <2>1, OnlyMine
    <3>2. Bucketed(t, i, k, b) <=> Bucket(old[t][k]) = b
      BY <1>3, <1>4, <2>1 DEF Bucketed
    <3>3. row'[i] = new[t] /\ state'[i] = "ACTIVE"
      BY <1>1, <1>3, <2>1
    <3>4. Bucketed(t, i, k, b)' <=> Bucket(old[t][k]) = b
      <4>1. CASE k \in Changed(t)
        BY <1>5, <2>1, <3>3, <4>1 DEF Bucketed
      <4>2. CASE k \notin Changed(t)
        BY <1>5, <2>1, <3>3, <4>2 DEF Bucketed
      <4> QED BY <4>1, <4>2
    <3> QED BY <3>1, <3>2, <3>4, InMine, InMineNext
  <2>2. CASE i # idx[t]
    <3>1. row'[i] = row[i] /\ ~Pending(t, i, k)'
      BY <1>1, <1>2, <1>3, <2>2 DEF Pending
    <3>2. KeepsIn(t, i, k)
      BY <1>1, <1>4, <3>1 DEF KeepsIn
    <3> QED BY <3>2, InSame
  <2> QED BY <2>1, <2>2
<1> QED BY <1>1, <1>6 DEF Kept

LEMMA KeepDelete ==
    ASSUME BaseInv, NEW t \in Threads, Step(t), Delete(t)
    PROVE  Kept
<1>0. LocalTypes /\ ArgsOK(t) /\ RowOK(t) /\ pc \in [Threads -> Labels] 
      /\ key \in [Threads -> -1 .. keys] /\ idx \in [Threads -> Links]
  BY DEF BaseInv, Types, LocalTypes
<1>a. state \in [Slots -> {"FREE", "ACTIVE", "DELETING", "DELETED"}]
  BY DEF BaseInv, Types, SlotTypes
<1>1. /\ head' = head /\ next' = next /\ row' = row /\ pc[t] = "lk_held" /\ pc'[t] = "dl_unlink"
      /\ state' = [state EXCEPT ![idx[t]] = "DELETING"] /\ idx'[t] = idx[t] /\ key'[t] = key[t]
  BY <1>0 DEF Delete, argVars, walkVars, Goto, chainVars, slotVars
<1>2. key[t] = 0 /\ idx[t] \in Slots /\ state[idx[t]] = "ACTIVE"
  BY <1>0, <1>1 DEF ArgsOK, RowOK, RowPhase
<1>3. ASSUME NEW i \in Slots, NEW k \in KeyNos PROVE KeepsIn(t, i, k)
  <2>1. k >= 0
    BY SMTT(30), KeysAssumption DEF KeyNos
  <2>2. ~Pending(t, i, k) /\ ~Pending(t, i, k)' /\ ~Mine(t, i, k)
    BY <1>1 DEF Pending, Mine
  <2>3. CASE i = idx[t]
    <3>1. Mine(t, i, k)'
      BY <1>1, <1>2, <2>1, <2>3 DEF Mine
    <3> QED BY <1>1, <1>2, <2>2, <2>3, <3>1 DEF KeepsIn
  <2>4. CASE i # idx[t]
    <3>1. ~Mine(t, i, k)' /\ state'[i] = state[i]
      BY <1>a, <1>1, <1>2, <2>4 DEF Mine
    <3> QED BY <1>1, <2>2, <3>1 DEF KeepsIn
  <2> QED BY <2>3, <2>4
<1> QED BY <1>1, <1>3, InSame DEF Kept

LEMMA KeepDeleteDead ==
    ASSUME BaseInv, NEW t \in Threads, Step(t), DeleteDead(t)
    PROVE  Kept
<1>0. LocalTypes /\ ArgsOK(t) /\ RowOK(t) /\ pc \in [Threads -> Labels] 
      /\ key \in [Threads -> -1 .. keys] /\ idx \in [Threads -> Links]
  BY DEF BaseInv, Types, LocalTypes
<1>a. state \in [Slots -> {"FREE", "ACTIVE", "DELETING", "DELETED"}]
  BY DEF BaseInv, Types, SlotTypes
<1>1. /\ head' = head /\ next' = next /\ row' = row /\ pc[t] = "dl_dead" /\ pc'[t] = "dl_push"
      /\ state' = [state EXCEPT ![idx[t]] = "DELETED"]
  BY <1>0 DEF DeleteDead, Goto, chainVars, slotVars
<1>2. idx[t] \in Slots /\ state[idx[t]] = "DELETING"
  BY <1>0, <1>1 DEF ArgsOK, RowOK, RowPhase, DelPhase
<1>3. ASSUME NEW i \in Slots, NEW k \in KeyNos PROVE KeepsIn(t, i, k)
  <2>1. ~Pending(t, i, k) /\ ~Pending(t, i, k)' /\ ~Mine(t, i, k) /\ ~Mine(t, i, k)'
    BY <1>1 DEF Pending, Mine
  <2>2. state'[i] = "ACTIVE" <=> state[i] = "ACTIVE"
    BY <1>a, <1>1, <1>2
  <2> QED BY <1>1, <2>1, <2>2 DEF KeepsIn
<1> QED BY <1>1, <1>3, InSame DEF Kept

LEMMA QuietStep ==
    ASSUME BaseInv, NEW t \in Threads, Step(t)
    PROVE  (Kept \/ LinkStep(t)) /\ (LiveKept \/ LiveStep(t))
<1> USE DEF Goto, slotVars, chainVars, LinkPhase
<1>0. LocalTypes /\ pc \in [Threads -> Labels]
  BY DEF BaseInv, Types, LocalTypes
<1>1. CASE CallInsert(t)
  BY <1>1, <1>0, Idle DEF CallInsert, Begin
<1>2. CASE CallLock(t)
  BY <1>2, <1>0, Idle DEF CallLock, Begin
<1>3. CASE CallFind(t)
  BY <1>3, <1>0, Idle DEF CallFind, Begin
<1>4. CASE CallFindNext(t)
  BY <1>4, <1>0, Idle DEF CallFindNext
<1>5. CASE Truncate(t)
  BY <1>5 DEF LinkStep, LiveStep
<1>6. CASE InsertAlloc(t)
  BY <1>6, KeepInsertAlloc DEF LiveStep
<1>7. CASE InsertFull(t)
  BY <1>7, <1>0, Idle, ReturnFacts DEF InsertFull
<1>8. CASE InsertBucket(t)
  BY <1>8, KeepInsertBucket
<1>9. CASE InsertUndo(t)
  BY <1>0, <1>9, LiveIdle DEF LinkStep, LivePhase, InsertUndo
<1>10. CASE LockRow(t)
  BY <1>10, <1>0, Idle DEF LockRow
<1>11. CASE LockGone(t)
  BY <1>11, <1>0, Idle, ReturnFacts DEF LockGone
<1>12. CASE UpdateBucket(t)
  BY <1>12, KeepUpdateBucket
<1>13. CASE DeleteUnlink(t)
  BY <1>0, <1>13, LiveIdle DEF LinkStep, LivePhase, DeleteUnlink
<1>14. CASE DeletePush(t)
  BY <1>14, <1>0, Idle, ReturnFacts DEF DeletePush, UnlockRow
<1>15. CASE FindBucket(t)
  BY <1>15, <1>0, Idle DEF FindBucket
<1>16. CASE InsertWalk(t)
  BY <1>16, KeepInsertWalk
<1>17. CASE InsertLink(t)
  BY <1>17 DEF LinkStep, LiveStep
<1>18. CASE InsertDup(t)
  BY <1>18, KeepInsertDup
<1>19. CASE InsertFree(t)
  BY <1>0, <1>19, IdleChains, ReturnFacts DEF LiveStep, InsertFree
<1>20. CASE InsertPublish(t)
  BY <1>20, KeepInsertPublish DEF LiveStep
<1>21. CASE Skip(t)
  BY <1>21, <1>0, Idle, ReturnFacts DEF Skip, UnlockRow
<1>22. CASE Update(t)
  BY <1>22, KeepUpdate
<1>23. CASE UpdateWalk(t)
  BY <1>23, <1>0, Idle DEF UpdateWalk, DupStep, Pass
<1>24. CASE UpdateChecked(t)
  BY <1>24, KeepUpdateChecked
<1>25. CASE UpdateDup(t)
  BY <1>25, <1>0, Idle, ReturnFacts DEF UpdateDup, UnlockRow
<1>26. CASE UpdateWrite(t)
  BY <1>26, KeepUpdateWrite DEF LiveStep
<1>27. CASE UpdateRelink(t)
  BY <1>0, <1>27, LiveIdle, ReturnFacts DEF LinkStep, LivePhase, UpdateRelink, UnlockRow
<1>28. CASE Delete(t)
  BY <1>28, KeepDelete DEF LiveStep
<1>29. CASE DeleteDead(t)
  BY <1>29, KeepDeleteDead DEF LiveStep
<1>30. CASE FindStep(t)
  BY <1>30, <1>0, Idle DEF FindStep
<1>31. CASE FindHit(t)
  BY <1>31, <1>0, Idle DEF FindHit, Answer
<1>32. CASE FindMiss(t)
  BY <1>32, <1>0, Idle DEF FindMiss, Answer
<1>33. CASE EndFind(t)
  BY <1>33, <1>0, Idle, ReturnFacts DEF EndFind
<1> QED BY StepCases, <1>1, <1>2, <1>3, <1>4, <1>5, <1>6, <1>7, <1>8, <1>9, <1>10, <1>11,
     <1>12, <1>13, <1>14, <1>15, <1>16, <1>17, <1>18, <1>19, <1>20, <1>21, <1>22, <1>23, <1>24,
     <1>25, <1>26, <1>27, <1>28, <1>29, <1>30, <1>31, <1>32, <1>33

-----------------------------------------------------------------------------
(* The steps that link and unlink.                                         *)

\* Only row i moves, in key k only: from the chains of B to those of C.
Elsewhere(i, k) ==
    \A j \in Slots : \A l \in KeyNos : (j # i \/ l # k) =>
        \A c \in Buckets : In(j, l, c)' <=> In(j, l, c)
Moved(i, k, B, C) ==
    /\ Elsewhere(i, k)
    /\ \A c \in Buckets : (In(i, k, c) <=> c \in B) /\ (In(i, k, c)' <=> c \in C)

LEMMA MovedBy ==
    ASSUME BaseInv, NEW t \in Threads, Step(t), pc[t] \in InsPhase \cup RowPhase,
           NEW i, NEW k, i = idx[t], NEW B, NEW C,
           \A j \in Slots : \A l \in KeyNos : (j # i \/ l # k) => KeepsIn(t, j, l),
           \A c \in Buckets : (Bucketed(t, i, k, c) <=> c \in B) /\ (Bucketed(t, i, k, c)' <=> c \in C)
    PROVE  Moved(i, k, B, C)
<1>1. Elsewhere(i, k)
  BY InSame DEF Elsewhere
<1>2. \A u \in Threads \ {t} : ~Mine(u, i, k) /\ ~Pending(u, i, k)
  BY OnlyMine
<1>3. ASSUME NEW c \in Buckets
      PROVE  /\ In(i, k, c) <=> Bucketed(t, i, k, c)
             /\ In(i, k, c)' <=> Bucketed(t, i, k, c)'
  BY <1>2, InMine, InMineNext
<1> QED BY <1>1, <1>3 DEF Moved

LEMMA InsertLinkMoves ==
    ASSUME BaseInv, NEW t \in Threads, Step(t), InsertLink(t),
           NEW i, NEW k, NEW b, i = idx[t], k = key[t], b = NewBucket(t)
    PROVE  /\ i \in Slots /\ k \in KeyNos /\ b \in Buckets
           /\ Moved(i, k, {}, {b})
<1>0. pc \in [Threads -> Labels] /\ key \in [Threads -> -1 .. keys] /\ ArgsOK(t) /\ RowOK(t)
  BY DEF BaseInv, Types, LocalTypes
<1>1. /\ state' = state /\ row' = row /\ idx' = idx /\ key'[t] = k + 1 /\ pc[t] = "ins_walk"
      /\ pc'[t] \in {"ins_bucket", "ins_publish"}
  BY <1>0 DEF InsertLink, Goto, slotVars, argVars
<1>2. i \in Slots /\ k \in KeyNos /\ b \in Buckets
  BY <1>0, <1>1, InsArgs
<1>3. state[i] # "ACTIVE" /\ row[i][k] = new[t][k]
  BY <1>0, <1>1 DEF RowOK, InsPhase
<1>4. ASSUME NEW j, NEW l
      PROVE  /\ ~Pending(t, j, l) /\ ~Pending(t, j, l)'
             /\ Mine(t, j, l) <=> j = i /\ l < k
             /\ Mine(t, j, l)' <=> j = i /\ l < k + 1
  BY <1>1 DEF Pending, Mine
<1>5. ASSUME NEW j \in Slots, NEW l \in KeyNos, j # i \/ l # k PROVE KeepsIn(t, j, l)
  <2>1. l # k => (l < k <=> l < k + 1)
    BY SMTT(30), <1>2, KeysAssumption DEF KeyNos
  <2>2. Mine(t, j, l)' <=> Mine(t, j, l)
    BY <1>4, <1>5, <2>1
  <2> QED BY <1>1, <1>4, <2>2 DEF KeepsIn
<1>6. ASSUME NEW c \in Buckets
      PROVE  (Bucketed(t, i, k, c) <=> c \in {}) /\ (Bucketed(t, i, k, c)' <=> c \in {b})
  <2>1. ~(k < k) /\ k < k + 1
    BY SMTT(30), <1>2, KeysAssumption DEF KeyNos
  <2>2. ~Bucketed(t, i, k, c)
    BY <1>3, <1>4, <2>1 DEF Bucketed
  <2>3. Bucketed(t, i, k, c)' <=> Bucket(row[i][k]) = c
    BY <1>1, <1>4, <2>1 DEF Bucketed
  <2> QED BY <1>3, <2>2, <2>3 DEF NewBucket
<1> QED BY <1>1, <1>2, <1>5, <1>6, MovedBy DEF InsPhase

LEMMA InsertUndoMoves ==
    ASSUME BaseInv, NEW t \in Threads, Step(t), InsertUndo(t),
           NEW i, NEW k, NEW b, i = idx[t], k = key[t], b = NewBucket(t)
    PROVE  /\ i \in Slots /\ k \in KeyNos /\ b \in Buckets
           /\ Moved(i, k, {b}, {})
<1>0. pc \in [Threads -> Labels] /\ key \in [Threads -> -1 .. keys] /\ ArgsOK(t) /\ RowOK(t)
  BY DEF BaseInv, Types, LocalTypes
<1>1. /\ state' = state /\ row' = row /\ idx' = idx /\ key'[t] = k - 1 /\ pc[t] = "ins_undo"
      /\ pc'[t] = IF k = 0 THEN "ins_free" ELSE "ins_undo"
  BY <1>0 DEF InsertUndo, Goto, slotVars, argVars
<1>2. i \in Slots /\ k \in KeyNos /\ b \in Buckets
  BY <1>0, <1>1, InsArgs
<1>3. state[i] # "ACTIVE" /\ row[i][k] = new[t][k]
  BY <1>0, <1>1 DEF RowOK, InsPhase
<1>4. ASSUME NEW j, NEW l
      PROVE  /\ ~Pending(t, j, l) /\ ~Pending(t, j, l)'
             /\ Mine(t, j, l) <=> j = i /\ l <= k
             /\ Mine(t, j, l)' <=> j = i /\ k # 0 /\ l <= k - 1
  BY <1>1 DEF Pending, Mine
<1>5. ASSUME NEW j \in Slots, NEW l \in KeyNos, j # i \/ l # k PROVE KeepsIn(t, j, l)
  <2>1. l # k => (l <= k <=> k # 0 /\ l <= k - 1)
    BY SMTT(30), <1>2, KeysAssumption DEF KeyNos
  <2>2. Mine(t, j, l)' <=> Mine(t, j, l)
    BY <1>4, <1>5, <2>1
  <2> QED BY <1>1, <1>4, <2>2 DEF KeepsIn
<1>6. ASSUME NEW c \in Buckets
      PROVE  (Bucketed(t, i, k, c) <=> c \in {b}) /\ (Bucketed(t, i, k, c)' <=> c \in {})
  <2>1. k <= k /\ ~(k <= k - 1)
    BY SMTT(30), <1>2, KeysAssumption DEF KeyNos
  <2>2. ~Bucketed(t, i, k, c)'
    BY <1>1, <1>3, <1>4, <2>1 DEF Bucketed
  <2>3. Bucketed(t, i, k, c) <=> Bucket(row[i][k]) = c
    BY <1>4, <2>1 DEF Bucketed
  <2> QED BY <1>3, <2>2, <2>3 DEF NewBucket
<1> QED BY <1>1, <1>2, <1>5, <1>6, MovedBy DEF InsPhase

LEMMA DeleteUnlinkMoves ==
    ASSUME BaseInv, NEW t \in Threads, Step(t), DeleteUnlink(t),
           NEW i, NEW k, NEW b, i = idx[t], k = key[t], b = Bucket(row[i][k])
    PROVE  /\ i \in Slots /\ k \in KeyNos /\ b \in Buckets
           /\ Moved(i, k, {b}, {})
<1>0. /\ pc \in [Threads -> Labels] /\ key \in [Threads -> -1 .. keys] /\ ArgsOK(t) /\ RowOK(t)
      /\ row \in [Slots -> Recs]
  BY DEF BaseInv, Types, LocalTypes, SlotTypes
<1>1. /\ state' = state /\ row' = row /\ idx' = idx /\ key'[t] = k + 1 /\ pc[t] = "dl_unlink"
      /\ pc'[t] = IF k + 1 < keys THEN "dl_unlink" ELSE "dl_dead"
  BY <1>0 DEF DeleteUnlink, Goto, slotVars, argVars
<1>2. i \in Slots /\ k \in KeyNos /\ state[i] = "DELETING"
  BY <1>0, <1>1 DEF ArgsOK, RowOK, RowPhase, DelPhase
<1>3. b \in Buckets
  BY <1>0, <1>2, RecFacts
<1>4. ASSUME NEW j, NEW l
      PROVE  /\ ~Pending(t, j, l) /\ ~Pending(t, j, l)'
             /\ Mine(t, j, l) <=> j = i /\ l >= k
             /\ Mine(t, j, l)' <=> j = i /\ k + 1 < keys /\ l >= k + 1
  BY <1>1 DEF Pending, Mine
<1>5. ASSUME NEW j \in Slots, NEW l \in KeyNos, j # i \/ l # k PROVE KeepsIn(t, j, l)
  <2>1. l # k => (l >= k <=> k + 1 < keys /\ l >= k + 1)
    BY SMTT(30), <1>2, KeysAssumption DEF KeyNos
  <2>2. Mine(t, j, l)' <=> Mine(t, j, l)
    BY <1>4, <1>5, <2>1
  <2> QED BY <1>1, <1>4, <2>2 DEF KeepsIn
<1>6. ASSUME NEW c \in Buckets
      PROVE  (Bucketed(t, i, k, c) <=> c \in {b}) /\ (Bucketed(t, i, k, c)' <=> c \in {})
  <2>1. k >= k /\ ~(k >= k + 1)
    BY SMTT(30), <1>2, KeysAssumption DEF KeyNos
  <2>2. ~Bucketed(t, i, k, c)'
    BY <1>1, <1>2, <1>4, <2>1 DEF Bucketed
  <2>3. Bucketed(t, i, k, c) <=> Bucket(row[i][k]) = c
    BY <1>4, <2>1 DEF Bucketed
  <2> QED BY <2>2, <2>3
<1> QED BY <1>1, <1>2, <1>3, <1>5, <1>6, MovedBy DEF RowPhase, DelPhase

LEMMA UpdateRelinkMoves ==
    ASSUME WellOrdered, BaseInv, NEW t \in Threads, Step(t), UpdateRelink(t),
           NEW i, NEW k, NEW b, NEW c, i = idx[t], k = key[t], b = Bucket(old[t][k]), c = NewBucket(t)
    PROVE  /\ i \in Slots /\ k \in KeyNos /\ b \in Buckets /\ c \in Buckets
           /\ Moved(i, k, {b}, {c})
<1> DEFINE rest == After(Changed(t), k)
<1>0. /\ LocalTypes /\ pc \in [Threads -> Labels] /\ key \in [Threads -> -1 .. keys] /\ ArgsOK(t)
      /\ RowOK(t)
  BY DEF BaseInv, Types, LocalTypes
<1>1. /\ state' = state /\ row' = row /\ pc[t] = "up_relink"
      /\ IF rest = {} THEN pc'[t] = "idle"
         ELSE pc'[t] = "up_relink" /\ idx' = idx /\ old' = old /\ new' = new /\ key'[t] = FirstOf(rest)
  BY <1>0, ReturnFacts DEF UpdateRelink, UnlockRow, argVars
<1>2. /\ i \in Slots /\ k \in Changed(t) /\ state[i] = "ACTIVE" /\ row[i] = new[t]
      /\ old[t] \in Recs /\ new[t] \in Recs
  BY <1>0, <1>1 DEF ArgsOK, RowOK, RowPhase, UpPhase
<1>3. k \in KeyNos /\ b \in Buckets /\ c \in Buckets
  BY <1>2, RecFacts DEF Changed, NewBucket
<1>4. \A l \in rest : l \in KeyNos /\ FirstOf(rest) <= l
  <2>1. rest \in SUBSET KeyNos
    BY DEF After, Changed
  <2> QED BY <2>1, FirstOfFacts
<1>5. ASSUME NEW j, NEW l
      PROVE  /\ Pending(t, j, l) <=> j = i /\ l \in Changed(t) /\ l >= k
             /\ Pending(t, j, l)' <=> j = i /\ l \in rest
             /\ ~Mine(t, j, l) /\ ~Mine(t, j, l)'
             /\ Pending(t, j, l)' => old' = old
  <2>1. /\ Pending(t, j, l) <=> j = i /\ l \in Changed(t) /\ l >= k
        /\ ~Mine(t, j, l) /\ ~Mine(t, j, l)'
    BY <1>1 DEF Pending, Mine
  <2>2. CASE rest = {}
    BY <1>1, <2>1, <2>2 DEF Pending
  <2>3. CASE rest # {}
    <3>1. Changed(t)' = Changed(t)
      BY <1>1, <2>3, LockSetSame
    <3>2. Pending(t, j, l)' <=> j = i /\ l \in Changed(t) /\ l >= FirstOf(rest)
      BY <1>1, <2>3, <3>1 DEF Pending
    <3>3. FirstOf(rest) \in rest /\ rest \subseteq Changed(t)
      BY <1>4, <2>3, FirstOfFacts DEF After
    <3>4. \A m \in KeyNos : (m \in rest <=> m \in Changed(t) /\ m > k)
      BY DEF After
    <3>5. FirstOf(rest) > k /\ FirstOf(rest) \in KeyNos
      BY <1>4, <3>3, <3>4
    <3> HIDE DEF rest
    <3>6. l \in KeyNos /\ l >= FirstOf(rest) => l > k
      BY SMTT(30), <1>3, <3>5, KeysAssumption DEF KeyNos
    <3>7. l \in rest => l >= FirstOf(rest)
      BY SMTT(30), <1>4, <3>5, KeysAssumption DEF KeyNos
    <3>8. l \in Changed(t) => l \in KeyNos
      BY DEF Changed
    <3>9. l \in rest <=> l \in Changed(t) /\ l >= FirstOf(rest)
      BY <1>4, <3>4, <3>6, <3>7, <3>8
    <3> QED BY <1>1, <2>1, <2>3, <3>2, <3>9
  <2> QED BY <2>2, <2>3
<1>6. ASSUME NEW l \in KeyNos PROVE l \in rest <=> l \in Changed(t) /\ l >= k /\ l # k
  <2>1. l > k <=> l >= k /\ l # k
    BY SMTT(30), <1>3, KeysAssumption DEF KeyNos
  <2> QED BY <2>1 DEF After
<1> HIDE DEF rest
<1>7. ASSUME NEW j \in Slots, NEW l \in KeyNos, j # i \/ l # k PROVE KeepsIn(t, j, l)
  <2>1. Pending(t, j, l)' <=> Pending(t, j, l)
    BY <1>5, <1>6, <1>7
  <2> QED BY <1>1, <1>5, <2>1 DEF KeepsIn
<1>8. ASSUME NEW d \in Buckets
      PROVE  (Bucketed(t, i, k, d) <=> d \in {b}) /\ (Bucketed(t, i, k, d)' <=> d \in {c})
  <2>1. k >= k
    BY SMTT(30), <1>3, KeysAssumption DEF KeyNos
  <2>2. Bucketed(t, i, k, d) <=> Bucket(old[t][k]) = d
    BY <1>2, <1>5, <2>1 DEF Bucketed
  <2>3. Bucketed(t, i, k, d)' <=> Bucket(row[i][k]) = d
    BY <1>1, <1>2, <1>3, <1>5, <1>6 DEF Bucketed
  <2> QED BY <1>2, <2>2, <2>3 DEF NewBucket
<1> QED BY <1>1, <1>2, <1>3, <1>7, <1>8, MovedBy DEF RowPhase, UpPhase

-----------------------------------------------------------------------------
(* The chains.                                                             *)

\* A chain leads to its own rows only.
LEMMA ChainClosed ==
    ASSUME NEW x, NEW N, NEW R \in SUBSET Slots, Chain(x, N, R)
    PROVE  /\ x # FM_NULL_SLOT => x \in R
           /\ \A j \in R : N[j] # FM_NULL_SLOT => N[j] \in R
<1>1. PICK g \in [Nat -> Links] : Follows(g, x, N) /\ Distinct(g) /\ Lists(g, R)
  BY DEF Chain
<1>2. 0 \in Nat /\ g[0] = x /\ \A n \in Nat : n + 1 \in Nat
  BY SMTT(30), <1>1 DEF Follows
<1>3. x # FM_NULL_SLOT => x \in R
  BY <1>1, <1>2, ListsIn
<1>4. ASSUME NEW j \in R, N[j] # FM_NULL_SLOT PROVE N[j] \in R
  <2>1. PICK n \in Nat : g[n] = j
    BY <1>1 DEF Lists
  <2>2. g[n + 1] = N[j] /\ n + 1 \in Nat
    BY <1>1, <1>2, <2>1, NullFacts DEF Follows
  <2> QED BY <1>1, <1>4, <2>2, ListsIn
<1> QED BY <1>3, <1>4

\* The links M after row i has left the chain of the rows S.
Bypass(M, N, i, S) ==
    \A j \in Slots \ {i} : M[j] = IF j \in S /\ N[j] = i THEN N[i] ELSE N[j]

\* What remains of the rest of a chain when row i leaves.
LEMMA ChainWithout ==
    ASSUME NEW x \in Links, NEW N, NEW M, NEW R \in SUBSET Slots, Chain(x, N, R), NEW i \in Slots,
           NEW S, Bypass(M, N, i, S),
           i \in R => R \subseteq S
    PROVE  /\ Chain(IF x = i THEN N[i] ELSE x, M, R \ {i})
           /\ i \notin R => x # i
<1>1. CASE i \in R
  <2>1. \A j \in R \ {i} : M[j] = IF N[j] = i THEN N[i] ELSE N[j]
    BY <1>1 DEF Bypass
  <2> QED BY <1>1, <2>1, ChainUnlink
<1>2. CASE i \notin R
  <2>1. x # i /\ \A j \in R : N[j] # i
    <3>1. (x # FM_NULL_SLOT => x \in R) /\ \A j \in R : N[j] # FM_NULL_SLOT => N[j] \in R
      BY ChainClosed
    <3>2. i # FM_NULL_SLOT
      BY NullFacts
    <3> QED BY <1>2, <3>1, <3>2
  <2>2. ASSUME NEW j \in R PROVE M[j] = N[j]
    <3>1. N[j] # i /\ j \in Slots \ {i}
      BY <1>2, <2>1
    <3> QED BY <3>1 DEF Bypass
  <2>3. R \ {i} = R
    BY <1>2
  <2> QED BY <2>1, <2>2, <2>3, ChainFrame
<1> QED BY <1>1, <1>2

\* One chain of a key holds row i; after fm_core_chain_unlink none does.
OnlyIn(i, k, b) == \A c \in Buckets : In(i, k, c) <=> c \in {b}

UnlinkedNext(k, b, i) ==
    \A j \in Slots : UnlinkNext(k, b, i)[k][j] =
        IF j \in Members(k, b) /\ next[k][j] = i THEN next[k][i] ELSE next[k][j]
NextElse(k, b, i) == \A l \in KeyNos \ {k} : UnlinkNext(k, b, i)[l] = next[l]

LEMMA UnlinkLinks ==
    ASSUME WellOrdered, ChainTypes, ChainsOK, NEW k \in KeyNos, NEW b \in Buckets, NEW i
    PROVE  UnlinkedNext(k, b, i) /\ NextElse(k, b, i)
<1>1. Nodes(k, b) = Members(k, b)
  <2>1. Members(k, b) \in SUBSET Slots /\ Chain(head[k][b], next[k], Members(k, b))
    BY DEF ChainsOK, Members
  <2> QED BY <2>1, ChainNodes
<1>2. next \in [KeyNos -> [Slots -> Links]]
  BY DEF ChainTypes
<1> QED BY <1>1, <1>2 DEF UnlinkNext, UnlinkedNext, NextElse

\* A walk's rest of a chain, after row i has left its chain.
Skips(M, k, b, i) == \A j \in Slots \ {i} : M[j] = UnlinkNext(k, b, i)[k][j]

LEMMA UnlinkAhead ==
    ASSUME WellOrdered, ChainTypes, ChainsOK, NEW k \in KeyNos, NEW b \in Buckets, NEW i \in Slots,
           OnlyIn(i, k, b), NEW M, Skips(M, k, b, i),
           NEW x \in Links, NEW c \in Buckets, NEW R \in SUBSET Slots, Ahead(x, k, c, R)
    PROVE  /\ Chain(IF x = i THEN next[k][i] ELSE x, M, R \ {i})
           /\ i \notin R => x # i
<1>1. Chain(x, next[k], R) /\ \A j \in R : In(j, k, c)
  BY DEF Ahead
<1>2. Bypass(M, next[k], i, Members(k, b))
  <2>1. UnlinkedNext(k, b, i)
    BY UnlinkLinks
  <2> QED BY SMTT(30), <2>1 DEF Bypass, Skips, UnlinkedNext
<1>3. i \in R => R \subseteq Members(k, b)
  BY <1>1 DEF OnlyIn, Members
<1> QED BY <1>1, <1>2, <1>3, ChainWithout

LEMMA Unlinked ==
    ASSUME WellOrdered, ChainTypes, ChainsOK, NEW k \in KeyNos, NEW b \in Buckets, NEW i \in Slots,
           OnlyIn(i, k, b), NEW c \in Buckets
    PROVE  /\ Chain(UnlinkHead(k, b, i)[k][c], UnlinkNext(k, b, i)[k], Members(k, c) \ {i})
           /\ UnlinkHead(k, b, i)[k][c] \in Links
           /\ \A l \in KeyNos \ {k} : UnlinkHead(k, b, i)[l] = head[l]
<1>1. /\ head \in [KeyNos -> [Buckets -> Links]] /\ next \in [KeyNos -> [Slots -> Links]]
      /\ head[k][c] \in Links /\ next[k][i] \in Links
  BY DEF ChainTypes
<1>2. Members(k, c) \in SUBSET Slots /\ Ahead(head[k][c], k, c, Members(k, c))
  BY DEF ChainsOK, Members, Ahead
<1> DEFINE x == IF head[k][c] = i THEN next[k][i] ELSE head[k][c]
<1>7. Skips(UnlinkNext(k, b, i)[k], k, b, i)
  BY DEF Skips
<1>3. /\ Chain(x, UnlinkNext(k, b, i)[k], Members(k, c) \ {i})
      /\ i \notin Members(k, c) => head[k][c] # i
  BY <1>1, <1>2, <1>7, UnlinkAhead
<1>4. c # b => i \notin Members(k, c)
  BY DEF OnlyIn, Members
<1>5. UnlinkHead(k, b, i)[k][c] = x
  <2>1. CASE c = b
    BY <1>1, <2>1 DEF UnlinkHead
  <2>2. CASE c # b
    BY <1>1, <1>3, <1>4, <2>2 DEF UnlinkHead
  <2> QED BY <2>1, <2>2
<1>6. \A l \in KeyNos \ {k} : UnlinkHead(k, b, i)[l] = head[l]
  BY <1>1 DEF UnlinkHead
<1> QED BY <1>1, <1>3, <1>5, <1>6

\* fm_core_chain_link in front of the chain of bucket b: what bucket c holds then,
\* and what the other keys and rows keep.
LinkedChain(k, c, b, i, S) == Chain(head'[k][c], next'[k], IF c = b THEN S \cup {i} ELSE S)
LinkedElse(k, i, hd, nx) ==
    /\ \A l \in KeyNos \ {k} : head'[l] = hd[l] /\ next'[l] = nx[l]
    /\ \A j \in Slots \ {i} : next'[k][j] = nx[k][j]

LEMMA LinkElse ==
    ASSUME NEW hd \in [KeyNos -> [Buckets -> Links]], NEW nx \in [KeyNos -> [Slots -> Links]],
           NEW k \in KeyNos, NEW b \in Buckets, NEW i \in Slots, Link(hd, nx, k, b, i)
    PROVE  LinkedElse(k, i, hd, nx)
BY DEF Link, LinkedElse

LEMMA Linked ==
    ASSUME NEW hd \in [KeyNos -> [Buckets -> Links]], NEW nx \in [KeyNos -> [Slots -> Links]],
           NEW k \in KeyNos, NEW b \in Buckets, NEW i \in Slots, Link(hd, nx, k, b, i),
           NEW c \in Buckets, NEW S \in SUBSET Slots, Chain(hd[k][c], nx[k], S), i \notin S
    PROVE  LinkedChain(k, c, b, i, S)
<1>1. /\ head' = [hd EXCEPT ![k][b] = i] /\ next' = [nx EXCEPT ![k][i] = hd[k][b]]
      /\ hd[k][c] \in Links
  BY DEF Link
<1>2. /\ head'[k][c] = IF c = b THEN i ELSE hd[k][c]
      /\ next'[k][i] = hd[k][b]
      /\ \A j \in S : next'[k][j] = nx[k][j]
  BY <1>1
<1>4. CASE c = b
  <2>1. Chain(i, next'[k], S \cup {i})
    BY <1>1, <1>2, <1>4, ChainLink
  <2> QED BY <1>2, <1>4, <2>1 DEF LinkedChain
<1>5. CASE c # b
  <2>1. Chain(hd[k][c], next'[k], S)
    BY <1>2, ChainFrame
  <2> QED BY <1>2, <1>5, <2>1 DEF LinkedChain
<1> QED BY <1>4, <1>5

LEMMA KeptChains == ASSUME ChainsOK, Kept PROVE ChainsOK'
<1> SUFFICES ASSUME NEW k \in KeyNos, NEW b \in Buckets
             PROVE  Chain(head'[k][b], next'[k], Members(k, b)')
  BY DEF ChainsOK
<1>1. Members(k, b)' = Members(k, b)
  BY DEF Members, Kept
<1> QED BY <1>1 DEF ChainsOK, Kept

\* The keys a step does not touch.
LEMMA OtherKeys ==
    ASSUME ChainsOK, NEW i, NEW k, Elsewhere(i, k), NEW l \in KeyNos \ {k}, NEW c \in Buckets,
           head'[l] = head[l], next'[l] = next[l]
    PROVE  Chain(head'[l][c], next'[l], Members(l, c)')
<1>1. Members(l, c)' = Members(l, c)
  BY DEF Members, Elsewhere
<1> QED BY <1>1 DEF ChainsOK

LEMMA MovedMembers ==
    ASSUME NEW i \in Slots, NEW k \in KeyNos, NEW B, NEW C, Moved(i, k, B, C), NEW c \in Buckets
    PROVE  /\ c \in C => Members(k, c)' = (Members(k, c) \ {i}) \cup {i}
           /\ c \notin C => Members(k, c)' = Members(k, c) \ {i}
           /\ c \notin B => i \notin Members(k, c)
           /\ Members(k, c) \in SUBSET Slots
<1>1. (In(i, k, c) <=> c \in B) /\ (In(i, k, c)' <=> c \in C)
  BY DEF Moved
<1>2. \A j \in Slots : j # i => (In(j, k, c)' <=> In(j, k, c))
  BY DEF Moved, Elsewhere
<1>3. c \in C => Members(k, c)' = (Members(k, c) \ {i}) \cup {i}
  BY <1>1, <1>2 DEF Members
<1>4. c \notin C => Members(k, c)' = Members(k, c) \ {i}
  BY <1>1, <1>2 DEF Members
<1> QED BY <1>1, <1>3, <1>4 DEF Members

LEMMA InsertLinkChains ==
    ASSUME BaseInv, ChainsOK, NEW t \in Threads, Step(t), InsertLink(t)
    PROVE  ChainsOK'
<1>0. PICK i, k, b : i = idx[t] /\ k = key[t] /\ b = NewBucket(t)
  OBVIOUS
<1>1. i \in Slots /\ k \in KeyNos /\ b \in Buckets /\ Moved(i, k, {}, {b})
  BY <1>0, InsertLinkMoves
<1>2. /\ head \in [KeyNos -> [Buckets -> Links]] /\ next \in [KeyNos -> [Slots -> Links]]
      /\ Link(head, next, k, b, i)
  BY <1>0 DEF InsertLink, BaseInv, Types, ChainTypes
<1>3. ASSUME NEW c \in Buckets
      PROVE  /\ Chain(head'[k][c], next'[k], Members(k, c)')
             /\ \A l \in KeyNos \ {k} : head'[l] = head[l] /\ next'[l] = next[l]
  <2>0. /\ c \in {b} => Members(k, c)' = (Members(k, c) \ {i}) \cup {i}
        /\ c \notin {b} => Members(k, c)' = Members(k, c) \ {i}
        /\ i \notin Members(k, c) /\ Members(k, c) \in SUBSET Slots
    BY SMTT(30), <1>1, MovedMembers
  <2>1. /\ Members(k, c) \in SUBSET Slots /\ i \notin Members(k, c)
        /\ Chain(head[k][c], next[k], Members(k, c))
    BY <1>1, <2>0 DEF ChainsOK
  <2>2. LinkedChain(k, c, b, i, Members(k, c))
    BY <1>1, <1>2, <2>1, Linked
  <2>3. Members(k, c) \ {i} = Members(k, c)
    BY <2>1
  <2>4. Members(k, c)' = IF c = b THEN Members(k, c) \cup {i} ELSE Members(k, c)
    BY <2>0, <2>3
  <2>5. LinkedElse(k, i, head, next)
    BY <1>1, <1>2, LinkElse
  <2> QED BY <2>2, <2>4, <2>5 DEF LinkedChain, LinkedElse
<1>4. Elsewhere(i, k)
  BY <1>1 DEF Moved
<1>5. ASSUME NEW l \in KeyNos, NEW c \in Buckets
      PROVE  Chain(head'[l][c], next'[l], Members(l, c)')
  <2>1. CASE l = k
    BY <1>3, <2>1
  <2>2. CASE l # k
    <3>1. l \in KeyNos \ {k}
      BY <2>2
    <3>2. head'[l] = head[l] /\ next'[l] = next[l]
      BY <1>3, <3>1
    <3> QED BY <1>4, <3>1, <3>2, OtherKeys
  <2> QED BY <2>1, <2>2
<1> QED BY <1>5 DEF ChainsOK

\* InsertUndo and DeleteUnlink.
LEMMA UnlinkChains ==
    ASSUME WellOrdered, BaseInv, ChainsOK, NEW i \in Slots, NEW k \in KeyNos, NEW b \in Buckets,
           Moved(i, k, {b}, {}), Unlink(k, b, i)
    PROVE  ChainsOK'
<1>1. ChainTypes /\ OnlyIn(i, k, b) /\ Elsewhere(i, k)
  BY DEF BaseInv, Types, OnlyIn, Moved
<1>2. ASSUME NEW c \in Buckets
      PROVE  /\ Chain(head'[k][c], next'[k], Members(k, c)')
             /\ \A l \in KeyNos \ {k} : head'[l] = head[l] /\ next'[l] = next[l]
  <2>1. /\ Chain(UnlinkHead(k, b, i)[k][c], UnlinkNext(k, b, i)[k], Members(k, c) \ {i})
        /\ \A l \in KeyNos \ {k} : UnlinkHead(k, b, i)[l] = head[l]
    BY <1>1, Unlinked
  <2>2. NextElse(k, b, i)
    BY <1>1, UnlinkLinks
  <2>3. Members(k, c)' = Members(k, c) \ {i}
    <3>1. c \notin {} => Members(k, c)' = Members(k, c) \ {i}
      BY SMTT(30), MovedMembers
    <3> QED BY <3>1
  <2> QED BY <2>1, <2>2, <2>3 DEF Unlink, NextElse
<1>3. ASSUME NEW l \in KeyNos, NEW c \in Buckets
      PROVE  Chain(head'[l][c], next'[l], Members(l, c)')
  <2>1. CASE l = k
    BY <1>2, <2>1
  <2>2. CASE l # k
    <3>1. l \in KeyNos \ {k}
      BY <2>2
    <3>2. head'[l] = head[l] /\ next'[l] = next[l]
      BY <1>2, <3>1
    <3> QED BY <1>1, <3>1, <3>2, OtherKeys
  <2> QED BY <2>1, <2>2
<1> QED BY <1>3 DEF ChainsOK

LEMMA RelinkChains ==
    ASSUME WellOrdered, BaseInv, ChainsOK, NEW i \in Slots, NEW k \in KeyNos, NEW b \in Buckets,
           NEW d \in Buckets, Moved(i, k, {b}, {d}),
           Link(UnlinkHead(k, b, i), UnlinkNext(k, b, i), k, d, i)
    PROVE  ChainsOK'
<1>1. ChainTypes /\ OnlyIn(i, k, b) /\ Elsewhere(i, k)
  BY DEF BaseInv, Types, OnlyIn, Moved
<1>2. /\ UnlinkHead(k, b, i) \in [KeyNos -> [Buckets -> Links]]
      /\ UnlinkNext(k, b, i) \in [KeyNos -> [Slots -> Links]]
  BY <1>1, UnlinkTypes
<1>3. ASSUME NEW c \in Buckets
      PROVE  /\ Chain(head'[k][c], next'[k], Members(k, c)')
             /\ \A l \in KeyNos \ {k} : head'[l] = head[l] /\ next'[l] = next[l]
  <2>1. /\ Chain(UnlinkHead(k, b, i)[k][c], UnlinkNext(k, b, i)[k], Members(k, c) \ {i})
        /\ \A l \in KeyNos \ {k} : UnlinkHead(k, b, i)[l] = head[l]
    BY <1>1, Unlinked
  <2>2. NextElse(k, b, i)
    BY <1>1, UnlinkLinks
  <2>3. PICK S : S = Members(k, c) \ {i}
    OBVIOUS
  <2>4. S \in SUBSET Slots /\ i \notin S
    BY <2>3 DEF Members
  <2>5. LinkedChain(k, c, d, i, S)
    BY <1>2, <2>1, <2>3, <2>4, Linked
  <2>6. Members(k, c)' = IF c = d THEN S \cup {i} ELSE S
    <3>1. /\ c \in {d} => Members(k, c)' = (Members(k, c) \ {i}) \cup {i}
          /\ c \notin {d} => Members(k, c)' = Members(k, c) \ {i}
      BY SMTT(30), MovedMembers
    <3> QED BY <2>3, <3>1
  <2>7. LinkedElse(k, i, UnlinkHead(k, b, i), UnlinkNext(k, b, i))
    BY <1>2, LinkElse
  <2> QED BY <2>1, <2>2, <2>5, <2>6, <2>7 DEF LinkedChain, LinkedElse, NextElse
<1>4. ASSUME NEW l \in KeyNos, NEW c \in Buckets
      PROVE  Chain(head'[l][c], next'[l], Members(l, c)')
  <2>1. CASE l = k
    BY <1>3, <2>1
  <2>2. CASE l # k
    <3>1. l \in KeyNos \ {k}
      BY <2>2
    <3>2. head'[l] = head[l] /\ next'[l] = next[l]
      BY <1>3, <3>1
    <3> QED BY <1>1, <3>1, <3>2, OtherKeys
  <2> QED BY <2>1, <2>2
<1> QED BY <1>4 DEF ChainsOK

LEMMA TruncateChains ==
    ASSUME NEW t \in Threads, Truncate(t)
    PROVE  /\ ChainsOK'
           /\ \A i \in Slots : \A k \in KeyNos : \A b \in Buckets : ~In(i, k, b)'
<1>1. ASSUME NEW i \in Slots, NEW k \in KeyNos, NEW b \in Buckets PROVE ~In(i, k, b)'
  <2>1. state'[i] = "FREE" /\ \A u \in Threads : pc'[u] = "idle"
    BY DEF Truncate
  <2> QED BY <2>1 DEF In, Mine
<1>2. ASSUME NEW k \in KeyNos, NEW b \in Buckets
      PROVE  Chain(head'[k][b], next'[k], Members(k, b)')
  <2>1. head'[k][b] = FM_NULL_SLOT
    BY DEF Truncate
  <2>2. Members(k, b)' = {}
    BY <1>1 DEF Members
  <2> QED BY <2>1, <2>2, ChainEmpty
<1> QED BY <1>1, <1>2 DEF ChainsOK

LEMMA ChainsStep ==
    ASSUME WellOrdered, BaseInv, ChainsOK, NEW t \in Threads, Step(t)
    PROVE  ChainsOK'
<1>1. CASE Kept
  BY <1>1, KeptChains
<1>2. CASE InsertLink(t)
  BY <1>2, InsertLinkChains
<1>3. CASE InsertUndo(t)
  <2>1. PICK i, k, b : i = idx[t] /\ k = key[t] /\ b = NewBucket(t)
    OBVIOUS
  <2>2. i \in Slots /\ k \in KeyNos /\ b \in Buckets /\ Moved(i, k, {b}, {}) /\ Unlink(k, b, i)
    BY <1>3, <2>1, InsertUndoMoves DEF InsertUndo
  <2> QED BY <2>2, UnlinkChains
<1>4. CASE DeleteUnlink(t)
  <2>1. PICK i, k, b : i = idx[t] /\ k = key[t] /\ b = Bucket(row[i][k])
    OBVIOUS
  <2>2. i \in Slots /\ k \in KeyNos /\ b \in Buckets /\ Moved(i, k, {b}, {})
    BY <1>4, <2>1, DeleteUnlinkMoves
  <2>3. Unlink(k, b, i)
    BY <1>4, <2>1 DEF DeleteUnlink
  <2> QED BY <2>2, <2>3, UnlinkChains
<1>5. CASE UpdateRelink(t)
  <2>1. PICK i, k, b, d :
           i = idx[t] /\ k = key[t] /\ b = Bucket(old[t][k]) /\ d = NewBucket(t)
    OBVIOUS
  <2>2. /\ i \in Slots /\ k \in KeyNos /\ b \in Buckets /\ d \in Buckets
        /\ Moved(i, k, {b}, {d})
    BY <1>5, <2>1, UpdateRelinkMoves
  <2>3. Link(UnlinkHead(k, b, i), UnlinkNext(k, b, i), k, d, i)
    BY <1>5, <2>1 DEF UpdateRelink
  <2> QED BY <2>2, <2>3, RelinkChains
<1>6. CASE Truncate(t)
  BY <1>6, TruncateChains
<1> QED BY <1>1, <1>2, <1>3, <1>4, <1>5, <1>6, QuietStep DEF LinkStep

-----------------------------------------------------------------------------
(* Walks.                                                                  *)

Unlinks(t) == InsertUndo(t) \/ DeleteUnlink(t) \/ UpdateRelink(t)

\* Row i leaves the chain of bucket b of key k, whose lock no other thread holds.
Removes(t, i, k, b) ==
    /\ Elsewhere(i, k) /\ OnlyIn(i, k, b) /\ block[k][b] \in {NoThread, t}
    /\ Skips(next'[k], k, b, i)
    /\ \A l \in KeyNos \ {k} : next'[l] = next[l]

LEMMA UnlinkStep ==
    ASSUME WellOrdered, BaseInv, ChainsOK, NEW t \in Threads, Step(t), Unlinks(t),
           NEW i, NEW k, i = idx[t], k = key[t]
    PROVE  i \in Slots /\ k \in KeyNos /\ \E b \in Buckets : Removes(t, i, k, b)
<1>0. ChainTypes /\ next \in [KeyNos -> [Slots -> Links]]
  BY DEF BaseInv, Types, ChainTypes
<1>1. ASSUME NEW b \in Buckets, i \in Slots, k \in KeyNos, Moved(i, k, {b}, {}), Unlink(k, b, i),
             block[k][b] = NoThread
      PROVE  Removes(t, i, k, b)
  <2>1. NextElse(k, b, i)
    BY <1>0, <1>1, UnlinkLinks
  <2> QED BY <1>1, <2>1 DEF Removes, Moved, OnlyIn, Unlink, NextElse, Skips
<1>2. CASE InsertUndo(t)
  <2>1. PICK b : b = NewBucket(t)
    OBVIOUS
  <2>2. i \in Slots /\ k \in KeyNos /\ b \in Buckets /\ Moved(i, k, {b}, {})
    BY <1>2, <2>1, InsertUndoMoves
  <2>3. Unlink(k, b, i) /\ block[k][b] = NoThread
    BY <1>2, <2>1 DEF InsertUndo
  <2> QED BY <1>1, <2>2, <2>3
<1>3. CASE DeleteUnlink(t)
  <2>1. PICK b : b = Bucket(row[i][k])
    OBVIOUS
  <2>2. i \in Slots /\ k \in KeyNos /\ b \in Buckets /\ Moved(i, k, {b}, {})
    BY <1>3, <2>1, DeleteUnlinkMoves
  <2>3. Unlink(k, b, i) /\ block[k][b] = NoThread
    BY <1>3, <2>1 DEF DeleteUnlink
  <2> QED BY <1>1, <2>2, <2>3
<1>4. CASE UpdateRelink(t)
  <2>1. PICK b, d : b = Bucket(old[t][k]) /\ d = NewBucket(t)
    OBVIOUS
  <2>2. /\ i \in Slots /\ k \in KeyNos /\ b \in Buckets /\ d \in Buckets
        /\ Moved(i, k, {b}, {d})
    BY <1>4, <2>1, UpdateRelinkMoves
  <2>3. Link(UnlinkHead(k, b, i), UnlinkNext(k, b, i), k, d, i) /\ pc[t] = "up_relink"
    BY <1>4, <2>1 DEF UpdateRelink
  <2>4. /\ UnlinkHead(k, b, i) \in [KeyNos -> [Buckets -> Links]]
        /\ UnlinkNext(k, b, i) \in [KeyNos -> [Slots -> Links]]
    BY <1>0, <2>2, UnlinkTypes
  <2>5. LinkedElse(k, i, UnlinkHead(k, b, i), UnlinkNext(k, b, i))
    BY <2>2, <2>3, <2>4, LinkElse
  <2>6. NextElse(k, b, i)
    BY <1>0, <2>2, UnlinkLinks
  <2>7. block[k][b] = t
    <3>1. k \in Changed(t) /\ old[t] \in Recs /\ BlockOK(t)
      BY <2>3 DEF BaseInv, ArgsOK, RowPhase, UpPhase, LockOK
    <3>2. <<k, b>> \in LockSet(t)
      BY <2>1, <3>1, LockSetFacts
    <3> QED BY <2>2, <2>3, <3>1, <3>2 DEF BlockOK, HoldsBucket, UpPhase
  <2>8. Removes(t, i, k, b)
    BY <2>2, <2>5, <2>6, <2>7 DEF Removes, Moved, OnlyIn, LinkedElse, NextElse, Skips
  <2> QED BY <2>2, <2>8
<1> QED BY <1>2, <1>3, <1>4 DEF Unlinks

LinksElse(i, k) ==
    \A l \in KeyNos : \A j \in Slots : (l # k \/ j # i) => next'[l][j] = next[l][j]

LEMMA LinkStepNext ==
    ASSUME BaseInv, NEW t \in Threads, Step(t), InsertLink(t), NEW i, NEW k, i = idx[t], k = key[t]
    PROVE  /\ Elsewhere(i, k) /\ \A c \in Buckets : ~In(i, k, c)
           /\ LinksElse(i, k)
<1>1. PICK b : b = NewBucket(t)
  OBVIOUS
<1>2. i \in Slots /\ k \in KeyNos /\ b \in Buckets /\ Moved(i, k, {}, {b})
  BY <1>1, InsertLinkMoves
<1>3. /\ head \in [KeyNos -> [Buckets -> Links]] /\ next \in [KeyNos -> [Slots -> Links]]
      /\ Link(head, next, k, b, i)
  BY <1>1 DEF InsertLink, BaseInv, Types, ChainTypes
<1>4. LinkedElse(k, i, head, next)
  BY <1>2, <1>3, LinkElse
<1>5. Elsewhere(i, k) /\ \A c \in Buckets : In(i, k, c) <=> c \in {}
  BY <1>2 DEF Moved
<1>6. \A c \in Buckets : ~In(i, k, c)
  BY <1>5
<1> QED BY <1>4, <1>5, <1>6 DEF LinkedElse, LinksElse

\* What a walk has ahead of it after a step, if nothing moves the walk.
AheadNext(y, k, b, R) ==
    R \in SUBSET Slots /\ Chain(y, next'[k], R) /\ \A j \in R : In(j, k, b)'

\* Steps that take no row from what a walk has ahead of it.
LEMMA AheadKept ==
    ASSUME BaseInv, NEW t \in Threads, Step(t), Kept \/ InsertLink(t),
           NEW k \in KeyNos, NEW b \in Buckets, NEW x, NEW R, Ahead(x, k, b, R)
    PROVE  /\ AheadNext(x, k, b, R)
           /\ \A j \in Slots : In(j, k, b) => In(j, k, b)' /\ next'[k][j] = next[k][j]
<1>1. R \in SUBSET Slots /\ Chain(x, next[k], R) /\ \A j \in R : j \in Slots /\ In(j, k, b)
  BY DEF Ahead
<1>2. ASSUME NEW j \in Slots, In(j, k, b) PROVE In(j, k, b)' /\ next'[k][j] = next[k][j]
  <2>1. CASE Kept
    BY <1>2, <2>1 DEF Kept
  <2>2. CASE InsertLink(t)
    <3>1. PICK i, l : i = idx[t] /\ l = key[t]
      OBVIOUS
    <3>2. Elsewhere(i, l) /\ ~In(i, l, b) /\ LinksElse(i, l)
      BY <2>2, <3>1, LinkStepNext
    <3>3. l # k \/ j # i
      BY <1>2, <3>2
    <3>4. next'[k][j] = next[k][j]
      BY <3>2, <3>3 DEF LinksElse
    <3> QED BY <1>2, <3>2, <3>3, <3>4 DEF Elsewhere
  <2> QED BY <2>1, <2>2
<1>3. \A j \in R : next'[k][j] = next[k][j] /\ In(j, k, b)'
  BY <1>1, <1>2
<1>4. Chain(x, next'[k], R)
  BY <1>1, <1>3, ChainFrame
<1> QED BY <1>1, <1>2, <1>3, <1>4 DEF AheadNext

LEMMA AheadPrime ==
    ASSUME NEW x, NEW k, NEW b, NEW R, AheadNext(x, k, b, R) PROVE Ahead(x, k, b, R)'
BY DEF Ahead, AheadNext

\* Steps that take a row from its chain: it is ahead of the walk, or the walk
\* notices nothing.
AheadOrPast(t, i, l, x, k, b, R) ==
    \/ AheadNext(x, k, b, R) /\ (l # k \/ i \notin R)
    \/ /\ l = k /\ i \in R /\ block[k][b] \in {NoThread, t}
       /\ AheadNext(IF x = i THEN next[k][i] ELSE x, k, b, R \ {i})

LEMMA AheadUnlinked ==
    ASSUME WellOrdered, BaseInv, ChainsOK, NEW t \in Threads, Step(t), Unlinks(t),
           NEW i, NEW l, i = idx[t], l = key[t],
           NEW k \in KeyNos, NEW b \in Buckets, NEW x \in Links, NEW R, Ahead(x, k, b, R)
    PROVE  AheadOrPast(t, i, l, x, k, b, R)
<1>1. PICK c \in Buckets : i \in Slots /\ l \in KeyNos /\ Removes(t, i, l, c)
  BY UnlinkStep
<1>2. R \in SUBSET Slots /\ Chain(x, next[k], R) /\ \A j \in R : In(j, k, b)
  BY DEF Ahead
<1>3. Elsewhere(i, l)
  BY <1>1 DEF Removes
<1>4. CASE l # k
  <2>1. next'[k] = next[k]
    BY <1>1, <1>4 DEF Removes
  <2>2. \A j \in R : In(j, k, b)'
    BY <1>2, <1>3, <1>4 DEF Elsewhere
  <2> QED BY <1>2, <1>4, <2>1, <2>2 DEF AheadNext, AheadOrPast
<1>5. CASE l = k
  <2>1. /\ OnlyIn(i, k, c) /\ block[k][c] \in {NoThread, t}
        /\ Skips(next'[k], k, c, i)
    BY <1>1, <1>5 DEF Removes
  <2>2. ChainTypes
    BY DEF BaseInv, Types
  <2>3. /\ Chain(IF x = i THEN next[k][i] ELSE x, next'[k], R \ {i})
        /\ i \notin R => x # i
    BY <1>1, <1>2, <2>1, <2>2, UnlinkAhead
  <2>4. \A j \in R \ {i} : In(j, k, b)'
    BY <1>2, <1>3 DEF Elsewhere
  <2>5. AheadNext(IF x = i THEN next[k][i] ELSE x, k, b, R \ {i})
    BY <1>2, <2>3, <2>4 DEF AheadNext
  <2>6. CASE i \in R
    <3>1. b = c
      BY <1>2, <2>1, <2>6 DEF OnlyIn
    <3> QED BY <1>5, <2>1, <2>5, <2>6, <3>1 DEF AheadOrPast
  <2>7. CASE i \notin R
    <3>1. R \ {i} = R
      BY <2>7
    <3>2. AheadNext(x, k, b, R)
      BY <2>3, <2>5, <2>7, <3>1
    <3> QED BY <2>7, <3>2 DEF AheadOrPast
  <2> QED BY <2>6, <2>7
<1> QED BY <1>4, <1>5

-----------------------------------------------------------------------------
(* Lookups.                                                                *)

SlotStep(t) ==
    \/ InsertAlloc(t) \/ InsertPublish(t) \/ UpdateWrite(t) \/ Delete(t) \/ DeleteDead(t)
    \/ Truncate(t)
FindStepOf(t) ==
    \/ CallFind(t) \/ CallFindNext(t) \/ FindBucket(t) \/ FindStep(t) \/ FindHit(t) \/ FindMiss(t)
    \/ EndFind(t)
CheckStep(t) ==
    \/ InsertBucket(t) \/ InsertWalk(t) \/ UpdateBucket(t) \/ UpdateWalk(t) \/ UpdateChecked(t)
    \/ Update(t)

\* Which steps change a row, the history of the lookups of other threads, and
\* the variables of a lookup or of a duplicate check.
SharedEffects(t) ==
    /\ SlotStep(t) \/ (state' = state /\ row' = row)
    /\ UpdateWrite(t) \/ Delete(t) \/ \A u \in Threads \ {t} : stable'[u] = stable[u]
    /\ DeleteUnlink(t) \/ UpdateRelink(t) \/ \A u \in Threads \ {t} : lost'[u] = lost[u]
LocalEffects(t) ==
    /\ FindStepOf(t) \/ (op[t] # "find" /\ op'[t] # "find" /\ ret'[t] = ret[t])
    /\ CheckStep(t) \/ pc'[t] \notin {"ins_walk", "up_walk", "up_write"}
    /\ UpdateWrite(t) \/ UpdateRelink(t) \/ pc'[t] # "up_relink"

LEMMA SharedStep ==
    ASSUME BaseInv, NEW t \in Threads, Step(t)
    PROVE  SharedEffects(t)
<1>0. ScanTypes
  BY DEF BaseInv, Types
<1> USE DEF SharedEffects, SlotStep, slotVars, scanVars
<1>1. CASE CallInsert(t)
  BY <1>1 DEF CallInsert, Begin
<1>2. CASE CallLock(t)
  BY <1>2 DEF CallLock, Begin
<1>3. CASE CallFind(t)
  BY <1>3, <1>0 DEF CallFind, Begin, ScanTypes
<1>4. CASE CallFindNext(t)
  BY <1>4 DEF CallFindNext
<1>5. CASE Truncate(t)
  BY <1>5 DEF Truncate
<1>6. CASE InsertAlloc(t)
  BY <1>6 DEF InsertAlloc
<1>7. CASE InsertFull(t)
  BY <1>7 DEF InsertFull
<1>8. CASE InsertBucket(t)
  BY <1>8 DEF InsertBucket
<1>9. CASE InsertUndo(t)
  BY <1>9 DEF InsertUndo
<1>10. CASE LockRow(t)
  BY <1>10 DEF LockRow
<1>11. CASE LockGone(t)
  BY <1>11 DEF LockGone
<1>12. CASE UpdateBucket(t)
  BY <1>12 DEF UpdateBucket
<1>13. CASE DeleteUnlink(t)
  BY <1>13 DEF DeleteUnlink
<1>14. CASE DeletePush(t)
  BY <1>14 DEF DeletePush
<1>15. CASE FindBucket(t)
  BY <1>15 DEF FindBucket
<1>16. CASE InsertWalk(t)
  BY <1>16 DEF InsertWalk
<1>17. CASE InsertLink(t)
  BY <1>17 DEF InsertLink
<1>18. CASE InsertDup(t)
  BY <1>18 DEF InsertDup
<1>19. CASE InsertFree(t)
  BY <1>19 DEF InsertFree
<1>20. CASE InsertPublish(t)
  BY <1>20 DEF InsertPublish
<1>21. CASE Skip(t)
  BY <1>21 DEF Skip
<1>22. CASE Update(t)
  BY <1>22 DEF Update
<1>23. CASE UpdateWalk(t)
  BY <1>23 DEF UpdateWalk
<1>24. CASE UpdateChecked(t)
  BY <1>24 DEF UpdateChecked
<1>25. CASE UpdateDup(t)
  BY <1>25 DEF UpdateDup
<1>26. CASE UpdateWrite(t)
  BY <1>26 DEF UpdateWrite
<1>27. CASE UpdateRelink(t)
  BY <1>27 DEF UpdateRelink
<1>28. CASE Delete(t)
  BY <1>28 DEF Delete
<1>29. CASE DeleteDead(t)
  BY <1>29 DEF DeleteDead
<1>30. CASE FindStep(t)
  BY <1>30 DEF FindStep
<1>31. CASE FindHit(t)
  BY <1>31 DEF FindHit
<1>32. CASE FindMiss(t)
  BY <1>32 DEF FindMiss
<1>33. CASE EndFind(t)
  BY <1>33, <1>0 DEF EndFind, ScanTypes
<1> QED BY StepCases, <1>1, <1>2, <1>3, <1>4, <1>5, <1>6, <1>7, <1>8, <1>9, <1>10, <1>11,
     <1>12, <1>13, <1>14, <1>15, <1>16, <1>17, <1>18, <1>19, <1>20, <1>21, <1>22, <1>23, <1>24,
     <1>25, <1>26, <1>27, <1>28, <1>29, <1>30, <1>31, <1>32, <1>33

LEMMA LocalStep ==
    ASSUME BaseInv, NEW t \in Threads, Step(t)
    PROVE  LocalEffects(t)
<1>0. LocalTypes /\ (op[t] = "find" <=> pc[t] \in {"fd_lock", "fd_walk", "done"})
  BY DEF BaseInv, Types, ArgsOK, FindPhase
<1> USE DEF LocalEffects, FindStepOf, CheckStep, Goto, argVars, LocalTypes
<1>1. CASE CallInsert(t)
  BY <1>1, <1>0 DEF CallInsert, Begin
<1>2. CASE CallLock(t)
  BY <1>2, <1>0 DEF CallLock, Begin
<1>3. CASE CallFind(t)
  BY <1>3, <1>0 DEF CallFind, Begin
<1>4. CASE CallFindNext(t)
  BY <1>4, <1>0 DEF CallFindNext
<1>5. CASE Truncate(t)
  BY <1>5, <1>0 DEF Truncate
<1>6. CASE InsertAlloc(t)
  BY <1>6, <1>0 DEF InsertAlloc
<1>7. CASE InsertFull(t)
  BY <1>7, <1>0 DEF InsertFull, Return
<1>8. CASE InsertBucket(t)
  BY <1>8, <1>0 DEF InsertBucket
<1>9. CASE InsertUndo(t)
  BY <1>9, <1>0 DEF InsertUndo
<1>10. CASE LockRow(t)
  BY <1>10, <1>0 DEF LockRow
<1>11. CASE LockGone(t)
  BY <1>11, <1>0 DEF LockGone, Return
<1>12. CASE UpdateBucket(t)
  BY <1>12, <1>0 DEF UpdateBucket, CheckKeys
<1>13. CASE DeleteUnlink(t)
  BY <1>13, <1>0 DEF DeleteUnlink
<1>14. CASE DeletePush(t)
  BY <1>14, <1>0 DEF DeletePush, UnlockRow, Return
<1>15. CASE FindBucket(t)
  BY <1>15, <1>0 DEF FindBucket
<1>16. CASE InsertWalk(t)
  BY <1>16, <1>0 DEF InsertWalk
<1>17. CASE InsertLink(t)
  BY <1>17, <1>0 DEF InsertLink
<1>18. CASE InsertDup(t)
  BY <1>18, <1>0 DEF InsertDup
<1>19. CASE InsertFree(t)
  BY <1>19, <1>0 DEF InsertFree, Return
<1>20. CASE InsertPublish(t)
  BY <1>20, <1>0 DEF InsertPublish, Return
<1>21. CASE Skip(t)
  BY <1>21, <1>0 DEF Skip, UnlockRow, Return
<1>22. CASE Update(t)
  BY <1>22, <1>0 DEF Update
<1>23. CASE UpdateWalk(t)
  BY <1>23, <1>0 DEF UpdateWalk
<1>24. CASE UpdateChecked(t)
  BY <1>24, <1>0 DEF UpdateChecked, CheckKeys
<1>25. CASE UpdateDup(t)
  BY <1>25, <1>0 DEF UpdateDup, UnlockRow, Return
<1>26. CASE UpdateWrite(t)
  <2>1. ret' = ret /\ pc[t] = "up_write"
    BY <1>26 DEF UpdateWrite
  <2>2. CASE Changed(t) = {}
    <3>1. pc'[t] = "idle" /\ op'[t] = "none"
      BY <1>0, <1>26, <2>2, ReturnFacts DEF UpdateWrite, UnlockRow
    <3> QED BY <1>0, <1>26, <2>1, <3>1
  <2>3. CASE Changed(t) # {}
    <3>1. pc'[t] = "up_relink" /\ op' = op
      BY <1>0, <1>26, <2>3 DEF UpdateWrite
    <3> QED BY <1>0, <1>26, <2>1, <3>1
  <2> QED BY <2>2, <2>3
<1>27. CASE UpdateRelink(t)
  <2>1. ret' = ret /\ pc[t] = "up_relink"
    BY <1>27 DEF UpdateRelink
  <2>2. CASE After(Changed(t), key[t]) = {}
    <3>1. pc'[t] = "idle" /\ op'[t] = "none"
      BY <1>0, <1>27, <2>2, ReturnFacts DEF UpdateRelink, UnlockRow
    <3> QED BY <1>0, <1>27, <2>1, <3>1
  <2>3. CASE After(Changed(t), key[t]) # {}
    <3>1. pc' = pc /\ op' = op
      BY <1>27, <2>3 DEF UpdateRelink
    <3> QED BY <1>0, <1>27, <2>1, <3>1
  <2> QED BY <2>2, <2>3
<1>28. CASE Delete(t)
  BY <1>28, <1>0 DEF Delete
<1>29. CASE DeleteDead(t)
  BY <1>29, <1>0 DEF DeleteDead
<1>30. CASE FindStep(t)
  BY <1>30, <1>0 DEF FindStep
<1>31. CASE FindHit(t)
  BY <1>31, <1>0 DEF FindHit, Answer
<1>32. CASE FindMiss(t)
  BY <1>32, <1>0 DEF FindMiss, Answer
<1>33. CASE EndFind(t)
  BY <1>33, <1>0 DEF EndFind, Return
<1> QED BY StepCases, <1>1, <1>2, <1>3, <1>4, <1>5, <1>6, <1>7, <1>8, <1>9, <1>10, <1>11,
     <1>12, <1>13, <1>14, <1>15, <1>16, <1>17, <1>18, <1>19, <1>20, <1>21, <1>22, <1>23, <1>24,
     <1>25, <1>26, <1>27, <1>28, <1>29, <1>30, <1>31, <1>32, <1>33

\* An update that begins to move its row has changed the keys it moves.
LEMMA PendingNext ==
    ASSUME WellOrdered, BaseInv, NEW t \in Threads, Step(t), NEW i, NEW k, Pending(t, i, k)'
    PROVE  Pending(t, i, k) \/ (UpdateWrite(t) /\ i = idx[t] /\ k \in Changed(t))
<1>1. pc'[t] = "up_relink" /\ idx'[t] = i /\ k \in Changed(t)' /\ k >= key'[t]
  BY DEF Pending
<1>2. UpdateWrite(t) \/ UpdateRelink(t)
  BY <1>1, LocalStep DEF LocalEffects
<1>3. LocalTypes
  BY DEF BaseInv, Types
<1>4. CASE UpdateWrite(t)
  <2>1. Changed(t) # {}
    <3>1. Changed(t) = {} => pc'[t] = "idle"
      BY <1>3, <1>4, ReturnFacts DEF UpdateWrite, UnlockRow
    <3> QED BY <1>1, <3>1
  <2>2. idx' = idx /\ old' = old /\ new' = new
    BY <1>4, <2>1 DEF UpdateWrite, argVars
  <2>3. Changed(t)' = Changed(t)
    BY <2>2, LockSetSame
  <2> QED BY <1>1, <1>4, <2>2, <2>3
<1>5. CASE UpdateRelink(t)
  <2>1. After(Changed(t), key[t]) # {}
    <3>1. After(Changed(t), key[t]) = {} => pc'[t] = "idle"
      BY <1>3, <1>5, ReturnFacts DEF UpdateRelink, UnlockRow
    <3> QED BY <1>1, <3>1
  <2>2. /\ idx' = idx /\ old' = old /\ new' = new /\ pc[t] = "up_relink"
        /\ key' = [key EXCEPT ![t] = FirstOf(After(Changed(t), key[t]))]
    BY <1>5, <2>1 DEF UpdateRelink, argVars
  <2>3. Changed(t)' = Changed(t)
    BY <2>2, LockSetSame
  <2>4. key'[t] \in After(Changed(t), key[t])
    <3>1. After(Changed(t), key[t]) \in SUBSET KeyNos
      BY LockSetFacts DEF After
    <3>2. FirstOf(After(Changed(t), key[t])) \in After(Changed(t), key[t])
      BY <2>1, <3>1, FirstOfFacts
    <3> QED BY <1>3, <2>2, <3>2 DEF LocalTypes
  <2>5. key'[t] > key[t] /\ key'[t] \in KeyNos /\ k \in KeyNos /\ key[t] \in -1 .. keys
    BY <1>1, <1>3, <2>3, <2>4, LockSetFacts DEF After, LocalTypes
  <2>6. k >= key[t]
    <3>1. k >= key'[t]
      BY <1>1
    <3> QED BY SMTT(30), <2>5, <3>1, KeysAssumption DEF KeyNos
  <2> QED BY <1>1, <2>2, <2>3, <2>6 DEF Pending
<1> QED BY <1>2, <1>4, <1>5

\* The history of a lookup of another thread.
LEMMA HistoryOthers ==
    ASSUME BaseInv, NEW t \in Threads, Step(t), NEW u \in Threads \ {t}
    PROVE  stable'[u] \subseteq stable[u] /\ (lost[u] => lost'[u])
<1>1. stable'[u] \subseteq stable[u]
  <2>1. CASE UpdateWrite(t) \/ Delete(t)
    <3>1. PICK i, r : Change(i, r)
      BY <2>1 DEF UpdateWrite, Delete
    <3> QED BY <3>1 DEF Change
  <2>2. CASE stable'[u] = stable[u]
    BY <2>2
  <2> QED BY <2>1, <2>2, SharedStep DEF SharedEffects
<1>2. lost[u] => lost'[u]
  <2>1. CASE DeleteUnlink(t) \/ UpdateRelink(t)
    <3>1. PICK i, k : Leave(k, i)
      BY <2>1 DEF DeleteUnlink, UpdateRelink
    <3> QED BY <3>1 DEF Leave
  <2>2. CASE lost'[u] = lost[u]
    BY <2>2
  <2> QED BY <2>1, <2>2, SharedStep DEF SharedEffects
<1> QED BY <1>1, <1>2

\* A row that a step of t writes, deletes or makes visible.
LEMMA ActiveKept ==
    ASSUME BaseInv, NEW t \in Threads, Step(t), ~Truncate(t), NEW i \in Slots, state[i] = "ACTIVE"
    PROVE  \/ state'[i] = "ACTIVE" /\ row'[i] = row[i]
           \/ i = idx[t] /\ Delete(t)
           \/ i = idx[t] /\ UpdateWrite(t) /\ state'[i] = "ACTIVE" /\ row'[i] = new[t]
<1>1. SlotTypes /\ idx[t] \in Links
  BY DEF BaseInv, Types, LocalTypes
<1>2. CASE state' = state /\ row' = row
  BY <1>2
<1>3. CASE InsertAlloc(t)
  <2>1. Head(free) # i
    <3>1. free # <<>> /\ free \in Seq(Slots)
      BY <1>3 DEF InsertAlloc, BaseInv, Types, ShareTypes
    <3>2. 1 \in 1 .. Len(free) /\ Head(free) = free[1]
      BY SMTT(30), <3>1
    <3>3. state[free[1]] \in {"FREE", "DELETED"}
      BY <3>2 DEF BaseInv, FreeOK, FreeDead
    <3> QED BY <3>2, <3>3
  <2>2. state' = state /\ row' = [row EXCEPT ![Head(free)] = new[t]]
    BY <1>3 DEF InsertAlloc
  <2> QED BY <1>1, <2>1, <2>2 DEF SlotTypes
<1>4. CASE InsertPublish(t)
  <2>1. state' = [state EXCEPT ![idx[t]] = "ACTIVE"] /\ row' = row
    BY <1>4 DEF InsertPublish
  <2> QED BY <1>1, <2>1 DEF SlotTypes
<1>5. CASE UpdateWrite(t)
  <2>1. state' = state /\ row' = [row EXCEPT ![idx[t]] = new[t]]
    BY <1>5 DEF UpdateWrite
  <2> QED BY <1>1, <1>5, <2>1 DEF SlotTypes
<1>6. CASE Delete(t)
  <2>1. row' = row /\ state' = [state EXCEPT ![idx[t]] = "DELETING"]
    BY <1>6 DEF Delete
  <2> QED BY <1>1, <1>6, <2>1 DEF SlotTypes
<1>7. CASE DeleteDead(t)
  <2>1. row' = row /\ state' = [state EXCEPT ![idx[t]] = "DELETED"] /\ state[idx[t]] = "DELETING"
    BY <1>7 DEF DeleteDead, BaseInv, RowOK
  <2> QED BY <1>1, <2>1 DEF SlotTypes
<1> QED BY <1>2, <1>3, <1>4, <1>5, <1>6, <1>7, SharedStep DEF SharedEffects, SlotStep

LEMMA FindFacts ==
    ASSUME BaseInv, NEW u \in Threads, op[u] = "find"
    PROVE  /\ pc[u] \in FindPhase /\ pc[u] # "idle" /\ key[u] \in KeyNos
           /\ \E v \in Vals : want[u] = {v}
BY DEF BaseInv, ArgsOK, FindPhase

\* Rows that matched all the while.
LEMMA StableOthers ==
    ASSUME WellOrdered, BaseInv, NEW t \in Threads, Step(t), ~Truncate(t), NEW u \in Threads \ {t},
           op[u] = "find", StableOK(u)
    PROVE  StableOK(u)'
<1>1. SameLocals(u)
  BY OthersSame DEF BaseInv, Types
<1>2. stable'[u] \subseteq stable[u] /\ stable[u] \subseteq Slots
  BY HistoryOthers DEF BaseInv, Types, ScanTypes
<1> SUFFICES ASSUME NEW k \in KeyNos, key[u] = k, NEW i \in stable'[u]
             PROVE  /\ state'[i] = "ACTIVE" /\ row'[i][k] \in want[u]
                    /\ Settled(u) => \A w \in Threads : ~Pending(w, i, k)'
  BY <1>1 DEF StableOK, SameLocals, Settled
<1>3. /\ i \in Slots /\ state[i] = "ACTIVE" /\ row[i][k] \in want[u]
      /\ Settled(u) => \A w \in Threads : ~Pending(w, i, k)
  BY <1>2 DEF StableOK
<1>4. ~(i = idx[t] /\ Delete(t))
  BY DEF Delete, Change
<1>5. i = idx[t] /\ UpdateWrite(t) => new[t][k] \in want[u]
  BY DEF UpdateWrite, Change
<1>6. state'[i] = "ACTIVE" /\ row'[i][k] \in want[u]
  BY <1>3, <1>4, <1>5, ActiveKept
<1>7. ASSUME Settled(u), NEW w \in Threads, Pending(w, i, k)' PROVE FALSE
  <2>1. CASE w # t
    <3>1. SameLocals(w)
      BY <2>1, OthersSame DEF BaseInv, Types
    <3> QED BY <1>3, <1>7, <3>1, MineSame
  <2>2. CASE w = t
    <3>1. UpdateWrite(t) /\ i = idx[t] /\ k \in Changed(t)
      BY <1>3, <1>7, <2>2, PendingNext
    <3>2. row[i][k] = old[t][k] /\ new[t][k] # old[t][k]
      BY <3>1 DEF BaseInv, RowOK, UpdateWrite, Changed
    <3>3. PICK v : want[u] = {v}
      BY FindFacts
    <3> QED BY <1>3, <1>5, <3>1, <3>2, <3>3
  <2> QED BY <2>1, <2>2
<1> QED BY <1>6, <1>7

\* A row that a scan stands on leaves its chain only with the scan losing its place.
LEMMA DeadOut ==
    ASSUME BaseInv, NEW t \in Threads, DeleteDead(t), NEW i, i = idx[t], NEW k, NEW b
    PROVE  ~In(i, k, b)
<1>1. pc[t] = "dl_dead" /\ state[i] = "DELETING" /\ pc[t] \in InsPhase \cup RowPhase
  BY DEF DeleteDead, BaseInv, RowOK, RowPhase, DelPhase
<1>2. \A u \in Threads \ {t} : ~Mine(u, i, k)
  BY <1>1, OnlyMine
<1>3. ~Mine(t, i, k)
  BY <1>1 DEF Mine
<1> QED BY <1>1, <1>2, <1>3 DEF In

LEMMA LinkedState ==
    ASSUME BaseInv, NEW t \in Threads, Step(t), ~Truncate(t), NEW i \in Slots, NEW k, NEW b,
           In(i, k, b), state[i] \in {"ACTIVE", "DELETING"}
    PROVE  state'[i] \in {"ACTIVE", "DELETING"}
<1>1. SlotTypes /\ idx[t] \in Links
  BY DEF BaseInv, Types, LocalTypes
<1>2. CASE state' = state
  BY <1>2
<1>3. CASE InsertPublish(t) \/ Delete(t)
  BY <1>1, <1>3 DEF InsertPublish, Delete, SlotTypes
<1>4. CASE DeleteDead(t)
  <2>1. i # idx[t]
    BY <1>4, DeadOut
  <2> QED BY <1>1, <1>4, <2>1 DEF DeleteDead, SlotTypes
<1>5. state' = state \/ InsertPublish(t) \/ Delete(t) \/ DeleteDead(t)
  BY SharedStep DEF SharedEffects, SlotStep, InsertAlloc, UpdateWrite
<1> QED BY <1>2, <1>3, <1>4, <1>5

\* The link of a row that stays in its chain, when another row leaves it.
CursorMoves(i, o, l, k, b, R) ==
    /\ In(i, k, b)'
    /\ \/ AheadNext(next'[k][i], k, b, R)
       \/ l = k /\ AheadNext(next'[k][i], k, b, R \ {o})

LEMMA CursorUnlinked ==
    ASSUME WellOrdered, BaseInv, ChainsOK, NEW t \in Threads, Step(t), Unlinks(t),
           NEW o, NEW l, o = idx[t], l = key[t],
           NEW i \in Slots, NEW k \in KeyNos, NEW b \in Buckets, In(i, k, b), i # o \/ k # l,
           NEW x \in Links, x = next[k][i], NEW R, Ahead(x, k, b, R)
    PROVE  CursorMoves(i, o, l, k, b, R)
<1>1. PICK c \in Buckets : o \in Slots /\ l \in KeyNos /\ Removes(t, o, l, c)
  BY UnlinkStep
<1>2. Elsewhere(o, l) /\ OnlyIn(o, l, c)
  BY <1>1 DEF Removes
<1>3. In(i, k, b)'
  BY <1>2 DEF Elsewhere
<1>4. R \in SUBSET Slots /\ Chain(x, next[k], R) /\ \A j \in R : In(j, k, b)
  BY DEF Ahead
<1>7. AheadOrPast(t, o, l, x, k, b, R)
  BY AheadUnlinked
<1>8. ChainTypes
  BY DEF BaseInv, Types
<1>5. CASE l # k
  <2>1. next'[k] = next[k]
    BY <1>1, <1>5 DEF Removes
  <2>2. AheadNext(x, k, b, R)
    BY <1>5, <1>7 DEF AheadOrPast
  <2> QED BY <1>3, <2>1, <2>2 DEF CursorMoves
<1>6. CASE l = k
  <2>1. i # o /\ Skips(next'[k], k, c, o)
    BY <1>1, <1>6 DEF Removes
  <2>2. UnlinkedNext(k, c, o)
    BY <1>8, UnlinkLinks
  <2>3. next'[k][i] = IF i \in Members(k, c) /\ x = o THEN next[k][o] ELSE x
    BY <2>1, <2>2 DEF Skips, UnlinkedNext
  <2>4. CASE o \notin R
    <3>1. x # o
      BY <1>1, <1>4, <2>4, NullFacts, ChainClosed
    <3>2. AheadNext(x, k, b, R)
      BY <1>7, <2>4 DEF AheadOrPast
    <3> QED BY <1>3, <2>3, <3>1, <3>2 DEF CursorMoves
  <2>5. CASE o \in R
    <3>1. c = b
      BY <1>2, <1>4, <1>6, <2>5 DEF OnlyIn
    <3>2. i \in Members(k, c)
      BY <3>1 DEF Members
    <3>3. next'[k][i] = IF x = o THEN next[k][o] ELSE x
      BY <2>3, <3>2
    <3>4. AheadNext(IF x = o THEN next[k][o] ELSE x, k, b, R \ {o})
      BY <1>6, <1>7, <2>5 DEF AheadOrPast
    <3> QED BY <1>3, <1>6, <3>3, <3>4 DEF CursorMoves
  <2> QED BY <2>4, <2>5
<1> QED BY <1>5, <1>6

\* The row that leaves its chain is none that a lookup has still to return.
LEMMA UnlinksUnstable ==
    ASSUME BaseInv, NEW t \in Threads, Step(t), Unlinks(t), NEW o, NEW k, o = idx[t], k = key[t]
    PROVE  /\ o \in Slots
           /\ state[o] = "ACTIVE" => Pending(t, o, k)
           /\ state[o] \in {"ACTIVE", "DELETING"} => Leave(k, o)
<1>1. CASE InsertUndo(t)
  BY <1>1 DEF InsertUndo, BaseInv, ArgsOK, RowOK, InsPhase
<1>2. CASE DeleteUnlink(t)
  BY <1>2 DEF DeleteUnlink, BaseInv, ArgsOK, RowOK, RowPhase, DelPhase
<1>3. CASE UpdateRelink(t)
  <2>1. pc[t] = "up_relink" /\ Leave(k, o)
    BY <1>3 DEF UpdateRelink
  <2>2. o \in Slots /\ k \in Changed(t) /\ k \in KeyNos
    BY <2>1, LockSetFacts DEF BaseInv, ArgsOK, RowPhase, UpPhase
  <2>3. k >= key[t]
    BY SMTT(30), <2>2, KeysAssumption DEF KeyNos
  <2> QED BY <2>1, <2>2, <2>3 DEF Pending
<1> QED BY <1>1, <1>2, <1>3 DEF Unlinks

LEMMA NotTruncate ==
    ASSUME BaseInv, NEW t \in Threads, NEW u \in Threads, op[u] = "find"
    PROVE  ~Truncate(t)
BY FindFacts DEF Truncate

\* The row a lookup returned last, and what is ahead of it.
LEMMA CursorOthers ==
    ASSUME WellOrdered, BaseInv, ChainsOK, NEW t \in Threads, Step(t), NEW u \in Threads \ {t},
           op[u] = "find", StableOK(u), CursorOK(u)
    PROVE  CursorOK(u)'
<1>1. SameLocals(u) /\ ~Truncate(t)
  BY OthersSame, NotTruncate DEF BaseInv, Types
<1>2. stable'[u] \subseteq stable[u] /\ (lost[u] => lost'[u])
  BY HistoryOthers
<1> SUFFICES ASSUME NEW i \in Slots, NEW k \in KeyNos, NEW b \in Buckets,
                    Looks(u, k, b)', idx'[u] = i, ret'[u] # "NOT_FOUND"
             PROVE  CursorAt(u, i, k, b)'
  BY DEF CursorOK
<1>8. Looks(u, k, b) /\ ~lost'[u] /\ idx[u] = i /\ ret[u] # "NOT_FOUND" /\ seen'[u] = seen[u]
  BY <1>1, <1>2 DEF SameLocals, Looks, WantBucket
<1>3. In(i, k, b) /\ state[i] \in {"ACTIVE", "DELETING"} /\ i \in seen[u]
  BY <1>8 DEF CursorOK, CursorAt
<1>4. PICK x \in Links, R \in SUBSET Slots :
         x = next[k][i] /\ Ahead(x, k, b, R) /\ stable[u] \ seen[u] \subseteq R
  BY <1>8 DEF CursorOK, CursorAt
<1>5. state'[i] \in {"ACTIVE", "DELETING"}
  BY <1>1, <1>3, LinkedState
<1>9. next'[k][i] \in Links
  <2>1. BaseInv'
    BY BaseStep
  <2>2. ChainTypes'
    BY <2>1 DEF BaseInv, Types
  <2> QED BY <2>2 DEF ChainTypes
<1>10. ASSUME NEW Q \in SUBSET Slots, In(i, k, b)', AheadNext(next'[k][i], k, b, Q),
              stable'[u] \ seen[u] \subseteq Q
       PROVE  CursorAt(u, i, k, b)'
  <2>1. PICK y \in Links : y = next'[k][i] /\ AheadNext(y, k, b, Q)
    BY <1>9, <1>10
  <2>2. Ahead(y, k, b, Q)'
    BY <2>1, AheadPrime
  <2> QED BY <1>3, <1>5, <1>8, <1>10, <2>1, <2>2 DEF CursorAt
<1>6. CASE Kept \/ InsertLink(t)
  <2>1. In(i, k, b)' /\ next'[k][i] = x /\ AheadNext(x, k, b, R)
    BY <1>3, <1>4, <1>6, AheadKept
  <2>2. stable'[u] \ seen[u] \subseteq R
    BY <1>2, <1>4
  <2> QED BY <1>10, <2>1, <2>2
<1>7. CASE Unlinks(t)
  <2>1. PICK o, l : o = idx[t] /\ l = key[t]
    OBVIOUS
  <2>2. /\ o \in Slots /\ (state[o] = "ACTIVE" => Pending(t, o, l))
        /\ state[o] \in {"ACTIVE", "DELETING"} => Leave(l, o)
    BY <1>7, <2>1, UnlinksUnstable
  <2>3. i # o \/ k # l
    BY <1>3, <1>8, <2>2 DEF Leave, Looks
  <2>4. /\ In(i, k, b)'
        /\ \/ AheadNext(next'[k][i], k, b, R)
           \/ l = k /\ AheadNext(next'[k][i], k, b, R \ {o})
    <3>1. CursorMoves(i, o, l, k, b, R)
      BY <1>3, <1>4, <1>7, <2>1, <2>3, CursorUnlinked
    <3> QED BY <3>1 DEF CursorMoves
  <2>6. l = k => o \notin stable[u]
    BY <1>8, <2>2, NullFacts DEF StableOK, Settled, Looks
  <2>7. CASE AheadNext(next'[k][i], k, b, R)
    <3>1. stable'[u] \ seen[u] \subseteq R
      BY <1>2, <1>4
    <3> QED BY <1>10, <2>4, <2>7, <3>1
  <2>8. CASE l = k /\ AheadNext(next'[k][i], k, b, R \ {o})
    <3>1. R \ {o} \in SUBSET Slots /\ stable'[u] \ seen[u] \subseteq R \ {o}
      BY <1>2, <1>4, <2>6, <2>8
    <3> QED BY <1>10, <2>4, <2>8, <3>1
  <2> QED BY <2>4, <2>7, <2>8
<1> QED BY <1>1, <1>6, <1>7, QuietStep DEF LinkStep, Unlinks

\* A walk under the bucket lock of another thread loses nothing.
LEMMA AheadHeld ==
    ASSUME WellOrdered, BaseInv, ChainsOK, NEW t \in Threads, Step(t), ~Truncate(t),
           NEW u \in Threads \ {t}, NEW k \in KeyNos, NEW b \in Buckets, block[k][b] = u,
           NEW x \in Links, NEW R, Ahead(x, k, b, R)
    PROVE  AheadNext(x, k, b, R)
<1>1. CASE Kept \/ InsertLink(t)
  BY <1>1, AheadKept
<1>2. CASE Unlinks(t)
  <2>1. PICK o, l : o = idx[t] /\ l = key[t]
    OBVIOUS
  <2>2. AheadOrPast(t, o, l, x, k, b, R)
    BY <1>2, <2>1, AheadUnlinked
  <2>3. block[k][b] \notin {NoThread, t}
    BY ThreadsAssumption
  <2> QED BY <2>2, <2>3 DEF AheadOrPast
<1> QED BY <1>1, <1>2, QuietStep DEF LinkStep, Unlinks

LEMMA WantFacts ==
    ASSUME NEW u \in Threads, NEW v \in Vals, want[u] = {v}
    PROVE  WantBucket(u) = Bucket(v) /\ Bucket(v) \in Buckets
<1>1. (CHOOSE w \in {v} : TRUE) = v
  OBVIOUS
<1> QED BY <1>1, BucketIn DEF WantBucket

LEMMA WalkOthers ==
    ASSUME WellOrdered, BaseInv, ChainsOK, NEW t \in Threads, Step(t), NEW u \in Threads \ {t},
           op[u] = "find", WalkOK(u)
    PROVE  WalkOK(u)'
<1>1. SameLocals(u) /\ ~Truncate(t)
  BY OthersSame, NotTruncate DEF BaseInv, Types
<1>2. stable'[u] \subseteq stable[u] /\ (lost[u] => lost'[u])
  BY HistoryOthers
<1> SUFFICES ASSUME NEW x \in Links, NEW k \in KeyNos, NEW b \in Buckets,
                    Looks(u, k, b)', pc'[u] = "fd_walk", h'[u] = x
             PROVE  WalkAt(u, x, k, b)'
  BY DEF WalkOK
<1>3. Looks(u, k, b) /\ pc[u] = "fd_walk" /\ h[u] = x
  BY <1>1, <1>2 DEF SameLocals, Looks, WantBucket
<1>4. PICK R \in SUBSET Slots : /\ Ahead(x, k, b, R)
                                /\ after[u] => stable[u] \ seen[u] \subseteq R
                                /\ ~after[u] => idx[u] \in R
  BY <1>3 DEF WalkOK, WalkAt
<1>5. block[k][b] = u
  <2>1. HoldsBucket(u, k, b) /\ BlockOK(u)
    BY <1>3 DEF HoldsBucket, Looks, BaseInv, LockOK
  <2> QED BY <1>3, <2>1 DEF BlockOK
<1>6. Ahead(x, k, b, R)'
  <2>1. AheadNext(x, k, b, R)
    BY <1>1, <1>4, <1>5, AheadHeld
  <2> QED BY <2>1, AheadPrime
<1>7. seen'[u] = seen[u] /\ after'[u] = after[u] /\ idx'[u] = idx[u]
  BY <1>1 DEF SameLocals
<1> QED BY <1>2, <1>4, <1>6, <1>7 DEF WalkAt

\* A step of t keeps the lookup of another thread.
LEMMA FindOthers ==
    ASSUME WellOrdered, BaseInv, ChainsOK, NEW t \in Threads, Step(t), NEW u \in Threads \ {t},
           FindOK(u)
    PROVE  FindOK(u)'
<1>1. SameLocals(u)
  BY OthersSame DEF BaseInv, Types
<1>2. op'[u] = op[u] /\ ret'[u] = ret[u] /\ pc'[u] = pc[u] /\ seen'[u] = seen[u]
  BY <1>1 DEF SameLocals
<1>3. CASE op[u] # "find"
  BY <1>2, <1>3 DEF FindOK
<1>4. CASE op[u] = "find"
  <2>1. StableOK(u) /\ AnswerOK(u) /\ CursorOK(u) /\ WalkOK(u) /\ ~Truncate(t)
    BY <1>4, NotTruncate DEF FindOK
  <2>2. StableOK(u)'
    BY <1>4, <2>1, StableOthers
  <2>3. CursorOK(u)'
    BY <1>4, <2>1, CursorOthers
  <2>4. WalkOK(u)'
    BY <1>4, <2>1, WalkOthers
  <2>5. AnswerOK(u)'
    <3>1. stable'[u] \subseteq stable[u] /\ (lost[u] => lost'[u])
      BY HistoryOthers
    <3> QED BY <1>2, <2>1, <3>1 DEF AnswerOK
  <2> QED BY <1>2, <1>4, <2>2, <2>3, <2>4, <2>5 DEF FindOK
<1> QED BY <1>3, <1>4

\* The steps of a lookup change no row, no chain and no move of an update.
LEMMA FindFrame ==
    ASSUME BaseInv, NEW t \in Threads, Step(t), FindStepOf(t)
    PROVE  /\ Kept /\ state' = state /\ row' = row
           /\ \A u \in Threads : \A i \in Slots : \A k \in KeyNos :
                 Pending(u, i, k)' => Pending(u, i, k)
<1>1. /\ pc \in [Threads -> Labels] /\ pc[t] \notin LinkPhase /\ pc'[t] \notin LinkPhase
      /\ head' = head /\ next' = next /\ state' = state /\ row' = row
  <2>0. LocalTypes
    BY DEF BaseInv, Types
  <2> USE DEF LocalTypes, LinkPhase, slotVars, chainVars, Goto
  <2>1. CASE CallFind(t)
    BY <2>0, <2>1 DEF CallFind, Begin
  <2>2. CASE CallFindNext(t)
    BY <2>0, <2>2 DEF CallFindNext
  <2>3. CASE FindBucket(t)
    BY <2>0, <2>3 DEF FindBucket
  <2>4. CASE FindStep(t)
    BY <2>0, <2>4 DEF FindStep
  <2>5. CASE FindHit(t)
    BY <2>0, <2>5 DEF FindHit, Answer
  <2>6. CASE FindMiss(t)
    BY <2>0, <2>6 DEF FindMiss, Answer
  <2>7. CASE EndFind(t)
    BY <2>0, <2>7 DEF EndFind, Return
  <2> QED BY <2>1, <2>2, <2>3, <2>4, <2>5, <2>6, <2>7 DEF FindStepOf
<1>2. Kept
  BY <1>1, IdleChains
<1>3. ASSUME NEW u \in Threads, NEW i, NEW k, Pending(u, i, k)' PROVE Pending(u, i, k)
  <2>1. u # t
    BY <1>1, <1>3 DEF Pending, LinkPhase
  <2>2. SameLocals(u)
    BY <2>1, OthersSame DEF BaseInv, Types
  <2> QED BY <1>3, <2>2, MineSame
<1> QED BY <1>1, <1>2, <1>3
=============================================================================
