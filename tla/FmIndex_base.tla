---------------------------- MODULE FmIndex_base ----------------------------
(***************************************************************************)
(* FmIndex for every number of threads, slots, keys and buckets and every  *)
(* workload: its types, the slots that threads own, and at which steps a   *)
(* thread holds struct_mutex, the wlock of its row and which bucket locks; *)
(* that no set of threads waits for one another; and the lemmas about      *)
(* chains, linking and unlinking that the later modules use.               *)
(***************************************************************************)
EXTENDS FmIndex, TLAPS

\* The leaves below are for Zenon unless they name SMTT.
USE ZenonT(30)

\* Steps of an insert that owns a slot, of an update and a delete; steps at
\* which a write statement holds the wlock of its row; steps of a lookup.
InsPhase == {"ins_bucket", "ins_walk", "ins_undo", "ins_free", "ins_publish"}
UpPhase == {"up_bucket", "up_walk", "up_write", "up_relink"}
DelPhase == {"dl_unlink", "dl_dead", "dl_push"}
RowPhase == {"lk_held"} \cup UpPhase \cup DelPhase
FindPhase == {"fd_lock", "fd_walk", "done"}
Labels == {"idle", "ins_alloc", "lk_lock"} \cup InsPhase \cup RowPhase \cup FindPhase

-----------------------------------------------------------------------------
(* The inductive invariant.                                                *)

Owners == Threads \cup {NoThread}
Links == Slots \cup {FM_NULL_SLOT}
RecArgs == Recs \cup {<<>>}
Ops == AllCalls \cup {"none"}

SlotTypes ==
    /\ state \in [Slots -> {"FREE", "ACTIVE", "DELETING", "DELETED"}]
    /\ wlock \in [Slots -> Owners]
    /\ gen \in [Slots -> 0 .. MaxGen]
    /\ row \in [Slots -> Recs]
    /\ raced \subseteq Slots

ChainTypes ==
    /\ head \in [KeyNos -> [Buckets -> Links]]
    /\ next \in [KeyNos -> [Slots -> Links]]
    /\ block \in [KeyNos -> [Buckets -> Owners]]

ShareTypes ==
    /\ struct_mutex \in Owners
    /\ free \in Seq(Slots)

LocalTypes ==
    /\ pc \in [Threads -> Labels]
    /\ op \in [Threads -> Ops]
    /\ idx \in [Threads -> Links]
    /\ exp \in [Threads -> Nat]
    /\ old \in [Threads -> RecArgs]
    /\ new \in [Threads -> RecArgs]
    /\ want \in [Threads -> SUBSET Vals]
    /\ key \in [Threads -> -1 .. keys]
    /\ h \in [Threads -> Links]
    /\ after \in [Threads -> BOOLEAN]
    /\ ret \in [Threads -> {"none", "OK", "NOT_FOUND"}]

ScanTypes ==
    /\ stable \in [Threads -> SUBSET Slots]
    /\ seen \in [Threads -> SUBSET Slots]
    /\ lost \in [Threads -> BOOLEAN]

Types == SlotTypes /\ ChainTypes /\ ShareTypes /\ LocalTypes /\ ScanTypes

\* What the locals of a thread are at each of its steps.
ArgsOK(t) ==
    /\ pc[t] \in InsPhase \cup RowPhase \cup {"lk_lock"} => idx[t] \in Slots
    /\ pc[t] \in InsPhase \cup UpPhase \cup {"ins_alloc"} => new[t] \in Recs
    /\ pc[t] \in RowPhase => old[t] \in Recs
    /\ pc[t] \in {"idle", "ins_alloc", "lk_lock", "lk_held", "up_bucket"} => key[t] = 0
    /\ pc[t] \in {"ins_bucket", "ins_walk", "ins_undo", "dl_unlink"} => key[t] \in KeyNos
    /\ pc[t] = "ins_publish" => key[t] = keys
    /\ pc[t] = "up_bucket" => Changed(t) # {}
    /\ pc[t] \in {"up_walk", "up_relink"} => key[t] \in Changed(t)
    /\ pc[t] = "up_write" /\ Changed(t) # {} =>
          key[t] \in Changed(t) /\ \A k \in Changed(t) : key[t] <= k
    /\ op[t] = "find" <=> pc[t] \in FindPhase
    /\ pc[t] \in FindPhase => key[t] \in KeyNos /\ \E v \in Vals : want[t] = {v}
    /\ pc[t] = "idle" => idx[t] = FM_NULL_SLOT

\* The state and the record of the slot a thread works on.
RowOK(t) ==
    /\ pc[t] \in InsPhase => state[idx[t]] \in {"FREE", "DELETED"} /\ row[idx[t]] = new[t]
    /\ pc[t] \in {"lk_held", "up_bucket", "up_walk", "up_write"} =>
          state[idx[t]] = "ACTIVE" /\ row[idx[t]] = old[t]
    /\ pc[t] = "up_relink" => state[idx[t]] = "ACTIVE" /\ row[idx[t]] = new[t]
    /\ pc[t] \in {"dl_unlink", "dl_dead"} =>
          state[idx[t]] = "DELETING" /\ gen[idx[t]] < MaxGen
    /\ pc[t] = "dl_push" => state[idx[t]] = "DELETED"

\* The freelist holds dead slots, none twice and none that a thread owns.
OwnPhase == InsPhase \cup {"dl_push"}

FreeDistinct == \A m \in 1 .. Len(free) : \A n \in 1 .. Len(free) : free[m] = free[n] => m = n
FreeDead == \A m \in 1 .. Len(free) : free[m] \in Slots /\ state[free[m]] \in {"FREE", "DELETED"}
FreeUnowned ==
    \A m \in 1 .. Len(free) : \A t \in Threads : pc[t] \in OwnPhase => free[m] # idx[t]
OwnersApart ==
    \A t \in Threads : \A u \in Threads : pc[t] \in InsPhase /\ pc[u] = "dl_push" => idx[t] # idx[u]
FreeOK == FreeDistinct /\ FreeDead /\ FreeUnowned /\ OwnersApart

\* The bucket locks of a thread.  An update takes those of its LockSet in
\* ascending order before it goes on.
HoldsBucket(t, k, b) ==
    \/ pc[t] = "ins_walk" /\ key[t] = k /\ NewBucket(t) = b
    \/ pc[t] = "fd_walk" /\ key[t] = k /\ WantBucket(t) = b
    \/ pc[t] \in UpPhase /\ <<k, b>> \in LockSet(t)

Less(l, m) == l[1] < m[1] \/ (l[1] = m[1] /\ l[2] < m[2])

\* A thread holds the locks its step says it holds, and no others.
MutexOK(t) == pc[t] \in InsPhase <=> struct_mutex = t
WlockOK(t) == \A i \in Slots : wlock[i] = t <=> pc[t] \in RowPhase /\ idx[t] = i
BlockOK(t) ==
    \A k \in KeyNos : \A b \in Buckets :
        /\ block[k][b] = t => HoldsBucket(t, k, b)
        /\ HoldsBucket(t, k, b) /\ pc[t] # "up_bucket" => block[k][b] = t
OrderOK(t) ==
    pc[t] = "up_bucket" =>
        /\ Missing(t) # {}
        /\ \A l \in LockSet(t) : \A m \in Missing(t) : l \notin Missing(t) => Less(l, m)
LockOK(t) == MutexOK(t) /\ WlockOK(t) /\ BlockOK(t) /\ OrderOK(t)

BaseInv == Types /\ FreeOK /\ \A t \in Threads : ArgsOK(t) /\ RowOK(t) /\ LockOK(t)

-----------------------------------------------------------------------------
(* Facts about the operators of FmIndex.                                   *)

\* A set of naturals that is not empty has a least element: LeastNat of
\* FmIndex_proofs, and an assumption of the lemmas here that need it.
WellOrdered == \A T \in SUBSET Nat : T # {} => \E x \in T : \A y \in T : x <= y

LEMMA KeyNoFacts ==
    /\ KeyNos \subseteq Nat /\ keys \in Nat /\ 0 \in KeyNos
    /\ KeyNos \subseteq -1 .. keys /\ 0 \in -1 .. keys /\ keys \in -1 .. keys
    /\ \A k \in KeyNos : k + 1 \in -1 .. keys /\ k - 1 \in -1 .. keys
    /\ \A k \in KeyNos : k < keys /\ k # -1
    /\ \A k \in KeyNos : (k # 0 => k - 1 \in KeyNos) /\ (k + 1 < keys => k + 1 \in KeyNos)
    /\ \A k \in KeyNos : ~(k + 1 < keys) => k + 1 = keys
BY SMTT(30), KeysAssumption DEF KeyNos

LEMMA NullFacts == FM_NULL_SLOT \notin Slots
BY SMTT(30), SizesAssumption DEF FM_NULL_SLOT, Slots

LEMMA BucketIn == \A v \in Vals : Bucket(v) \in Buckets
BY SMTT(30), ValsAssumption, SizesAssumption DEF Bucket, Buckets

\* The values of a record, and their buckets.
LEMMA RecFacts ==
    ASSUME NEW r \in Recs, NEW k \in KeyNos
    PROVE  r[k] \in Vals /\ Bucket(r[k]) \in Buckets
BY RecsAssumption, BucketIn

\* The first key of a set that is not empty.
LEMMA FirstOfFacts ==
    ASSUME WellOrdered, NEW ks \in SUBSET KeyNos, ks # {}
    PROVE  FirstOf(ks) \in ks /\ \A j \in ks : FirstOf(ks) <= j
<1>1. \E k \in ks : \A j \in ks : k <= j
  BY KeyNoFacts DEF WellOrdered
<1> QED BY <1>1 DEF FirstOf

\* The buckets of an update, those of its old and of its new record.
LEMMA LockSetFacts ==
    ASSUME NEW t \in Threads
    PROVE  /\ \A l \in LockSet(t) : \E k \in Changed(t) :
                l = <<k, Bucket(old[t][k])>> \/ l = <<k, Bucket(new[t][k])>>
           /\ \A k \in Changed(t) :
                <<k, Bucket(old[t][k])>> \in LockSet(t) /\ <<k, Bucket(new[t][k])>> \in LockSet(t)
           /\ Changed(t) \subseteq KeyNos
<1>1. \A l \in LockSet(t) : \E k \in Changed(t) :
         l = <<k, Bucket(old[t][k])>> \/ l = <<k, Bucket(new[t][k])>>
  <2> TAKE l \in LockSet(t)
  <2>1. PICK k \in Changed(t), r \in {old, new} : l = <<k, Bucket(r[t][k])>>
    BY SMTT(30) DEF LockSet
  <2> QED BY <2>1
<1>2. \A k \in Changed(t) :
         <<k, Bucket(old[t][k])>> \in LockSet(t) /\ <<k, Bucket(new[t][k])>> \in LockSet(t)
  BY SMTT(30) DEF LockSet
<1>3. Changed(t) \subseteq KeyNos
  BY DEF Changed
<1> QED BY <1>1, <1>2, <1>3

LEMMA LockSetIn ==
    ASSUME NEW t \in Threads, old[t] \in Recs, new[t] \in Recs
    PROVE  LockSet(t) \subseteq KeyNos \X Buckets
<1> SUFFICES ASSUME NEW l \in LockSet(t) PROVE l \in KeyNos \X Buckets
  OBVIOUS
<1>1. PICK k \in Changed(t) : l = <<k, Bucket(old[t][k])>> \/ l = <<k, Bucket(new[t][k])>>
  BY LockSetFacts
<1>2. k \in KeyNos /\ Bucket(old[t][k]) \in Buckets /\ Bucket(new[t][k]) \in Buckets
  BY <1>1, LockSetFacts, RecFacts
<1> QED BY SMTT(30), <1>1, <1>2

\* The next lock an update takes is the least of the missing ones.
LEMMA NextLockFacts ==
    ASSUME WellOrdered, NEW t \in Threads, old[t] \in Recs, new[t] \in Recs, Missing(t) # {}
    PROVE  /\ NextLock(t) \in Missing(t) /\ NextLock(t) \in KeyNos \X Buckets
           /\ \A m \in Missing(t) : NextLock(t) = m \/ Less(NextLock(t), m)
<1>0. Missing(t) \subseteq KeyNos \X Buckets
  BY LockSetIn DEF Missing
<1>1. PICK k \in {l[1] : l \in Missing(t)} : \A j \in {l[1] : l \in Missing(t)} : k <= j
  <2>1. {l[1] : l \in Missing(t)} \in SUBSET Nat /\ {l[1] : l \in Missing(t)} # {}
    BY <1>0, KeyNoFacts
  <2> QED BY <2>1 DEF WellOrdered
<1> DEFINE B == {l[2] : l \in {m \in Missing(t) : m[1] = k}}
<1>2. PICK b \in B : \A c \in B : b <= c
  <2>1. B \in SUBSET Nat /\ B # {}
    BY SMTT(30), <1>0, <1>1, SizesAssumption DEF Buckets
  <2> QED BY <2>1 DEF WellOrdered
<1>3. PICK l \in Missing(t) : l[1] = k /\ l[2] = b
  BY <1>2
<1>4. \A m \in Missing(t) : l[1] < m[1] \/ (l[1] = m[1] /\ l[2] <= m[2])
  <2> TAKE m \in Missing(t)
  <2>1. m[1] \in Int /\ m[2] \in Int /\ l[1] \in Int /\ l[2] \in Int
    BY SMTT(30), <1>0, SizesAssumption, KeysAssumption DEF Buckets, KeyNos
  <2>2. l[1] <= m[1]
    BY <1>1, <1>3
  <2>3. l[1] = m[1] => l[2] <= m[2]
    BY <1>2, <1>3
  <2> HIDE DEF B
  <2> QED BY SMTT(30), <2>1, <2>2, <2>3
<1>5. /\ NextLock(t) \in Missing(t)
      /\ \A m \in Missing(t) :
            NextLock(t)[1] < m[1] \/ (NextLock(t)[1] = m[1] /\ NextLock(t)[2] <= m[2])
  BY <1>3, <1>4 DEF NextLock
<1>6. \A m \in Missing(t) : NextLock(t) = m \/ Less(NextLock(t), m)
  <2> TAKE m \in Missing(t)
  <2>1. m \in KeyNos \X Buckets /\ NextLock(t) \in KeyNos \X Buckets
    BY <1>0, <1>5
  <2>2. PICK n \in KeyNos \X Buckets : n = NextLock(t)
    BY <2>1
  <2>3. n[1] < m[1] \/ (n[1] = m[1] /\ n[2] <= m[2])
    BY <1>5, <2>2
  <2>4. n = m \/ n[1] < m[1] \/ (n[1] = m[1] /\ n[2] < m[2])
    BY SMTT(30), <2>1, <2>3, SizesAssumption, KeysAssumption DEF Buckets, KeyNos
  <2> QED BY <2>2, <2>4 DEF Less
<1> QED BY <1>0, <1>5, <1>6

-----------------------------------------------------------------------------
(* What a step of one thread does to the others.                           *)

Step(t) == Call(t) \/ Acquire(t) \/ Work(t) \/ EndFind(t)

LEMMA StepCases ==
    ASSUME NEW t \in Threads, Step(t)
    PROVE  \/ CallInsert(t) \/ CallLock(t) \/ CallFind(t) \/ CallFindNext(t)
           \/ Truncate(t) \/ InsertAlloc(t) \/ InsertFull(t) \/ InsertBucket(t)
           \/ InsertUndo(t) \/ LockRow(t) \/ LockGone(t) \/ UpdateBucket(t)
           \/ DeleteUnlink(t) \/ DeletePush(t) \/ FindBucket(t) \/ InsertWalk(t)
           \/ InsertLink(t) \/ InsertDup(t) \/ InsertFree(t) \/ InsertPublish(t)
           \/ Skip(t) \/ Update(t) \/ UpdateWalk(t) \/ UpdateChecked(t)
           \/ UpdateDup(t) \/ UpdateWrite(t) \/ UpdateRelink(t) \/ Delete(t)
           \/ DeleteDead(t) \/ FindStep(t) \/ FindHit(t) \/ FindMiss(t)
           \/ EndFind(t)
BY DEF Step, Call, Acquire, Work

\* Thread t takes no step.
SameLocals(t) ==
    /\ pc'[t] = pc[t] /\ op'[t] = op[t] /\ idx'[t] = idx[t] /\ exp'[t] = exp[t]
    /\ old'[t] = old[t] /\ new'[t] = new[t] /\ want'[t] = want[t] /\ key'[t] = key[t]
    /\ h'[t] = h[t] /\ after'[t] = after[t] /\ ret'[t] = ret[t] /\ seen'[t] = seen[t]

\* Thread t gains and loses no lock.
SameLocks(t) ==
    /\ struct_mutex' = t <=> struct_mutex = t
    /\ \A i \in Slots : wlock'[i] = t <=> wlock[i] = t
    /\ \A k \in KeyNos : \A b \in Buckets : block'[k][b] = t <=> block[k][b] = t

\* The locals of a call that returns are gone, those of the others stay.
LEMMA ReturnFacts ==
    ASSUME LocalTypes, NEW t \in Threads, Return(t)
    PROVE  /\ \A u \in Threads \ {t} :
                /\ pc'[u] = pc[u] /\ op'[u] = op[u] /\ idx'[u] = idx[u] /\ exp'[u] = exp[u]
                /\ old'[u] = old[u] /\ new'[u] = new[u] /\ want'[u] = want[u]
                /\ key'[u] = key[u] /\ h'[u] = h[u] /\ after'[u] = after[u]
           /\ pc'[t] = "idle" /\ op'[t] = "none" /\ idx'[t] = FM_NULL_SLOT /\ key'[t] = 0
BY DEF LocalTypes, Return, Goto

LEMMA CheckKeysOthers ==
    ASSUME LocalTypes, NEW t \in Threads, NEW ks, CheckKeys(t, ks)
    PROVE  \A u \in Threads \ {t} : pc'[u] = pc[u] /\ key'[u] = key[u] /\ h'[u] = h[u]
<1>1. CASE ks = {}
  BY <1>1 DEF LocalTypes, CheckKeys, Goto
<1>2. CASE ks # {}
  <2>1. /\ key' = [key EXCEPT ![t] = FirstOf(ks)]
        /\ h' = [h EXCEPT ![t] = DupFirst(FirstOf(ks), new[t][FirstOf(ks)])]
        /\ pc' = [pc EXCEPT ![t] = "up_walk"]
    BY <1>2 DEF CheckKeys, Goto
  <2> QED BY <2>1 DEF LocalTypes
<1> QED BY <1>1, <1>2

\* Only the locals of the thread that takes the step change.
LEMMA OthersSame ==
    ASSUME LocalTypes, ScanTypes, NEW t \in Threads, Step(t), NEW u \in Threads \ {t}
    PROVE  SameLocals(u)
<1> USE DEF LocalTypes, SameLocals, Goto, argVars, walkVars, scanVars
<1>1. CASE CallInsert(t)
  BY <1>1 DEF CallInsert, Begin
<1>2. CASE CallLock(t)
  BY <1>2 DEF CallLock, Begin
<1>3. CASE CallFind(t)
  BY <1>3 DEF CallFind, Begin
<1>4. CASE CallFindNext(t)
  BY <1>4 DEF CallFindNext
<1>5. CASE Truncate(t)
  BY <1>5 DEF Truncate
<1>6. CASE InsertAlloc(t)
  BY <1>6 DEF InsertAlloc
<1>7. CASE InsertFull(t)
  BY <1>7, ReturnFacts DEF InsertFull
<1>8. CASE InsertBucket(t)
  BY <1>8 DEF InsertBucket
<1>9. CASE InsertUndo(t)
  BY <1>9 DEF InsertUndo
<1>10. CASE LockRow(t)
  BY <1>10 DEF LockRow
<1>11. CASE LockGone(t)
  BY <1>11, ReturnFacts DEF LockGone
<1>12. CASE UpdateBucket(t)
  BY <1>12, CheckKeysOthers DEF UpdateBucket
<1>13. CASE DeleteUnlink(t)
  BY <1>13 DEF DeleteUnlink
<1>14. CASE DeletePush(t)
  BY <1>14, ReturnFacts DEF DeletePush, UnlockRow
<1>15. CASE FindBucket(t)
  BY <1>15 DEF FindBucket
<1>16. CASE InsertWalk(t)
  BY <1>16 DEF InsertWalk, DupStep
<1>17. CASE InsertLink(t)
  BY <1>17 DEF InsertLink
<1>18. CASE InsertDup(t)
  BY <1>18 DEF InsertDup
<1>19. CASE InsertFree(t)
  BY <1>19, ReturnFacts DEF InsertFree
<1>20. CASE InsertPublish(t)
  BY <1>20, ReturnFacts DEF InsertPublish
<1>21. CASE Skip(t)
  BY <1>21, ReturnFacts DEF Skip, UnlockRow
<1>22. CASE Update(t)
  BY <1>22 DEF Update
<1>23. CASE UpdateWalk(t)
  BY <1>23 DEF UpdateWalk, DupStep
<1>24. CASE UpdateChecked(t)
  BY <1>24, CheckKeysOthers DEF UpdateChecked
<1>25. CASE UpdateDup(t)
  BY <1>25, ReturnFacts DEF UpdateDup, UnlockRow
<1>26. CASE UpdateWrite(t)
  BY <1>26, ReturnFacts DEF UpdateWrite, UnlockRow
<1>27. CASE UpdateRelink(t)
  BY <1>27, ReturnFacts DEF UpdateRelink, UnlockRow
<1>28. CASE Delete(t)
  BY <1>28 DEF Delete
<1>29. CASE DeleteDead(t)
  BY <1>29 DEF DeleteDead
<1>30. CASE FindStep(t)
  BY <1>30 DEF FindStep
<1>31. CASE FindHit(t)
  BY <1>31 DEF FindHit, Answer, ScanTypes
<1>32. CASE FindMiss(t)
  BY <1>32 DEF FindMiss, Answer
<1>33. CASE EndFind(t)
  BY <1>33, ReturnFacts DEF EndFind, ScanTypes
<1> QED BY StepCases, <1>1, <1>2, <1>3, <1>4, <1>5, <1>6, <1>7, <1>8, <1>9, <1>10, <1>11,
     <1>12, <1>13, <1>14, <1>15, <1>16, <1>17, <1>18, <1>19, <1>20, <1>21, <1>22, <1>23, <1>24,
     <1>25, <1>26, <1>27, <1>28, <1>29, <1>30, <1>31, <1>32, <1>33

-----------------------------------------------------------------------------
(* Types.                                                                  *)

LEMMA LabelFacts ==
    /\ {"idle", "ins_alloc", "lk_lock", "lk_held"} \subseteq Labels
    /\ {"ins_bucket", "ins_walk", "ins_undo", "ins_free", "ins_publish"} \subseteq Labels
    /\ {"up_bucket", "up_walk", "up_write", "up_relink"} \subseteq Labels
    /\ {"dl_unlink", "dl_dead", "dl_push", "fd_lock", "fd_walk", "done"} \subseteq Labels
BY DEF Labels, InsPhase, RowPhase, UpPhase, DelPhase, FindPhase

LEMMA TypeFacts ==
    /\ Threads \subseteq Owners /\ NoThread \in Owners /\ NoThread \notin Threads
    /\ Slots \subseteq Links /\ FM_NULL_SLOT \in Links /\ FM_NULL_SLOT \notin Slots
    /\ \A i \in Links : i # FM_NULL_SLOT => i \in Slots
    /\ Recs \subseteq RecArgs /\ <<>> \in RecArgs
    /\ {"insert", "lock", "find", "truncate", "none"} \subseteq Ops
BY NullFacts, ThreadsAssumption DEF Owners, Links, RecArgs, Ops, AllCalls

LEMMA ReturnTypes ==
    ASSUME LocalTypes, NEW t \in Threads, Return(t)
    PROVE  /\ pc' \in [Threads -> Labels] /\ op' \in [Threads -> Ops]
           /\ idx' \in [Threads -> Links] /\ exp' \in [Threads -> Nat]
           /\ old' \in [Threads -> RecArgs] /\ new' \in [Threads -> RecArgs]
           /\ want' \in [Threads -> SUBSET Vals] /\ key' \in [Threads -> -1 .. keys]
           /\ h' \in [Threads -> Links] /\ after' \in [Threads -> BOOLEAN]
<1>1. "idle" \in Labels /\ 0 \in Nat /\ {} \in SUBSET Vals /\ 0 \in -1 .. keys
  BY KeyNoFacts, LabelFacts
<1> QED BY <1>1, TypeFacts DEF LocalTypes, Return, Goto

\* Where a duplicate check starts, and where any walk goes on.
LEMMA DupFirstIn ==
    ASSUME ChainTypes, NEW k \in KeyNos, NEW r \in Recs
    PROVE  DupFirst(k, r[k]) \in Links
<1>1. head[k][Bucket(r[k])] \in Links
  BY RecFacts DEF ChainTypes
<1> QED BY <1>1, TypeFacts DEF DupFirst

LEMMA NextIn ==
    ASSUME ChainTypes, LocalTypes, NEW t \in Threads, key[t] \in KeyNos, h[t] # FM_NULL_SLOT
    PROVE  next[key[t]][h[t]] \in Links /\ h[t] \in Slots
<1>1. h[t] \in Slots
  BY TypeFacts DEF LocalTypes
<1> QED BY <1>1 DEF ChainTypes

\* An update goes on to check the first key of ks.
LEMMA CheckKeysTypes ==
    ASSUME WellOrdered, LocalTypes, ChainTypes, NEW t \in Threads, new[t] \in Recs,
           NEW ks, ks \subseteq Changed(t), CheckKeys(t, ks)
    PROVE  /\ pc' \in [Threads -> Labels] /\ key' \in [Threads -> -1 .. keys]
           /\ h' \in [Threads -> Links]
<1>1. Changed(t) \subseteq KeyNos
  BY LockSetFacts
<1>2. FirstOf(Changed(t)) \in -1 .. keys
  <2>1. CASE Changed(t) = {}
    BY <2>1, KeyNoFacts DEF FirstOf
  <2>2. CASE Changed(t) # {}
    BY <1>1, <2>2, KeyNoFacts, FirstOfFacts
  <2> QED BY <2>1, <2>2
<1>3. CASE ks = {}
  <2>1. /\ key' = [key EXCEPT ![t] = FirstOf(Changed(t))]
        /\ h' = [h EXCEPT ![t] = FM_NULL_SLOT]
        /\ pc' = [pc EXCEPT ![t] = "up_write"]
    BY <1>3 DEF CheckKeys, Goto
  <2> QED BY <1>2, <2>1, LabelFacts, TypeFacts DEF LocalTypes
<1>4. CASE ks # {}
  <2>1. FirstOf(ks) \in KeyNos
    BY <1>1, <1>4, FirstOfFacts
  <2>2. FirstOf(ks) \in -1 .. keys
    BY <2>1, KeyNoFacts
  <2>3. DupFirst(FirstOf(ks), new[t][FirstOf(ks)]) \in Links
    BY <2>1, DupFirstIn
  <2>4. /\ key' = [key EXCEPT ![t] = FirstOf(ks)]
        /\ h' = [h EXCEPT ![t] = DupFirst(FirstOf(ks), new[t][FirstOf(ks)])]
        /\ pc' = [pc EXCEPT ![t] = "up_walk"]
    BY <1>4 DEF CheckKeys, Goto
  <2> QED BY <2>2, <2>3, <2>4, LabelFacts DEF LocalTypes
<1> QED BY <1>3, <1>4

LEMMA LocalTypesStep ==
    ASSUME WellOrdered, Types, NEW t \in Threads, Step(t), ArgsOK(t)
    PROVE  LocalTypes'
<1> USE DEF Types, LocalTypes, Goto, argVars, walkVars
<1>1. CASE CallInsert(t)
  BY <1>1, LabelFacts, TypeFacts DEF CallInsert, Begin
<1>2. CASE CallLock(t)
  BY <1>2, LabelFacts, TypeFacts DEF CallLock, Begin
<1>3. CASE CallFind(t)
  <2>1. PICK l \in Lookups : /\ key' = [key EXCEPT ![t] = l[1]] /\ want' = [want EXCEPT ![t] = {l[2]}]
    BY <1>3 DEF CallFind
  <2>2. l[1] \in -1 .. keys /\ l[2] \in Vals
    <3>1. l \in KeyNos \X Vals
      BY <2>1, LookupsAssumption
    <3>2. l[1] \in KeyNos /\ l[2] \in Vals
      BY <3>1
    <3> QED BY <3>2, KeyNoFacts
  <2>3. {l[2]} \in SUBSET Vals
    BY <2>2
  <2>4. key' \in [Threads -> -1 .. keys] /\ want' \in [Threads -> SUBSET Vals]
    BY <2>1, <2>2, <2>3
  <2> QED BY LabelFacts, TypeFacts, <1>3, <2>4 DEF CallFind, Begin
<1>4. CASE CallFindNext(t)
  BY <1>4, LabelFacts, TypeFacts DEF CallFindNext
<1>5. CASE Truncate(t)
  BY <1>5 DEF Truncate
<1>6. CASE InsertAlloc(t)
  <2>1. Head(free) \in Slots
    BY SMTT(30), <1>6 DEF InsertAlloc, ShareTypes
  <2> QED BY LabelFacts, TypeFacts, <1>6, <2>1 DEF InsertAlloc
<1>7. CASE InsertFull(t)
  BY <1>7, LabelFacts, TypeFacts, ReturnTypes DEF InsertFull
<1>8. CASE InsertBucket(t)
  BY <1>8, LabelFacts, TypeFacts, DupFirstIn DEF InsertBucket, ArgsOK, InsPhase, RowPhase,
     UpPhase, FindPhase
<1>9. CASE InsertUndo(t)
  BY <1>9, LabelFacts, TypeFacts, KeyNoFacts DEF InsertUndo, ArgsOK, InsPhase, RowPhase,
     UpPhase, FindPhase
<1>10. CASE LockRow(t)
  <2>1. idx[t] \in Slots
    BY <1>10 DEF LockRow, ArgsOK
  <2>2. row[idx[t]] \in RecArgs
    BY <2>1, TypeFacts DEF SlotTypes
  <2>3. gen[idx[t]] \in Nat
    BY SMTT(30), <2>1, SizesAssumption DEF SlotTypes
  <2> QED BY LabelFacts, TypeFacts, <1>10, <2>2, <2>3 DEF LockRow
<1>11. CASE LockGone(t)
  BY <1>11, LabelFacts, TypeFacts, ReturnTypes DEF LockGone
<1>12. CASE UpdateBucket(t)
  <2>1. new[t] \in Recs
    BY <1>12 DEF UpdateBucket, ArgsOK, UpPhase
  <2>2. CASE Missing(t) = {NextLock(t)}
    <3>1. CheckKeys(t, Changed(t))
      BY <1>12, <2>2 DEF UpdateBucket
    <3>2. /\ pc' \in [Threads -> Labels] /\ key' \in [Threads -> -1 .. keys]
          /\ h' \in [Threads -> Links]
      BY <2>1, <3>1, CheckKeysTypes
    <3> QED BY LabelFacts, TypeFacts, <1>12, <3>2 DEF UpdateBucket
  <2>3. CASE Missing(t) # {NextLock(t)}
    BY <1>12, <2>3 DEF UpdateBucket
  <2> QED BY <2>2, <2>3
<1>13. CASE DeleteUnlink(t)
  BY <1>13, LabelFacts, TypeFacts, KeyNoFacts DEF DeleteUnlink, ArgsOK, InsPhase,
     RowPhase, UpPhase, FindPhase
<1>14. CASE DeletePush(t)
  BY <1>14, LabelFacts, TypeFacts, ReturnTypes DEF DeletePush, UnlockRow
<1>15. CASE FindBucket(t)
  <2>1. key[t] \in KeyNos /\ WantBucket(t) \in Buckets
    BY <1>15, BucketIn DEF FindBucket, ArgsOK, FindPhase, WantBucket
  <2>2. (idx[t] = FM_NULL_SLOT) \in BOOLEAN
    OBVIOUS
  <2>3. head[key[t]][WantBucket(t)] \in Links
    BY <2>1 DEF ChainTypes
  <2> QED BY LabelFacts, TypeFacts, <1>15, <2>2, <2>3 DEF FindBucket
<1>16. CASE InsertWalk(t)
  BY <1>16, LabelFacts, TypeFacts, NextIn DEF InsertWalk, DupStep, ArgsOK
<1>17. CASE InsertLink(t)
  BY <1>17, LabelFacts, TypeFacts, KeyNoFacts DEF InsertLink, ArgsOK, InsPhase, RowPhase,
     UpPhase, FindPhase
<1>18. CASE InsertDup(t)
  BY <1>18, LabelFacts, TypeFacts, KeyNoFacts DEF InsertDup, ArgsOK, InsPhase, RowPhase,
     UpPhase, FindPhase
<1>19. CASE InsertFree(t)
  BY <1>19, LabelFacts, TypeFacts, ReturnTypes DEF InsertFree
<1>20. CASE InsertPublish(t)
  BY <1>20, LabelFacts, TypeFacts, ReturnTypes DEF InsertPublish
<1>21. CASE Skip(t)
  BY <1>21, LabelFacts, TypeFacts, ReturnTypes DEF Skip, UnlockRow
<1>22. CASE Update(t)
  BY <1>22, LabelFacts, TypeFacts DEF Update
<1>23. CASE UpdateWalk(t)
  BY <1>23, LabelFacts, TypeFacts, NextIn, LockSetFacts DEF UpdateWalk, DupStep, ArgsOK
<1>24. CASE UpdateChecked(t)
  <2>1. new[t] \in Recs /\ After(Changed(t), key[t]) \subseteq Changed(t)
    BY <1>24 DEF UpdateChecked, ArgsOK, UpPhase, After
  <2>2. CheckKeys(t, After(Changed(t), key[t]))
    BY <1>24 DEF UpdateChecked
  <2>3. pc' \in [Threads -> Labels] /\ key' \in [Threads -> -1 .. keys] /\ h' \in [Threads -> Links]
    BY <2>1, <2>2, CheckKeysTypes
  <2> QED BY LabelFacts, TypeFacts, <1>24, <2>3 DEF UpdateChecked
<1>25. CASE UpdateDup(t)
  BY <1>25, LabelFacts, TypeFacts, ReturnTypes DEF UpdateDup, UnlockRow
<1>26. CASE UpdateWrite(t)
  <2>1. CASE Changed(t) = {}
    BY <1>26, <2>1, ReturnTypes DEF UpdateWrite, UnlockRow
  <2>2. CASE Changed(t) # {}
    BY LabelFacts, <1>26, <2>2 DEF UpdateWrite
  <2> QED BY <2>1, <2>2
<1>27. CASE UpdateRelink(t)
  <2> DEFINE rest == After(Changed(t), key[t])
  <2>1. CASE rest = {}
    BY <1>27, <2>1, ReturnTypes DEF UpdateRelink, UnlockRow
  <2>2. CASE rest # {}
    <3>1. rest \subseteq KeyNos
      BY LockSetFacts DEF After
    <3>2. FirstOf(rest) \in -1 .. keys
      BY <2>2, <3>1, FirstOfFacts, KeyNoFacts
    <3>3. /\ key' = [key EXCEPT ![t] = FirstOf(rest)]
          /\ UNCHANGED <<pc, op, idx, exp, old, new, want, h, after, ret>>
      BY <1>27, <2>2 DEF UpdateRelink
    <3> QED BY <3>2, <3>3
  <2> QED BY <2>1, <2>2
<1>28. CASE Delete(t)
  BY <1>28, LabelFacts, TypeFacts DEF Delete
<1>29. CASE DeleteDead(t)
  BY <1>29, LabelFacts, TypeFacts DEF DeleteDead
<1>30. CASE FindStep(t)
  <2>1. key[t] \in KeyNos
    BY <1>30 DEF FindStep, ArgsOK, FindPhase
  <2>2. (after[t] \/ h[t] = idx[t]) \in BOOLEAN
    OBVIOUS
  <2> QED BY LabelFacts, TypeFacts, <1>30, <2>1, <2>2, NextIn DEF FindStep
<1>31. CASE FindHit(t)
  BY <1>31, LabelFacts, TypeFacts, NextIn DEF FindHit, Answer, ArgsOK, InsPhase, RowPhase,
     UpPhase, FindPhase
<1>32. CASE FindMiss(t)
  BY <1>32, LabelFacts, TypeFacts DEF FindMiss, Answer
<1>33. CASE EndFind(t)
  BY <1>33, LabelFacts, TypeFacts, ReturnTypes DEF EndFind
<1> QED BY StepCases, <1>1, <1>2, <1>3, <1>4, <1>5, <1>6, <1>7, <1>8, <1>9, <1>10, <1>11,
     <1>12, <1>13, <1>14, <1>15, <1>16, <1>17, <1>18, <1>19, <1>20, <1>21, <1>22, <1>23, <1>24,
     <1>25, <1>26, <1>27, <1>28, <1>29, <1>30, <1>31, <1>32, <1>33
LEMMA SlotTypesStep ==
    ASSUME Types, NEW t \in Threads, Step(t), ArgsOK(t), RowOK(t)
    PROVE  SlotTypes'
<1> USE DEF Types, SlotTypes, slotVars
<1>1. CASE CallInsert(t)
  BY <1>1 DEF CallInsert, Begin
<1>2. CASE CallLock(t)
  BY <1>2 DEF CallLock, Begin
<1>3. CASE CallFind(t)
  BY <1>3 DEF CallFind, Begin
<1>4. CASE CallFindNext(t)
  BY <1>4 DEF CallFindNext
<1>5. CASE Truncate(t)
  <2>1. gen' \in [Slots -> 0 .. MaxGen]
    <3>1. gen' = [i \in Slots |-> gen[i] + 1] /\ \A i \in Slots : gen[i] < MaxGen
      BY <1>5 DEF Truncate
    <3> QED BY SMTT(30), <3>1, SizesAssumption
  <2> QED BY <1>5, <2>1 DEF Truncate
<1>6. CASE InsertAlloc(t)
  BY <1>6 DEF InsertAlloc, ArgsOK
<1>7. CASE InsertFull(t)
  BY <1>7 DEF InsertFull
<1>8. CASE InsertBucket(t)
  BY <1>8 DEF InsertBucket
<1>9. CASE InsertUndo(t)
  BY <1>9 DEF InsertUndo
<1>10. CASE LockRow(t)
  BY <1>10, TypeFacts DEF LockRow
<1>11. CASE LockGone(t)
  BY <1>11 DEF LockGone
<1>12. CASE UpdateBucket(t)
  BY <1>12 DEF UpdateBucket
<1>13. CASE DeleteUnlink(t)
  BY <1>13 DEF DeleteUnlink
<1>14. CASE DeletePush(t)
  BY <1>14, TypeFacts DEF DeletePush, UnlockRow
<1>15. CASE FindBucket(t)
  BY <1>15 DEF FindBucket
<1>16. CASE InsertWalk(t)
  <2>1. h[t] \in Slots
    BY <1>16, NextIn, LockSetFacts DEF InsertWalk, DupStep, ArgsOK
  <2>2. raced' \subseteq Slots
    BY <1>16, <2>1 DEF InsertWalk, DupStep, Pass
  <2> QED BY <1>16, <2>2 DEF InsertWalk, DupStep
<1>17. CASE InsertLink(t)
  BY <1>17 DEF InsertLink
<1>18. CASE InsertDup(t)
  BY <1>18 DEF InsertDup
<1>19. CASE InsertFree(t)
  BY <1>19 DEF InsertFree
<1>20. CASE InsertPublish(t)
  BY <1>20 DEF InsertPublish
<1>21. CASE Skip(t)
  BY <1>21, TypeFacts DEF Skip, UnlockRow
<1>22. CASE Update(t)
  BY <1>22 DEF Update
<1>23. CASE UpdateWalk(t)
  <2>1. h[t] \in Slots
    BY <1>23, NextIn, LockSetFacts DEF UpdateWalk, DupStep, ArgsOK
  <2>2. raced' \subseteq Slots
    BY <1>23, <2>1 DEF UpdateWalk, DupStep, Pass
  <2> QED BY <1>23, <2>2 DEF UpdateWalk, DupStep
<1>24. CASE UpdateChecked(t)
  BY <1>24 DEF UpdateChecked
<1>25. CASE UpdateDup(t)
  BY <1>25, TypeFacts DEF UpdateDup, UnlockRow
<1>26. CASE UpdateWrite(t)
  <2>1. new[t] \in Recs
    BY <1>26 DEF UpdateWrite, ArgsOK, UpPhase
  <2>2. wlock' \in [Slots -> Owners]
    BY <1>26, TypeFacts DEF UpdateWrite, UnlockRow
  <2> QED BY <1>26, <2>1, <2>2 DEF UpdateWrite
<1>27. CASE UpdateRelink(t)
  <2>1. wlock' \in [Slots -> Owners]
    BY <1>27, TypeFacts DEF UpdateRelink, UnlockRow
  <2> QED BY <1>27, <2>1 DEF UpdateRelink
<1>28. CASE Delete(t)
  BY <1>28 DEF Delete
<1>29. CASE DeleteDead(t)
  <2>1. gen' \in [Slots -> 0 .. MaxGen]
    <3>1. /\ gen' = [gen EXCEPT ![idx[t]] = gen[idx[t]] + 1] /\ gen[idx[t]] < MaxGen
          /\ idx[t] \in Slots
      BY <1>29 DEF DeleteDead, RowOK, ArgsOK, RowPhase, DelPhase
    <3> QED BY SMTT(30), <3>1, SizesAssumption
  <2> QED BY <1>29, <2>1 DEF DeleteDead
<1>30. CASE FindStep(t)
  BY <1>30 DEF FindStep
<1>31. CASE FindHit(t)
  BY <1>31 DEF FindHit
<1>32. CASE FindMiss(t)
  BY <1>32 DEF FindMiss
<1>33. CASE EndFind(t)
  BY <1>33 DEF EndFind
<1> QED BY StepCases, <1>1, <1>2, <1>3, <1>4, <1>5, <1>6, <1>7, <1>8, <1>9, <1>10, <1>11,
     <1>12, <1>13, <1>14, <1>15, <1>16, <1>17, <1>18, <1>19, <1>20, <1>21, <1>22, <1>23, <1>24,
     <1>25, <1>26, <1>27, <1>28, <1>29, <1>30, <1>31, <1>32, <1>33

\* Locks, links and unlinks keep the types of the chains.
LEMMA LockTypes ==
    ASSUME ChainTypes, NEW t \in Owners, NEW k, NEW b
    PROVE  [block EXCEPT ![k][b] = t] \in [KeyNos -> [Buckets -> Owners]]
<1>1. k \in KeyNos => [block[k] EXCEPT ![b] = t] \in [Buckets -> Owners]
  BY DEF ChainTypes
<1> QED BY <1>1 DEF ChainTypes

LEMMA UnlinkTypes ==
    ASSUME ChainTypes, NEW k \in KeyNos, NEW b, NEW i \in Slots
    PROVE  /\ UnlinkHead(k, b, i) \in [KeyNos -> [Buckets -> Links]]
           /\ UnlinkNext(k, b, i) \in [KeyNos -> [Slots -> Links]]
<1>1. next[k][i] \in Links
  BY DEF ChainTypes
<1>2. [head[k] EXCEPT ![b] = IF head[k][b] = i THEN next[k][i] ELSE head[k][b]]
        \in [Buckets -> Links]
  BY <1>1 DEF ChainTypes
<1>3. [j \in Slots |-> IF j \in Nodes(k, b) /\ next[k][j] = i THEN next[k][i] ELSE next[k][j]]
        \in [Slots -> Links]
  BY <1>1 DEF ChainTypes
<1> QED BY <1>2, <1>3 DEF ChainTypes, UnlinkHead, UnlinkNext

LEMMA LinkTypes ==
    ASSUME NEW hd \in [KeyNos -> [Buckets -> Links]], NEW nx \in [KeyNos -> [Slots -> Links]],
           NEW k \in KeyNos, NEW b \in Buckets, NEW i \in Slots, Link(hd, nx, k, b, i)
    PROVE  head' \in [KeyNos -> [Buckets -> Links]] /\ next' \in [KeyNos -> [Slots -> Links]]
<1>1. hd[k][b] \in Links /\ i \in Links
  BY TypeFacts
<1>2. [hd[k] EXCEPT ![b] = i] \in [Buckets -> Links]
  BY <1>1
<1>3. [nx[k] EXCEPT ![i] = hd[k][b]] \in [Slots -> Links]
  BY <1>1
<1> QED BY <1>2, <1>3 DEF Link

LEMMA UnlockAllTypes ==
    ASSUME ChainTypes, NEW t, UnlockAll(t)
    PROVE  block' \in [KeyNos -> [Buckets -> Owners]]
BY TypeFacts DEF ChainTypes, UnlockAll

LEMMA ChainTypesStep ==
    ASSUME Types, NEW t \in Threads, Step(t), ArgsOK(t)
    PROVE  ChainTypes'
<1> USE DEF Types, ChainTypes, chainVars
<1>1. CASE CallInsert(t)
  BY <1>1 DEF CallInsert, Begin
<1>2. CASE CallLock(t)
  BY <1>2 DEF CallLock, Begin
<1>3. CASE CallFind(t)
  BY <1>3 DEF CallFind, Begin
<1>4. CASE CallFindNext(t)
  BY <1>4 DEF CallFindNext
<1>5. CASE Truncate(t)
  BY <1>5, TypeFacts DEF Truncate
<1>6. CASE InsertAlloc(t)
  BY <1>6 DEF InsertAlloc
<1>7. CASE InsertFull(t)
  BY <1>7 DEF InsertFull
<1>8. CASE InsertBucket(t)
  <2>1. block' \in [KeyNos -> [Buckets -> Owners]]
    BY <1>8, LockTypes, TypeFacts DEF InsertBucket, Lock, Unlock
  <2> QED BY <1>8, <2>1 DEF InsertBucket
<1>9. CASE InsertUndo(t)
  BY <1>9, UnlinkTypes DEF InsertUndo, Unlink, ArgsOK, InsPhase
<1>10. CASE LockRow(t)
  BY <1>10 DEF LockRow
<1>11. CASE LockGone(t)
  BY <1>11 DEF LockGone
<1>12. CASE UpdateBucket(t)
  <2>1. block' \in [KeyNos -> [Buckets -> Owners]]
    BY <1>12, LockTypes, TypeFacts DEF UpdateBucket, Lock, Unlock
  <2> QED BY <1>12, <2>1 DEF UpdateBucket
<1>13. CASE DeleteUnlink(t)
  <2>1. key[t] \in KeyNos /\ idx[t] \in Slots
    BY <1>13 DEF DeleteUnlink, ArgsOK, RowPhase, DelPhase
  <2> QED BY <1>13, <2>1, UnlinkTypes DEF DeleteUnlink, Unlink
<1>14. CASE DeletePush(t)
  BY <1>14 DEF DeletePush, UnlockRow
<1>15. CASE FindBucket(t)
  <2>1. block' \in [KeyNos -> [Buckets -> Owners]]
    BY <1>15, LockTypes, TypeFacts DEF FindBucket, Lock, Unlock
  <2> QED BY <1>15, <2>1 DEF FindBucket
<1>16. CASE InsertWalk(t)
  BY <1>16 DEF InsertWalk, DupStep
<1>17. CASE InsertLink(t)
  <2>1. key[t] \in KeyNos /\ idx[t] \in Slots /\ NewBucket(t) \in Buckets
    BY <1>17, RecFacts DEF InsertLink, ArgsOK, InsPhase, NewBucket
  <2>2. block' \in [KeyNos -> [Buckets -> Owners]]
    BY <1>17, LockTypes, TypeFacts DEF InsertLink, Unlock
  <2> QED BY <1>17, <2>1, <2>2, LinkTypes DEF InsertLink
<1>18. CASE InsertDup(t)
  <2>1. block' \in [KeyNos -> [Buckets -> Owners]]
    BY <1>18, LockTypes, TypeFacts DEF InsertDup, Lock, Unlock
  <2> QED BY <1>18, <2>1 DEF InsertDup
<1>19. CASE InsertFree(t)
  BY <1>19 DEF InsertFree
<1>20. CASE InsertPublish(t)
  BY <1>20 DEF InsertPublish
<1>21. CASE Skip(t)
  BY <1>21 DEF Skip, UnlockRow
<1>22. CASE Update(t)
  BY <1>22 DEF Update
<1>23. CASE UpdateWalk(t)
  BY <1>23 DEF UpdateWalk, DupStep
<1>24. CASE UpdateChecked(t)
  BY <1>24 DEF UpdateChecked
<1>25. CASE UpdateDup(t)
  BY <1>25, UnlockAllTypes DEF UpdateDup, UnlockRow
<1>26. CASE UpdateWrite(t)
  BY <1>26 DEF UpdateWrite, UnlockRow
<1>27. CASE UpdateRelink(t)
  <2>1. key[t] \in KeyNos /\ idx[t] \in Slots /\ NewBucket(t) \in Buckets
    BY <1>27, RecFacts, LockSetFacts DEF UpdateRelink, ArgsOK, RowPhase, UpPhase,
       NewBucket
  <2>2. block' \in [KeyNos -> [Buckets -> Owners]]
    BY <1>27, UnlockAllTypes DEF UpdateRelink
  <2>3. Link(UnlinkHead(key[t], Bucket(old[t][key[t]]), idx[t]),
             UnlinkNext(key[t], Bucket(old[t][key[t]]), idx[t]), key[t], NewBucket(t), idx[t])
    BY <1>27 DEF UpdateRelink
  <2> QED BY <2>1, <2>2, <2>3, UnlinkTypes, LinkTypes
<1>28. CASE Delete(t)
  BY <1>28 DEF Delete
<1>29. CASE DeleteDead(t)
  BY <1>29 DEF DeleteDead
<1>30. CASE FindStep(t)
  BY <1>30 DEF FindStep
<1>31. CASE FindHit(t)
  <2>1. block' \in [KeyNos -> [Buckets -> Owners]]
    BY <1>31, LockTypes, TypeFacts DEF FindHit, Lock, Unlock
  <2> QED BY <1>31, <2>1 DEF FindHit
<1>32. CASE FindMiss(t)
  <2>1. block' \in [KeyNos -> [Buckets -> Owners]]
    BY <1>32, LockTypes, TypeFacts DEF FindMiss, Lock, Unlock
  <2> QED BY <1>32, <2>1 DEF FindMiss
<1>33. CASE EndFind(t)
  BY <1>33 DEF EndFind
<1> QED BY StepCases, <1>1, <1>2, <1>3, <1>4, <1>5, <1>6, <1>7, <1>8, <1>9, <1>10, <1>11,
     <1>12, <1>13, <1>14, <1>15, <1>16, <1>17, <1>18, <1>19, <1>20, <1>21, <1>22, <1>23, <1>24,
     <1>25, <1>26, <1>27, <1>28, <1>29, <1>30, <1>31, <1>32, <1>33

LEMMA ShareTypesStep ==
    ASSUME Types, NEW t \in Threads, Step(t), ArgsOK(t)
    PROVE  ShareTypes'
<1> USE DEF Types, ShareTypes
<1>1. CASE CallInsert(t)
  BY <1>1 DEF CallInsert, Begin
<1>2. CASE CallLock(t)
  BY <1>2 DEF CallLock, Begin
<1>3. CASE CallFind(t)
  BY <1>3 DEF CallFind, Begin
<1>4. CASE CallFindNext(t)
  BY <1>4 DEF CallFindNext
<1>5. CASE Truncate(t)
  <2>1. free' \in Seq(Slots)
    <3>1. free' = [n \in 1 .. max_records |-> max_records - n]
      BY <1>5 DEF Truncate
    <3>2. \A n \in 1 .. max_records : max_records - n \in Slots
      BY SMTT(30), SizesAssumption DEF Slots
    <3> QED BY SMTT(30), <3>1, <3>2, SizesAssumption
  <2> QED BY <1>5, <2>1 DEF Truncate
<1>6. CASE InsertAlloc(t)
  <2>1. free' \in Seq(Slots)
    BY SMTT(30), <1>6 DEF InsertAlloc
  <2> QED BY <1>6, <2>1, TypeFacts DEF InsertAlloc
<1>7. CASE InsertFull(t)
  BY <1>7 DEF InsertFull
<1>8. CASE InsertBucket(t)
  BY <1>8 DEF InsertBucket
<1>9. CASE InsertUndo(t)
  BY <1>9 DEF InsertUndo
<1>10. CASE LockRow(t)
  BY <1>10 DEF LockRow
<1>11. CASE LockGone(t)
  BY <1>11 DEF LockGone
<1>12. CASE UpdateBucket(t)
  BY <1>12 DEF UpdateBucket
<1>13. CASE DeleteUnlink(t)
  BY <1>13 DEF DeleteUnlink
<1>14. CASE DeletePush(t)
  <2>1. idx[t] \in Slots
    BY <1>14 DEF DeletePush, ArgsOK, RowPhase, DelPhase
  <2>2. free' \in Seq(Slots)
    BY SMTT(30), <1>14, <2>1 DEF DeletePush
  <2> QED BY <1>14, <2>2, TypeFacts DEF DeletePush
<1>15. CASE FindBucket(t)
  BY <1>15 DEF FindBucket
<1>16. CASE InsertWalk(t)
  BY <1>16 DEF InsertWalk, DupStep
<1>17. CASE InsertLink(t)
  BY <1>17 DEF InsertLink
<1>18. CASE InsertDup(t)
  BY <1>18 DEF InsertDup
<1>19. CASE InsertFree(t)
  <2>1. idx[t] \in Slots
    BY <1>19 DEF InsertFree, ArgsOK, InsPhase
  <2>2. free' \in Seq(Slots)
    BY SMTT(30), <1>19, <2>1 DEF InsertFree
  <2> QED BY <1>19, <2>2, TypeFacts DEF InsertFree
<1>20. CASE InsertPublish(t)
  BY <1>20, TypeFacts DEF InsertPublish
<1>21. CASE Skip(t)
  BY <1>21 DEF Skip, UnlockRow
<1>22. CASE Update(t)
  BY <1>22 DEF Update
<1>23. CASE UpdateWalk(t)
  BY <1>23 DEF UpdateWalk, DupStep
<1>24. CASE UpdateChecked(t)
  BY <1>24 DEF UpdateChecked
<1>25. CASE UpdateDup(t)
  BY <1>25 DEF UpdateDup, UnlockRow
<1>26. CASE UpdateWrite(t)
  BY <1>26 DEF UpdateWrite, UnlockRow
<1>27. CASE UpdateRelink(t)
  BY <1>27 DEF UpdateRelink, UnlockRow
<1>28. CASE Delete(t)
  BY <1>28 DEF Delete
<1>29. CASE DeleteDead(t)
  BY <1>29 DEF DeleteDead
<1>30. CASE FindStep(t)
  BY <1>30 DEF FindStep
<1>31. CASE FindHit(t)
  BY <1>31 DEF FindHit
<1>32. CASE FindMiss(t)
  BY <1>32 DEF FindMiss
<1>33. CASE EndFind(t)
  BY <1>33 DEF EndFind
<1> QED BY StepCases, <1>1, <1>2, <1>3, <1>4, <1>5, <1>6, <1>7, <1>8, <1>9, <1>10, <1>11,
     <1>12, <1>13, <1>14, <1>15, <1>16, <1>17, <1>18, <1>19, <1>20, <1>21, <1>22, <1>23, <1>24,
     <1>25, <1>26, <1>27, <1>28, <1>29, <1>30, <1>31, <1>32, <1>33

LEMMA ScanTypesStep ==
    ASSUME Types, NEW t \in Threads, Step(t)
    PROVE  ScanTypes'
<1> USE DEF Types, ScanTypes, scanVars
<1>1. CASE CallInsert(t)
  BY <1>1 DEF CallInsert, Begin
<1>2. CASE CallLock(t)
  BY <1>2 DEF CallLock, Begin
<1>3. CASE CallFind(t)
  <2>1. PICK l \in Lookups : stable' = [stable EXCEPT ![t] = {i \in Active : row[i][l[1]] = l[2]}]
    BY <1>3 DEF CallFind
  <2>2. {i \in Active : row[i][l[1]] = l[2]} \in SUBSET Slots
    BY DEF Active
  <2>3. stable' \in [Threads -> SUBSET Slots]
    BY <2>1, <2>2
  <2> QED BY <1>3, <2>3 DEF CallFind, Begin
<1>4. CASE CallFindNext(t)
  BY <1>4 DEF CallFindNext
<1>5. CASE Truncate(t)
  BY <1>5 DEF Truncate
<1>6. CASE InsertAlloc(t)
  BY <1>6 DEF InsertAlloc
<1>7. CASE InsertFull(t)
  BY <1>7 DEF InsertFull
<1>8. CASE InsertBucket(t)
  BY <1>8 DEF InsertBucket
<1>9. CASE InsertUndo(t)
  BY <1>9 DEF InsertUndo
<1>10. CASE LockRow(t)
  BY <1>10 DEF LockRow
<1>11. CASE LockGone(t)
  BY <1>11 DEF LockGone
<1>12. CASE UpdateBucket(t)
  BY <1>12 DEF UpdateBucket
<1>13. CASE DeleteUnlink(t)
  <2>1. lost' \in [Threads -> BOOLEAN]
    BY <1>13 DEF DeleteUnlink, Leave
  <2> QED BY <1>13, <2>1 DEF DeleteUnlink
<1>14. CASE DeletePush(t)
  BY <1>14 DEF DeletePush, UnlockRow
<1>15. CASE FindBucket(t)
  BY <1>15 DEF FindBucket
<1>16. CASE InsertWalk(t)
  BY <1>16 DEF InsertWalk, DupStep
<1>17. CASE InsertLink(t)
  BY <1>17 DEF InsertLink
<1>18. CASE InsertDup(t)
  BY <1>18 DEF InsertDup
<1>19. CASE InsertFree(t)
  BY <1>19 DEF InsertFree
<1>20. CASE InsertPublish(t)
  BY <1>20 DEF InsertPublish
<1>21. CASE Skip(t)
  BY <1>21 DEF Skip, UnlockRow
<1>22. CASE Update(t)
  BY <1>22 DEF Update
<1>23. CASE UpdateWalk(t)
  BY <1>23 DEF UpdateWalk, DupStep
<1>24. CASE UpdateChecked(t)
  BY <1>24 DEF UpdateChecked
<1>25. CASE UpdateDup(t)
  BY <1>25 DEF UpdateDup, UnlockRow
<1>26. CASE UpdateWrite(t)
  <2>1. stable' \in [Threads -> SUBSET Slots]
    BY <1>26 DEF UpdateWrite, Change
  <2> QED BY <1>26, <2>1 DEF UpdateWrite
<1>27. CASE UpdateRelink(t)
  <2>1. lost' \in [Threads -> BOOLEAN]
    BY <1>27 DEF UpdateRelink, Leave
  <2> QED BY <1>27, <2>1 DEF UpdateRelink
<1>28. CASE Delete(t)
  <2>1. stable' \in [Threads -> SUBSET Slots]
    BY <1>28 DEF Delete, Change
  <2> QED BY <1>28, <2>1 DEF Delete
<1>29. CASE DeleteDead(t)
  BY <1>29 DEF DeleteDead
<1>30. CASE FindStep(t)
  BY <1>30 DEF FindStep
<1>31. CASE FindHit(t)
  <2>1. h[t] \in Slots
    BY <1>31, TypeFacts DEF FindHit, LocalTypes
  <2>2. seen[t] \cup {h[t]} \in SUBSET Slots
    BY <2>1
  <2>3. seen' = [seen EXCEPT ![t] = seen[t] \cup {h[t]}]
    BY <1>31 DEF FindHit
  <2>4. seen' \in [Threads -> SUBSET Slots]
    BY <2>2, <2>3
  <2> QED BY <1>31, <2>4 DEF FindHit
<1>32. CASE FindMiss(t)
  BY <1>32 DEF FindMiss
<1>33. CASE EndFind(t)
  <2>1. {} \in SUBSET Slots /\ FALSE \in BOOLEAN
    OBVIOUS
  <2> QED BY <1>33, <2>1 DEF EndFind
<1> QED BY StepCases, <1>1, <1>2, <1>3, <1>4, <1>5, <1>6, <1>7, <1>8, <1>9, <1>10, <1>11,
     <1>12, <1>13, <1>14, <1>15, <1>16, <1>17, <1>18, <1>19, <1>20, <1>21, <1>22, <1>23, <1>24,
     <1>25, <1>26, <1>27, <1>28, <1>29, <1>30, <1>31, <1>32, <1>33

-----------------------------------------------------------------------------
(* Locks.                                                                  *)

\* One bucket lock changes hands.
Put(k, b, o) ==
    \A j \in KeyNos : \A c \in Buckets :
        /\ j = k /\ c = b => block'[j][c] = o
        /\ j # k \/ c # b => block'[j][c] = block[j][c]

LEMMA BlockPut ==
    ASSUME ChainTypes, NEW k \in KeyNos, NEW b \in Buckets
    PROVE  /\ \A o : block' = [block EXCEPT ![k][b] = o] => Put(k, b, o)
           /\ \A t : Lock(t, k, b) => Put(k, b, t) /\ block[k][b] = NoThread
           /\ Unlock(k, b) => Put(k, b, NoThread)
<1>1. \A o : block' = [block EXCEPT ![k][b] = o] => Put(k, b, o)
  <2> SUFFICES ASSUME NEW o, block' = [block EXCEPT ![k][b] = o] PROVE Put(k, b, o)
    OBVIOUS
  <2>1. block'[k] = [block[k] EXCEPT ![b] = o] /\ \A j \in KeyNos : j # k => block'[j] = block[j]
    BY DEF ChainTypes
  <2>2. block'[k][b] = o /\ \A c \in Buckets : c # b => block'[k][c] = block[k][c]
    BY <2>1 DEF ChainTypes
  <2> QED BY <2>1, <2>2 DEF Put
<1> QED BY <1>1 DEF Lock, Unlock

LEMMA UnlockAllFacts ==
    ASSUME ChainTypes, NEW t, UnlockAll(t)
    PROVE  \A j \in KeyNos : \A c \in Buckets :
              /\ <<j, c>> \in LockSet(t) => block'[j][c] = NoThread
              /\ <<j, c>> \notin LockSet(t) => block'[j][c] = block[j][c]
BY DEF UnlockAll

\* The key and the bucket of a walk.
LEMMA InsArgs ==
    ASSUME NEW t \in Threads, ArgsOK(t), pc[t] \in {"ins_bucket", "ins_walk", "ins_undo"}
    PROVE  key[t] \in KeyNos /\ idx[t] \in Slots /\ new[t] \in Recs /\ NewBucket(t) \in Buckets
<1>1. key[t] \in KeyNos /\ idx[t] \in Slots /\ new[t] \in Recs
  BY DEF ArgsOK, InsPhase
<1> QED BY <1>1, RecFacts DEF NewBucket

LEMMA FindArgs ==
    ASSUME NEW t \in Threads, ArgsOK(t), pc[t] \in FindPhase
    PROVE  key[t] \in KeyNos /\ WantBucket(t) \in Buckets /\ op[t] = "find"
BY BucketIn DEF ArgsOK, WantBucket

LEMMA UpArgs ==
    ASSUME NEW t \in Threads, ArgsOK(t), pc[t] \in UpPhase
    PROVE  /\ idx[t] \in Slots /\ old[t] \in Recs /\ new[t] \in Recs
           /\ LockSet(t) \subseteq KeyNos \X Buckets
           /\ Changed(t) \subseteq KeyNos
<1>1. idx[t] \in Slots /\ old[t] \in Recs /\ new[t] \in Recs
  BY DEF ArgsOK, RowPhase
<1> QED BY <1>1, LockSetIn, LockSetFacts

LEMMA UpWalkArgs ==
    ASSUME NEW t \in Threads, ArgsOK(t), pc[t] \in {"up_walk", "up_relink"}
    PROVE  /\ key[t] \in Changed(t) /\ key[t] \in KeyNos
           /\ NewBucket(t) \in Buckets /\ Bucket(old[t][key[t]]) \in Buckets
           /\ <<key[t], NewBucket(t)>> \in LockSet(t)
           /\ <<key[t], Bucket(old[t][key[t]])>> \in LockSet(t)
<1>1. key[t] \in Changed(t) /\ pc[t] \in UpPhase
  BY DEF ArgsOK, UpPhase
<1>2. key[t] \in KeyNos /\ old[t] \in Recs /\ new[t] \in Recs
  BY <1>1, UpArgs
<1> QED BY <1>1, <1>2, RecFacts, LockSetFacts DEF NewBucket

\* The locks a thread releases are its own.
LEMMA OwnLocks ==
    ASSUME NEW t \in Threads, ArgsOK(t), LockOK(t)
    PROVE  /\ pc[t] = "ins_walk" => block[key[t]][NewBucket(t)] = t
           /\ pc[t] = "fd_walk" => block[key[t]][WantBucket(t)] = t
           /\ pc[t] \in UpPhase \ {"up_bucket"} =>
                 \A k \in KeyNos : \A b \in Buckets : <<k, b>> \in LockSet(t) => block[k][b] = t
           /\ pc[t] \in RowPhase => wlock[idx[t]] = t /\ idx[t] \in Slots
           /\ pc[t] \in InsPhase => struct_mutex = t
<1>1. pc[t] = "ins_walk" => block[key[t]][NewBucket(t)] = t
  BY InsArgs DEF LockOK, BlockOK, HoldsBucket
<1>2. pc[t] = "fd_walk" => block[key[t]][WantBucket(t)] = t
  BY FindArgs DEF LockOK, BlockOK, HoldsBucket, FindPhase
<1>3. pc[t] \in UpPhase \ {"up_bucket"} =>
        \A k \in KeyNos : \A b \in Buckets : <<k, b>> \in LockSet(t) => block[k][b] = t
  BY DEF LockOK, BlockOK, HoldsBucket
<1>4. pc[t] \in RowPhase => wlock[idx[t]] = t /\ idx[t] \in Slots
  BY DEF LockOK, WlockOK, ArgsOK
<1> QED BY <1>1, <1>2, <1>3, <1>4 DEF LockOK, MutexOK

\* The records of a thread determine the buckets its update locks.
LEMMA LockSetSame ==
    ASSUME NEW t \in Threads, old'[t] = old[t], new'[t] = new[t]
    PROVE  Changed(t)' = Changed(t) /\ LockSet(t)' = LockSet(t)
<1>1. Changed(t)' = Changed(t)
  BY DEF Changed
<1> QED BY SMTT(30), <1>1 DEF LockSet

\* A thread that takes no step and whose locks stay keeps its invariant.
LEMMA ArgsFrame ==
    ASSUME NEW t \in Threads, ArgsOK(t), SameLocals(t)
    PROVE  ArgsOK(t)'
<1>1. Changed(t)' = Changed(t)
  BY LockSetSame DEF SameLocals
<1> QED BY <1>1 DEF ArgsOK, SameLocals

LEMMA LockFrame ==
    ASSUME NEW t \in Threads, LockOK(t), ArgsOK(t), SameLocals(t), SameLocks(t)
    PROVE  LockOK(t)'
<1>1. Changed(t)' = Changed(t) /\ LockSet(t)' = LockSet(t)
  BY LockSetSame DEF SameLocals
<1>2. \A k \in KeyNos : \A b \in Buckets : HoldsBucket(t, k, b)' <=> HoldsBucket(t, k, b)
  BY <1>1 DEF HoldsBucket, SameLocals, NewBucket, WantBucket
<1>3. MutexOK(t)' /\ WlockOK(t)'
  BY DEF LockOK, MutexOK, WlockOK, SameLocals, SameLocks
<1>4. BlockOK(t)'
  BY <1>2 DEF LockOK, BlockOK, SameLocals, SameLocks
<1>5. OrderOK(t)'
  <2>1. CASE pc[t] = "up_bucket"
    <3>1. LockSet(t) \subseteq KeyNos \X Buckets
      BY <2>1, UpArgs DEF UpPhase
    <3>2. \A l \in LockSet(t) : l[1] \in KeyNos /\ l[2] \in Buckets
      BY <3>1
    <3>3. \A l \in LockSet(t) : block'[l[1]][l[2]] = t <=> block[l[1]][l[2]] = t
      BY <3>2 DEF SameLocks
    <3>4. Missing(t)' = Missing(t)
      BY <1>1, <3>3 DEF Missing
    <3> QED BY <1>1, <3>4 DEF LockOK, OrderOK, SameLocals
  <2>2. CASE pc[t] # "up_bucket"
    BY <2>2 DEF OrderOK, SameLocals
  <2> QED BY <2>1, <2>2
<1> QED BY <1>3, <1>4, <1>5 DEF LockOK

\* Locks that pass between thread t and nobody are not those of another thread.
LEMMA PutOthers ==
    ASSUME NEW t \in Threads, NEW u \in Threads \ {t}, NEW k \in KeyNos, NEW b \in Buckets,
           block[k][b] \in {NoThread, t}, NEW o \in {NoThread, t}, Put(k, b, o)
    PROVE  \A j \in KeyNos : \A c \in Buckets : block'[j][c] = u <=> block[j][c] = u
<1>1. u # t /\ u # NoThread
  BY TypeFacts
<1> SUFFICES ASSUME NEW j \in KeyNos, NEW c \in Buckets
             PROVE  block'[j][c] = u <=> block[j][c] = u
  OBVIOUS
<1>2. CASE j = k /\ c = b
  <2>1. block'[k][b] = o
    BY DEF Put
  <2> QED BY <1>1, <1>2, <2>1
<1>3. CASE ~(j = k /\ c = b)
  <2>1. block'[j][c] = block[j][c]
    BY <1>3 DEF Put
  <2> QED BY <2>1
<1> QED BY <1>2, <1>3

LEMMA UnlockAllOthers ==
    ASSUME ChainTypes, NEW t \in Threads, NEW u \in Threads \ {t}, UnlockAll(t),
           \A k \in KeyNos : \A b \in Buckets : <<k, b>> \in LockSet(t) => block[k][b] = t
    PROVE  \A j \in KeyNos : \A c \in Buckets : block'[j][c] = u <=> block[j][c] = u
<1>1. u # t /\ u # NoThread
  BY TypeFacts
<1> SUFFICES ASSUME NEW j \in KeyNos, NEW c \in Buckets
             PROVE  block'[j][c] = u <=> block[j][c] = u
  OBVIOUS
<1>2. CASE <<j, c>> \in LockSet(t)
  <2>1. block'[j][c] = NoThread /\ block[j][c] = t
    BY <1>2, UnlockAllFacts
  <2> QED BY <1>1, <2>1
<1>3. CASE <<j, c>> \notin LockSet(t)
  <2>1. block'[j][c] = block[j][c]
    BY <1>3, UnlockAllFacts
  <2> QED BY <2>1
<1> QED BY <1>2, <1>3

LEMMA WlockOthers ==
    ASSUME SlotTypes, NEW t \in Threads, NEW u \in Threads \ {t}, NEW i \in Slots,
           wlock[i] \in {NoThread, t}, NEW o \in {NoThread, t}, wlock' = [wlock EXCEPT ![i] = o]
    PROVE  \A j \in Slots : wlock'[j] = u <=> wlock[j] = u
<1>1. u # t /\ u # NoThread
  BY TypeFacts
<1> SUFFICES ASSUME NEW j \in Slots PROVE wlock'[j] = u <=> wlock[j] = u
  OBVIOUS
<1>2. CASE j = i
  BY <1>1, <1>2 DEF SlotTypes
<1>3. CASE j # i
  BY <1>3 DEF SlotTypes
<1> QED BY <1>2, <1>3

\* The locks of the other threads stay as they are.
LEMMA OthersLocks ==
    ASSUME WellOrdered, Types, NEW t \in Threads, Step(t), ArgsOK(t), LockOK(t),
           NEW u \in Threads \ {t}
    PROVE  SameLocks(u)
<1> USE DEF Types, SameLocks, slotVars
<1>1. CASE CallInsert(t)
  BY <1>1 DEF CallInsert, Begin
<1>2. CASE CallLock(t)
  BY <1>2 DEF CallLock, Begin
<1>3. CASE CallFind(t)
  BY <1>3 DEF CallFind, Begin
<1>4. CASE CallFindNext(t)
  BY <1>4 DEF CallFindNext
<1>5. CASE Truncate(t)
  BY <1>5 DEF Truncate
<1>6. CASE InsertAlloc(t)
  BY <1>6, TypeFacts DEF InsertAlloc
<1>7. CASE InsertFull(t)
  BY <1>7 DEF InsertFull
<1>8. CASE InsertBucket(t)
  <2>1. /\ block[key[t]][NewBucket(t)] \in {NoThread, t} /\ key[t] \in KeyNos
        /\ NewBucket(t) \in Buckets
    BY <1>8, InsArgs DEF InsertBucket, Lock, FindPhase
  <2>2. \A j \in KeyNos : \A c \in Buckets : block'[j][c] = u <=> block[j][c] = u
    BY <1>8, <2>1, BlockPut, PutOthers DEF InsertBucket
  <2> QED BY <1>8, <2>2 DEF InsertBucket
<1>9. CASE InsertUndo(t)
  BY <1>9 DEF InsertUndo
<1>10. CASE LockRow(t)
  <2>1. \A i \in Slots : wlock'[i] = u <=> wlock[i] = u
    BY <1>10, WlockOthers DEF LockRow, ArgsOK
  <2> QED BY <1>10, <2>1 DEF LockRow
<1>11. CASE LockGone(t)
  BY <1>11 DEF LockGone
<1>12. CASE UpdateBucket(t)
  <2>1. NextLock(t) \in KeyNos \X Buckets
    BY <1>12, UpArgs, NextLockFacts DEF UpdateBucket, UpPhase, LockOK, OrderOK
  <2>2. NextLock(t)[1] \in KeyNos /\ NextLock(t)[2] \in Buckets
    BY <2>1
  <2>3. /\ Put(NextLock(t)[1], NextLock(t)[2], t)
        /\ block[NextLock(t)[1]][NextLock(t)[2]] \in {NoThread, t}
    BY <1>12, <2>2, BlockPut DEF UpdateBucket
  <2>4. \A j \in KeyNos : \A c \in Buckets : block'[j][c] = u <=> block[j][c] = u
    BY <2>2, <2>3, PutOthers
  <2> QED BY <1>12, <2>4 DEF UpdateBucket
<1>13. CASE DeleteUnlink(t)
  BY <1>13 DEF DeleteUnlink
<1>14. CASE DeletePush(t)
  <2>1. wlock[idx[t]] = t /\ idx[t] \in Slots
    BY <1>14, OwnLocks DEF DeletePush, RowPhase, UpPhase, DelPhase
  <2>2. \A i \in Slots : wlock'[i] = u <=> wlock[i] = u
    <3>1. wlock' = wlock \/ wlock' = [wlock EXCEPT ![idx[t]] = NoThread]
      BY <1>14 DEF DeletePush, UnlockRow
    <3>2. CASE wlock' = [wlock EXCEPT ![idx[t]] = NoThread]
      BY <2>1, <3>2, WlockOthers
    <3> QED BY <3>1, <3>2
  <2> QED BY <1>14, <2>2 DEF DeletePush, UnlockRow
<1>15. CASE FindBucket(t)
  <2>1. /\ block[key[t]][WantBucket(t)] \in {NoThread, t} /\ key[t] \in KeyNos
        /\ WantBucket(t) \in Buckets
    BY <1>15, FindArgs DEF FindBucket, Lock, FindPhase
  <2>2. \A j \in KeyNos : \A c \in Buckets : block'[j][c] = u <=> block[j][c] = u
    BY <1>15, <2>1, BlockPut, PutOthers DEF FindBucket
  <2> QED BY <1>15, <2>2 DEF FindBucket
<1>16. CASE InsertWalk(t)
  BY <1>16 DEF InsertWalk
<1>17. CASE InsertLink(t)
  <2>1. /\ block[key[t]][NewBucket(t)] \in {NoThread, t} /\ key[t] \in KeyNos
        /\ NewBucket(t) \in Buckets
    BY <1>17, InsArgs, OwnLocks DEF InsertLink, Lock, FindPhase
  <2>2. \A j \in KeyNos : \A c \in Buckets : block'[j][c] = u <=> block[j][c] = u
    BY <1>17, <2>1, BlockPut, PutOthers DEF InsertLink
  <2> QED BY <1>17, <2>2 DEF InsertLink
<1>18. CASE InsertDup(t)
  <2>1. /\ block[key[t]][NewBucket(t)] \in {NoThread, t} /\ key[t] \in KeyNos
        /\ NewBucket(t) \in Buckets
    BY <1>18, InsArgs, OwnLocks DEF InsertDup, Lock, FindPhase
  <2>2. \A j \in KeyNos : \A c \in Buckets : block'[j][c] = u <=> block[j][c] = u
    BY <1>18, <2>1, BlockPut, PutOthers DEF InsertDup
  <2> QED BY <1>18, <2>2 DEF InsertDup
<1>19. CASE InsertFree(t)
  <2>1. struct_mutex = t /\ struct_mutex' = NoThread
    BY <1>19 DEF InsertFree, LockOK, MutexOK, InsPhase
  <2>2. u # t /\ u # NoThread
    BY TypeFacts
  <2> QED BY <1>19, <2>1, <2>2 DEF InsertFree
<1>20. CASE InsertPublish(t)
  <2>1. struct_mutex = t /\ struct_mutex' = NoThread
    BY <1>20 DEF InsertPublish, LockOK, MutexOK, InsPhase
  <2>2. u # t /\ u # NoThread
    BY TypeFacts
  <2> QED BY <1>20, <2>1, <2>2 DEF InsertPublish
<1>21. CASE Skip(t)
  <2>1. wlock[idx[t]] = t /\ idx[t] \in Slots
    BY <1>21, OwnLocks DEF Skip, RowPhase, UpPhase, DelPhase
  <2>2. \A i \in Slots : wlock'[i] = u <=> wlock[i] = u
    <3>1. wlock' = wlock \/ wlock' = [wlock EXCEPT ![idx[t]] = NoThread]
      BY <1>21 DEF Skip, UnlockRow
    <3>2. CASE wlock' = [wlock EXCEPT ![idx[t]] = NoThread]
      BY <2>1, <3>2, WlockOthers
    <3> QED BY <3>1, <3>2
  <2> QED BY <1>21, <2>2 DEF Skip, UnlockRow
<1>22. CASE Update(t)
  BY <1>22 DEF Update
<1>23. CASE UpdateWalk(t)
  BY <1>23 DEF UpdateWalk
<1>24. CASE UpdateChecked(t)
  BY <1>24 DEF UpdateChecked
<1>25. CASE UpdateDup(t)
  <2>1. wlock[idx[t]] = t /\ idx[t] \in Slots
    BY <1>25, OwnLocks DEF UpdateDup, RowPhase, UpPhase, DelPhase
  <2>2. \A i \in Slots : wlock'[i] = u <=> wlock[i] = u
    <3>1. wlock' = wlock \/ wlock' = [wlock EXCEPT ![idx[t]] = NoThread]
      BY <1>25 DEF UpdateDup, UnlockRow
    <3>2. CASE wlock' = [wlock EXCEPT ![idx[t]] = NoThread]
      BY <2>1, <3>2, WlockOthers
    <3> QED BY <3>1, <3>2
  <2>3. \A k \in KeyNos : \A b \in Buckets : <<k, b>> \in LockSet(t) => block[k][b] = t
    BY <1>25, OwnLocks DEF UpdateDup, UpPhase
  <2>4. \A j \in KeyNos : \A c \in Buckets : block'[j][c] = u <=> block[j][c] = u
    BY <1>25, <2>3, UnlockAllOthers DEF UpdateDup
  <2> QED BY <1>25, <2>2, <2>4 DEF UpdateDup
<1>26. CASE UpdateWrite(t)
  <2>1. wlock[idx[t]] = t /\ idx[t] \in Slots
    BY <1>26, OwnLocks DEF UpdateWrite, RowPhase, UpPhase, DelPhase
  <2>2. \A i \in Slots : wlock'[i] = u <=> wlock[i] = u
    <3>1. wlock' = wlock \/ wlock' = [wlock EXCEPT ![idx[t]] = NoThread]
      BY <1>26 DEF UpdateWrite, UnlockRow
    <3>2. CASE wlock' = [wlock EXCEPT ![idx[t]] = NoThread]
      BY <2>1, <3>2, WlockOthers
    <3> QED BY <3>1, <3>2
  <2> QED BY <1>26, <2>2 DEF UpdateWrite, UnlockRow
<1>27. CASE UpdateRelink(t)
  <2>1. wlock[idx[t]] = t /\ idx[t] \in Slots
    BY <1>27, OwnLocks DEF UpdateRelink, RowPhase, UpPhase, DelPhase
  <2>2. \A i \in Slots : wlock'[i] = u <=> wlock[i] = u
    <3>1. wlock' = wlock \/ wlock' = [wlock EXCEPT ![idx[t]] = NoThread]
      BY <1>27 DEF UpdateRelink, UnlockRow
    <3>2. CASE wlock' = [wlock EXCEPT ![idx[t]] = NoThread]
      BY <2>1, <3>2, WlockOthers
    <3> QED BY <3>1, <3>2
  <2>3. \A k \in KeyNos : \A b \in Buckets : <<k, b>> \in LockSet(t) => block[k][b] = t
    BY <1>27, OwnLocks DEF UpdateRelink, UpPhase
  <2>4. \A j \in KeyNos : \A c \in Buckets : block'[j][c] = u <=> block[j][c] = u
    BY <1>27, <2>3, UnlockAllOthers DEF UpdateRelink
  <2> QED BY <1>27, <2>2, <2>4 DEF UpdateRelink
<1>28. CASE Delete(t)
  BY <1>28 DEF Delete
<1>29. CASE DeleteDead(t)
  BY <1>29 DEF DeleteDead
<1>30. CASE FindStep(t)
  BY <1>30 DEF FindStep
<1>31. CASE FindHit(t)
  <2>1. /\ block[key[t]][WantBucket(t)] \in {NoThread, t} /\ key[t] \in KeyNos
        /\ WantBucket(t) \in Buckets
    BY <1>31, FindArgs, OwnLocks DEF FindHit, Lock, FindPhase
  <2>2. \A j \in KeyNos : \A c \in Buckets : block'[j][c] = u <=> block[j][c] = u
    BY <1>31, <2>1, BlockPut, PutOthers DEF FindHit
  <2> QED BY <1>31, <2>2 DEF FindHit
<1>32. CASE FindMiss(t)
  <2>1. /\ block[key[t]][WantBucket(t)] \in {NoThread, t} /\ key[t] \in KeyNos
        /\ WantBucket(t) \in Buckets
    BY <1>32, FindArgs, OwnLocks DEF FindMiss, Lock, FindPhase
  <2>2. \A j \in KeyNos : \A c \in Buckets : block'[j][c] = u <=> block[j][c] = u
    BY <1>32, <2>1, BlockPut, PutOthers DEF FindMiss
  <2> QED BY <1>32, <2>2 DEF FindMiss
<1>33. CASE EndFind(t)
  BY <1>33 DEF EndFind
<1> QED BY StepCases, <1>1, <1>2, <1>3, <1>4, <1>5, <1>6, <1>7, <1>8, <1>9, <1>10, <1>11,
     <1>12, <1>13, <1>14, <1>15, <1>16, <1>17, <1>18, <1>19, <1>20, <1>21, <1>22, <1>23, <1>24,
     <1>25, <1>26, <1>27, <1>28, <1>29, <1>30, <1>31, <1>32, <1>33

-----------------------------------------------------------------------------
(* The locals of the thread that takes the step.                           *)

LEMMA ReturnArgs ==
    ASSUME LocalTypes, NEW t \in Threads, Return(t)
    PROVE  ArgsOK(t)'
BY ReturnFacts DEF ArgsOK, InsPhase, UpPhase, RowPhase, DelPhase, FindPhase

\* A write statement and an insert go on with the same row.
LEMMA CheckKeysArgs ==
    ASSUME WellOrdered, Types, NEW t \in Threads, ArgsOK(t), pc[t] \in {"up_bucket", "up_walk"},
           NEW ks, ks \subseteq Changed(t), CheckKeys(t, ks), UNCHANGED <<op, argVars>>
    PROVE  ArgsOK(t)' /\ (pc'[t] = "up_walk" => ks # {} /\ key'[t] = FirstOf(ks))
<1>1. /\ idx'[t] = idx[t] /\ old'[t] = old[t] /\ new'[t] = new[t] /\ op'[t] = op[t]
      /\ idx[t] \in Slots /\ old[t] \in Recs /\ new[t] \in Recs /\ op[t] # "find"
  BY DEF argVars, ArgsOK, InsPhase, UpPhase, RowPhase, DelPhase, FindPhase
<1>2. Changed(t)' = Changed(t) /\ Changed(t) \subseteq KeyNos
  BY <1>1, LockSetSame, LockSetFacts
<1>3. CASE ks = {}
  <2>1. key' = [key EXCEPT ![t] = FirstOf(Changed(t))] /\ pc' = [pc EXCEPT ![t] = "up_write"]
    BY <1>3 DEF CheckKeys, Goto
  <2>2. key'[t] = FirstOf(Changed(t)) /\ pc'[t] = "up_write"
    BY <2>1 DEF Types, LocalTypes
  <2>3. Changed(t) # {} => FirstOf(Changed(t)) \in Changed(t)
                           /\ \A k \in Changed(t) : FirstOf(Changed(t)) <= k
    BY <1>2, FirstOfFacts
  <2> QED BY <1>1, <1>2, <2>2, <2>3 DEF ArgsOK, InsPhase, UpPhase, RowPhase, DelPhase, FindPhase
<1>4. CASE ks # {}
  <2>1. key' = [key EXCEPT ![t] = FirstOf(ks)] /\ pc' = [pc EXCEPT ![t] = "up_walk"]
    BY <1>4 DEF CheckKeys, Goto
  <2>2. key'[t] = FirstOf(ks) /\ pc'[t] = "up_walk"
    BY <2>1 DEF Types, LocalTypes
  <2>3. FirstOf(ks) \in Changed(t)
    BY <1>2, <1>4, FirstOfFacts
  <2> QED BY <1>1, <1>2, <1>4, <2>2, <2>3 DEF ArgsOK, InsPhase, UpPhase, RowPhase, DelPhase,
      FindPhase
<1> QED BY <1>3, <1>4

LEMMA ArgsStep ==
    ASSUME WellOrdered, Types, NEW t \in Threads, Step(t), ArgsOK(t)
    PROVE  ArgsOK(t)'
<1> USE DEF Types, LocalTypes, Goto
<1>1. CASE CallInsert(t)
  <2>1. PICK r \in Recs : new' = [new EXCEPT ![t] = r]
    BY <1>1 DEF CallInsert
  <2>2. pc'[t] = "ins_alloc" /\ op'[t] = "insert" /\ key'[t] = key[t] /\ new'[t] = r
    BY <1>1, <2>1 DEF CallInsert, Begin
  <2>3. key[t] = 0
    BY <1>1 DEF CallInsert, Begin, ArgsOK
  <2> QED BY <2>1, <2>2, <2>3 DEF ArgsOK, InsPhase, UpPhase, RowPhase, DelPhase,
       FindPhase
<1>2. CASE CallLock(t)
  <2>1. PICK i \in Slots : idx' = [idx EXCEPT ![t] = i]
    BY <1>2 DEF CallLock
  <2>2. pc'[t] = "lk_lock" /\ op'[t] = "lock" /\ key'[t] = key[t] /\ idx'[t] = i
    BY <1>2, <2>1 DEF CallLock, Begin
  <2>3. key[t] = 0
    BY <1>2 DEF CallLock, Begin, ArgsOK
  <2> QED BY <2>1, <2>2, <2>3 DEF ArgsOK, InsPhase, UpPhase, RowPhase, DelPhase,
       FindPhase
<1>3. CASE CallFind(t)
  <2>1. PICK l \in Lookups : key' = [key EXCEPT ![t] = l[1]] /\ want' = [want EXCEPT ![t] = {l[2]}]
    BY <1>3 DEF CallFind
  <2>2. pc'[t] = "fd_lock" /\ op'[t] = "find" /\ key'[t] = l[1] /\ want'[t] = {l[2]}
    BY <1>3, <2>1 DEF CallFind, Begin
  <2>3. l[1] \in KeyNos /\ l[2] \in Vals
    BY LookupsAssumption
  <2> QED BY <2>2, <2>3 DEF ArgsOK, InsPhase, UpPhase, RowPhase, DelPhase, FindPhase
<1>4. CASE CallFindNext(t)
  <2>1. pc'[t] = "fd_lock" /\ UNCHANGED <<op, key, want>>
    BY <1>4 DEF CallFindNext, argVars, walkVars
  <2>2. pc[t] = "done" /\ op[t] = "find"
    BY <1>4 DEF CallFindNext
  <2> QED BY <2>1, <2>2 DEF ArgsOK, InsPhase, UpPhase, RowPhase, DelPhase, FindPhase
<1>5. CASE Truncate(t)
  <2>1. SameLocals(t)
    BY <1>5 DEF Truncate, SameLocals, argVars, walkVars, scanVars
  <2> QED BY <2>1, ArgsFrame
<1>6. CASE InsertAlloc(t)
  <2>1. Head(free) \in Slots
    BY SMTT(30), <1>6 DEF InsertAlloc, ShareTypes
  <2>2. /\ pc'[t] = "ins_bucket" /\ idx'[t] = Head(free) /\ new'[t] = new[t] /\ key'[t] = key[t]
        /\ op'[t] = op[t]
    BY <1>6 DEF InsertAlloc, walkVars
  <2>3. new[t] \in Recs /\ key[t] = 0 /\ op[t] # "find"
    BY <1>6 DEF InsertAlloc, ArgsOK, InsPhase, UpPhase, RowPhase, DelPhase, FindPhase
  <2> QED BY <2>1, <2>2, <2>3, KeyNoFacts DEF ArgsOK, InsPhase, UpPhase, RowPhase,
       DelPhase, FindPhase
<1>7. CASE InsertFull(t)
  BY <1>7, ReturnArgs DEF InsertFull
<1>8. CASE InsertBucket(t)
  <2>1. /\ pc'[t] = "ins_walk" /\ key'[t] = key[t] /\ idx'[t] = idx[t] /\ new'[t] = new[t]
        /\ op'[t] = op[t]
    BY <1>8 DEF InsertBucket, argVars, walkVars
  <2>2. idx[t] \in Slots /\ new[t] \in Recs /\ op[t] # "find" /\ key[t] \in KeyNos
    BY <1>8 DEF InsertBucket, ArgsOK, InsPhase, UpPhase, RowPhase, DelPhase, FindPhase
  <2> QED BY <2>1, <2>2 DEF ArgsOK, InsPhase, UpPhase, RowPhase, DelPhase, FindPhase
<1>9. CASE InsertUndo(t)
  <2>1. /\ key'[t] = key[t] - 1 /\ pc'[t] = (IF key[t] = 0 THEN "ins_free" ELSE "ins_undo")
        /\ idx'[t] = idx[t] /\ new'[t] = new[t] /\ op'[t] = op[t]
    BY <1>9 DEF InsertUndo, argVars, walkVars
  <2>2. idx[t] \in Slots /\ new[t] \in Recs /\ op[t] # "find" /\ key[t] \in KeyNos
    BY <1>9 DEF InsertUndo, ArgsOK, InsPhase, UpPhase, RowPhase, DelPhase, FindPhase
  <2>3. \/ pc'[t] = "ins_undo" /\ key'[t] \in KeyNos
        \/ pc'[t] = "ins_free"
    BY <2>1, <2>2, KeyNoFacts
  <2> QED BY <2>1, <2>2, <2>3 DEF ArgsOK, InsPhase, UpPhase, RowPhase, DelPhase,
       FindPhase
<1>10. CASE LockRow(t)
  <2>1. /\ pc'[t] = "lk_held" /\ idx'[t] = idx[t] /\ key'[t] = key[t] /\ op'[t] = op[t]
        /\ old'[t] = row[idx[t]]
    BY <1>10 DEF LockRow, walkVars
  <2>2. idx[t] \in Slots /\ key[t] = 0 /\ op[t] # "find"
    BY <1>10 DEF LockRow, ArgsOK, InsPhase, UpPhase, RowPhase, DelPhase, FindPhase
  <2>3. row[idx[t]] \in Recs
    BY <2>2 DEF SlotTypes
  <2> QED BY <2>1, <2>2, <2>3 DEF ArgsOK, InsPhase, UpPhase, RowPhase, DelPhase,
       FindPhase
<1>11. CASE LockGone(t)
  BY <1>11, ReturnArgs DEF LockGone
<1>12. CASE UpdateBucket(t)
  <2>1. CASE Missing(t) = {NextLock(t)}
    <3>1. CheckKeys(t, Changed(t)) /\ pc[t] = "up_bucket" /\ UNCHANGED <<op, argVars>>
      BY <1>12, <2>1 DEF UpdateBucket
    <3> QED BY <3>1, CheckKeysArgs
  <2>2. CASE Missing(t) # {NextLock(t)}
    <3>1. SameLocals(t)
      BY <1>12, <2>2 DEF UpdateBucket, SameLocals, argVars, scanVars
    <3> QED BY <3>1, ArgsFrame
  <2> QED BY <2>1, <2>2
<1>13. CASE DeleteUnlink(t)
  <2>1. /\ key'[t] = key[t] + 1 /\ pc'[t] = (IF key[t] + 1 < keys THEN "dl_unlink" ELSE "dl_dead")
        /\ idx'[t] = idx[t] /\ old'[t] = old[t] /\ op'[t] = op[t]
    BY <1>13 DEF DeleteUnlink, argVars
  <2>2. idx[t] \in Slots /\ old[t] \in Recs /\ op[t] # "find" /\ key[t] \in KeyNos
    BY <1>13 DEF DeleteUnlink, ArgsOK, InsPhase, UpPhase, RowPhase, DelPhase, FindPhase
  <2>3. \/ pc'[t] = "dl_unlink" /\ key'[t] \in KeyNos
        \/ pc'[t] = "dl_dead"
    BY <2>1, <2>2, KeyNoFacts
  <2> QED BY <2>1, <2>2, <2>3 DEF ArgsOK, InsPhase, UpPhase, RowPhase, DelPhase,
       FindPhase
<1>14. CASE DeletePush(t)
  BY <1>14, ReturnArgs DEF DeletePush, UnlockRow
<1>15. CASE FindBucket(t)
  <2>1. pc'[t] = "fd_walk" /\ key'[t] = key[t] /\ op'[t] = op[t] /\ want'[t] = want[t]
    BY <1>15 DEF FindBucket, argVars, walkVars
  <2>2. op[t] = "find" /\ key[t] \in KeyNos /\ \E v \in Vals : want[t] = {v}
    BY <1>15 DEF FindBucket, ArgsOK, InsPhase, UpPhase, RowPhase, DelPhase, FindPhase
  <2> QED BY <2>1, <2>2 DEF ArgsOK, InsPhase, UpPhase, RowPhase, DelPhase, FindPhase
<1>16. CASE InsertWalk(t)
  <2>1. UNCHANGED <<pc, op, idx, old, new, want, key>>
    BY <1>16 DEF InsertWalk, argVars
  <2>2. Changed(t)' = Changed(t)
    BY <2>1 DEF Changed
  <2> QED BY <2>1, <2>2 DEF ArgsOK
<1>17. CASE InsertLink(t)
  <2>1. /\ key'[t] = key[t] + 1
        /\ pc'[t] = (IF key[t] + 1 < keys THEN "ins_bucket" ELSE "ins_publish")
        /\ idx'[t] = idx[t] /\ new'[t] = new[t] /\ op'[t] = op[t]
    BY <1>17 DEF InsertLink, argVars, walkVars
  <2>2. idx[t] \in Slots /\ new[t] \in Recs /\ op[t] # "find" /\ key[t] \in KeyNos
    BY <1>17 DEF InsertLink, ArgsOK, InsPhase, UpPhase, RowPhase, DelPhase, FindPhase
  <2>3. \/ pc'[t] = "ins_bucket" /\ key'[t] \in KeyNos
        \/ pc'[t] = "ins_publish" /\ key'[t] = keys
    BY <2>1, <2>2, KeyNoFacts
  <2> QED BY <2>1, <2>2, <2>3 DEF ArgsOK, InsPhase, UpPhase, RowPhase, DelPhase,
       FindPhase
<1>18. CASE InsertDup(t)
  <2>1. /\ key'[t] = key[t] - 1 /\ pc'[t] = (IF key[t] = 0 THEN "ins_free" ELSE "ins_undo")
        /\ idx'[t] = idx[t] /\ new'[t] = new[t] /\ op'[t] = op[t]
    BY <1>18 DEF InsertDup, argVars, walkVars
  <2>2. idx[t] \in Slots /\ new[t] \in Recs /\ op[t] # "find" /\ key[t] \in KeyNos
    BY <1>18 DEF InsertDup, ArgsOK, InsPhase, UpPhase, RowPhase, DelPhase, FindPhase
  <2>3. \/ pc'[t] = "ins_undo" /\ key'[t] \in KeyNos
        \/ pc'[t] = "ins_free"
    BY <2>1, <2>2, KeyNoFacts
  <2> QED BY <2>1, <2>2, <2>3 DEF ArgsOK, InsPhase, UpPhase, RowPhase, DelPhase,
       FindPhase
<1>19. CASE InsertFree(t)
  BY <1>19, ReturnArgs DEF InsertFree
<1>20. CASE InsertPublish(t)
  BY <1>20, ReturnArgs DEF InsertPublish
<1>21. CASE Skip(t)
  BY <1>21, ReturnArgs DEF Skip, UnlockRow
<1>22. CASE Update(t)
  <2>1. PICK r \in Recs : new' = [new EXCEPT ![t] = r]
    BY <1>22 DEF Update
  <2>2. /\ pc'[t] = (IF r = old[t] THEN "up_write" ELSE "up_bucket") /\ key'[t] = key[t]
        /\ new'[t] = r
        /\ idx'[t] = idx[t] /\ old'[t] = old[t] /\ op'[t] = op[t]
    BY <1>22, <2>1 DEF Update, walkVars
  <2>3. idx[t] \in Slots /\ old[t] \in Recs /\ op[t] # "find" /\ key[t] = 0
    BY <1>22 DEF Update, ArgsOK, InsPhase, UpPhase, RowPhase, DelPhase, FindPhase
  <2>4. r = old[t] => Changed(t)' = {}
    BY <2>2 DEF Changed
  <2>5. r # old[t] => Changed(t)' # {}
    <3>1. r \in [KeyNos -> Vals] /\ old[t] \in [KeyNos -> Vals]
      BY <2>1, <2>3, RecsAssumption
    <3>2. (\A k \in KeyNos : r[k] = old[t][k]) => r = old[t]
      BY SMTT(30), <3>1
    <3> QED BY <2>2, <3>2 DEF Changed
  <2>6. \/ pc'[t] = "up_write" /\ Changed(t)' = {}
        \/ pc'[t] = "up_bucket" /\ Changed(t)' # {} /\ key'[t] = 0
    BY <2>2, <2>3, <2>4, <2>5
  <2> QED BY <2>1, <2>2, <2>3, <2>6 DEF ArgsOK, InsPhase, UpPhase, RowPhase, DelPhase,
       FindPhase
<1>23. CASE UpdateWalk(t)
  <2>1. UNCHANGED <<pc, op, idx, old, new, want, key>>
    BY <1>23 DEF UpdateWalk, argVars
  <2>2. Changed(t)' = Changed(t)
    BY <2>1 DEF Changed
  <2> QED BY <2>1, <2>2 DEF ArgsOK
<1>24. CASE UpdateChecked(t)
  <2>1. /\ CheckKeys(t, After(Changed(t), key[t])) /\ pc[t] = "up_walk" /\ UNCHANGED <<op, argVars>>
        /\ After(Changed(t), key[t]) \subseteq Changed(t)
    BY <1>24 DEF UpdateChecked, After
  <2> QED BY <2>1, CheckKeysArgs
<1>25. CASE UpdateDup(t)
  BY <1>25, ReturnArgs DEF UpdateDup, UnlockRow
<1>26. CASE UpdateWrite(t)
  <2>1. CASE Changed(t) = {}
    BY <1>26, <2>1, ReturnArgs DEF UpdateWrite, UnlockRow
  <2>2. CASE Changed(t) # {}
    <3>1. /\ pc'[t] = "up_relink" /\ key'[t] = key[t] /\ new'[t] = new[t]
          /\ idx'[t] = idx[t] /\ old'[t] = old[t] /\ op'[t] = op[t]
      BY <1>26, <2>2 DEF UpdateWrite, argVars, walkVars
    <3>2. /\ idx[t] \in Slots /\ old[t] \in Recs /\ new[t] \in Recs /\ op[t] # "find"
          /\ key[t] \in Changed(t)
      BY <1>26, <2>2 DEF UpdateWrite, ArgsOK, InsPhase, UpPhase, RowPhase, DelPhase,
         FindPhase
    <3>3. Changed(t)' = Changed(t)
      BY <3>1, LockSetSame
    <3> QED BY <3>1, <3>2, <3>3 DEF ArgsOK, InsPhase, UpPhase, RowPhase, DelPhase,
         FindPhase
  <2> QED BY <2>1, <2>2
<1>27. CASE UpdateRelink(t)
  <2> DEFINE rest == After(Changed(t), key[t])
  <2>1. CASE rest = {}
    BY <1>27, <2>1, ReturnArgs DEF UpdateRelink, UnlockRow
  <2>2. CASE rest # {}
    <3>1. key' = [key EXCEPT ![t] = FirstOf(rest)] /\ UNCHANGED <<pc, op, argVars>>
      BY <1>27, <2>2 DEF UpdateRelink
    <3>2. /\ pc'[t] = "up_relink" /\ key'[t] = FirstOf(rest) /\ new'[t] = new[t]
          /\ idx'[t] = idx[t] /\ old'[t] = old[t] /\ op'[t] = op[t]
      BY <1>27, <3>1 DEF UpdateRelink, argVars
    <3>3. idx[t] \in Slots /\ old[t] \in Recs /\ new[t] \in Recs /\ op[t] # "find"
      BY <1>27 DEF UpdateRelink, ArgsOK, InsPhase, UpPhase, RowPhase, DelPhase, FindPhase
    <3>4. Changed(t)' = Changed(t)
      BY <3>2, LockSetSame
    <3>5. FirstOf(rest) \in Changed(t)
      BY <2>2, FirstOfFacts, LockSetFacts DEF After
    <3> QED BY <3>2, <3>3, <3>4, <3>5 DEF ArgsOK, InsPhase, UpPhase, RowPhase, DelPhase,
         FindPhase
  <2> QED BY <2>1, <2>2
<1>28. CASE Delete(t)
  <2>1. /\ pc'[t] = "dl_unlink" /\ key'[t] = key[t] /\ idx'[t] = idx[t] /\ old'[t] = old[t]
        /\ op'[t] = op[t]
    BY <1>28 DEF Delete, argVars, walkVars
  <2>2. idx[t] \in Slots /\ old[t] \in Recs /\ op[t] # "find" /\ key[t] = 0
    BY <1>28 DEF Delete, ArgsOK, InsPhase, UpPhase, RowPhase, DelPhase, FindPhase
  <2> QED BY <2>1, <2>2, KeyNoFacts DEF ArgsOK, InsPhase, UpPhase, RowPhase, DelPhase,
       FindPhase
<1>29. CASE DeleteDead(t)
  <2>1. pc'[t] = "dl_push" /\ idx'[t] = idx[t] /\ old'[t] = old[t] /\ op'[t] = op[t]
    BY <1>29 DEF DeleteDead, argVars, walkVars
  <2>2. idx[t] \in Slots /\ old[t] \in Recs /\ op[t] # "find"
    BY <1>29 DEF DeleteDead, ArgsOK, InsPhase, UpPhase, RowPhase, DelPhase, FindPhase
  <2> QED BY <2>1, <2>2 DEF ArgsOK, InsPhase, UpPhase, RowPhase, DelPhase, FindPhase
<1>30. CASE FindStep(t)
  <2>1. UNCHANGED <<pc, op, idx, old, new, want, key>>
    BY <1>30 DEF FindStep, argVars
  <2>2. Changed(t)' = Changed(t)
    BY <2>1 DEF Changed
  <2> QED BY <2>1, <2>2 DEF ArgsOK
<1>31. CASE FindHit(t)
  <2>1. pc'[t] = "done" /\ key'[t] = key[t] /\ op'[t] = op[t] /\ want'[t] = want[t]
    BY <1>31 DEF FindHit, argVars, walkVars, Answer
  <2>2. op[t] = "find" /\ key[t] \in KeyNos /\ \E v \in Vals : want[t] = {v}
    BY <1>31 DEF FindHit, ArgsOK, InsPhase, UpPhase, RowPhase, DelPhase, FindPhase
  <2> QED BY <2>1, <2>2 DEF ArgsOK, InsPhase, UpPhase, RowPhase, DelPhase, FindPhase
<1>32. CASE FindMiss(t)
  <2>1. pc'[t] = "done" /\ key'[t] = key[t] /\ op'[t] = op[t] /\ want'[t] = want[t]
    BY <1>32 DEF FindMiss, argVars, walkVars, Answer
  <2>2. op[t] = "find" /\ key[t] \in KeyNos /\ \E v \in Vals : want[t] = {v}
    BY <1>32 DEF FindMiss, ArgsOK, InsPhase, UpPhase, RowPhase, DelPhase, FindPhase
  <2> QED BY <2>1, <2>2 DEF ArgsOK, InsPhase, UpPhase, RowPhase, DelPhase, FindPhase
<1>33. CASE EndFind(t)
  BY <1>33, ReturnArgs DEF EndFind
<1> QED BY StepCases, <1>1, <1>2, <1>3, <1>4, <1>5, <1>6, <1>7, <1>8, <1>9, <1>10, <1>11,
     <1>12, <1>13, <1>14, <1>15, <1>16, <1>17, <1>18, <1>19, <1>20, <1>21, <1>22, <1>23, <1>24,
     <1>25, <1>26, <1>27, <1>28, <1>29, <1>30, <1>31, <1>32, <1>33

-----------------------------------------------------------------------------
(* The locks of the thread that takes the step.                            *)

LEMMA MutexStep ==
    ASSUME Types, NEW t \in Threads, Step(t), MutexOK(t)
    PROVE  MutexOK(t)'
<1> USE DEF Types, LocalTypes, Goto, MutexOK, InsPhase
<1>1. CASE CallInsert(t)
  BY <1>1 DEF CallInsert, Begin
<1>2. CASE CallLock(t)
  BY <1>2 DEF CallLock, Begin
<1>3. CASE CallFind(t)
  BY <1>3 DEF CallFind, Begin
<1>4. CASE CallFindNext(t)
  BY <1>4 DEF CallFindNext
<1>5. CASE Truncate(t)
  BY <1>5 DEF Truncate
<1>6. CASE InsertAlloc(t)
  BY <1>6 DEF InsertAlloc
<1>7. CASE InsertFull(t)
  BY <1>7, ReturnFacts DEF InsertFull
<1>8. CASE InsertBucket(t)
  BY <1>8 DEF InsertBucket
<1>9. CASE InsertUndo(t)
  BY <1>9 DEF InsertUndo
<1>10. CASE LockRow(t)
  BY <1>10 DEF LockRow
<1>11. CASE LockGone(t)
  BY <1>11, ReturnFacts DEF LockGone
<1>12. CASE UpdateBucket(t)
  <2>1. pc'[t] \in {"up_bucket", "up_walk", "up_write"}
    BY <1>12 DEF UpdateBucket, CheckKeys
  <2> QED BY <1>12, <2>1 DEF UpdateBucket
<1>13. CASE DeleteUnlink(t)
  BY <1>13 DEF DeleteUnlink
<1>14. CASE DeletePush(t)
  BY <1>14, ReturnFacts DEF DeletePush, UnlockRow
<1>15. CASE FindBucket(t)
  BY <1>15 DEF FindBucket
<1>16. CASE InsertWalk(t)
  BY <1>16 DEF InsertWalk
<1>17. CASE InsertLink(t)
  BY <1>17 DEF InsertLink
<1>18. CASE InsertDup(t)
  BY <1>18 DEF InsertDup
<1>19. CASE InsertFree(t)
  BY <1>19, ReturnFacts, TypeFacts DEF InsertFree
<1>20. CASE InsertPublish(t)
  BY <1>20, ReturnFacts, TypeFacts DEF InsertPublish
<1>21. CASE Skip(t)
  BY <1>21, ReturnFacts DEF Skip, UnlockRow
<1>22. CASE Update(t)
  BY <1>22 DEF Update
<1>23. CASE UpdateWalk(t)
  BY <1>23 DEF UpdateWalk
<1>24. CASE UpdateChecked(t)
  BY <1>24 DEF UpdateChecked, CheckKeys
<1>25. CASE UpdateDup(t)
  BY <1>25, ReturnFacts DEF UpdateDup, UnlockRow
<1>26. CASE UpdateWrite(t)
  <2>1. pc'[t] = "idle" \/ pc'[t] = "up_relink"
    BY <1>26, ReturnFacts DEF UpdateWrite, UnlockRow
  <2>2. pc[t] \in {"up_write", "up_relink"} /\ struct_mutex' = struct_mutex
    BY <1>26 DEF UpdateWrite
  <2> QED BY <2>1, <2>2
<1>27. CASE UpdateRelink(t)
  <2>1. pc'[t] = "idle" \/ pc'[t] = "up_relink"
    BY <1>27, ReturnFacts DEF UpdateRelink, UnlockRow
  <2>2. pc[t] \in {"up_write", "up_relink"} /\ struct_mutex' = struct_mutex
    BY <1>27 DEF UpdateRelink
  <2> QED BY <2>1, <2>2
<1>28. CASE Delete(t)
  BY <1>28 DEF Delete
<1>29. CASE DeleteDead(t)
  BY <1>29 DEF DeleteDead
<1>30. CASE FindStep(t)
  BY <1>30 DEF FindStep
<1>31. CASE FindHit(t)
  BY <1>31 DEF FindHit, Answer
<1>32. CASE FindMiss(t)
  BY <1>32 DEF FindMiss, Answer
<1>33. CASE EndFind(t)
  BY <1>33, ReturnFacts DEF EndFind
<1> QED BY StepCases, <1>1, <1>2, <1>3, <1>4, <1>5, <1>6, <1>7, <1>8, <1>9, <1>10, <1>11,
     <1>12, <1>13, <1>14, <1>15, <1>16, <1>17, <1>18, <1>19, <1>20, <1>21, <1>22, <1>23, <1>24,
     <1>25, <1>26, <1>27, <1>28, <1>29, <1>30, <1>31, <1>32, <1>33

\* A statement that keeps its row, one that releases it, and one without a row.
LEMMA WlockKept ==
    ASSUME NEW t \in Threads, WlockOK(t), wlock' = wlock,
           pc[t] \in RowPhase <=> pc'[t] \in RowPhase,
           pc[t] \in RowPhase => idx'[t] = idx[t]
    PROVE  WlockOK(t)'
BY DEF WlockOK

LEMMA WlockReleased ==
    ASSUME SlotTypes, LocalTypes, NEW t \in Threads, WlockOK(t), pc[t] \in RowPhase, UnlockRow(t)
    PROVE  WlockOK(t)'
<1>1. pc'[t] = "idle" /\ t # NoThread /\ wlock' = [wlock EXCEPT ![idx[t]] = NoThread]
  BY ReturnFacts, TypeFacts DEF UnlockRow
<1>2. pc'[t] \notin RowPhase
  BY <1>1 DEF RowPhase, UpPhase, DelPhase
<1>3. \A i \in Slots : wlock'[i] # t
  <2> TAKE i \in Slots
  <2>1. CASE i = idx[t]
    BY <1>1, <2>1 DEF SlotTypes
  <2>2. CASE i # idx[t]
    BY <1>1, <2>2 DEF SlotTypes, WlockOK
  <2> QED BY <2>1, <2>2
<1> QED BY <1>2, <1>3 DEF WlockOK

LEMMA WlockStep ==
    ASSUME Types, NEW t \in Threads, Step(t), ArgsOK(t), WlockOK(t)
    PROVE  WlockOK(t)'
<1> USE DEF Types, LocalTypes, Goto
<1>1. CASE CallInsert(t)
  BY <1>1, WlockKept DEF CallInsert, Begin, RowPhase, UpPhase, DelPhase, slotVars,
     argVars
<1>2. CASE CallLock(t)
  BY <1>2, WlockKept DEF CallLock, Begin, RowPhase, UpPhase, DelPhase, slotVars, argVars
<1>3. CASE CallFind(t)
  BY <1>3, WlockKept DEF CallFind, Begin, RowPhase, UpPhase, DelPhase, slotVars, argVars
<1>4. CASE CallFindNext(t)
  BY <1>4, WlockKept DEF CallFindNext, RowPhase, UpPhase, DelPhase, slotVars, argVars
<1>5. CASE Truncate(t)
  BY <1>5, WlockKept DEF Truncate, RowPhase, UpPhase, DelPhase, slotVars, argVars
<1>6. CASE InsertAlloc(t)
  BY <1>6, WlockKept DEF InsertAlloc, RowPhase, UpPhase, DelPhase, slotVars, argVars
<1>7. CASE InsertFull(t)
  BY <1>7, WlockKept, ReturnFacts DEF InsertFull, RowPhase, UpPhase, DelPhase, slotVars
<1>8. CASE InsertBucket(t)
  BY <1>8, WlockKept DEF InsertBucket, RowPhase, UpPhase, DelPhase, slotVars, argVars
<1>9. CASE InsertUndo(t)
  <2>1. pc'[t] \in {"ins_free", "ins_undo"}
    BY <1>9 DEF InsertUndo
  <2> QED BY <1>9, <2>1, WlockKept DEF InsertUndo, RowPhase, UpPhase, DelPhase, slotVars
<1>10. CASE LockRow(t)
  <2>1. /\ wlock' = [wlock EXCEPT ![idx[t]] = t] /\ pc'[t] = "lk_held" /\ idx'[t] = idx[t]
        /\ idx[t] \in Slots /\ pc[t] = "lk_lock"
    BY <1>10 DEF LockRow, ArgsOK
  <2>2. pc'[t] \in RowPhase /\ pc[t] \notin RowPhase
    BY <2>1 DEF RowPhase, UpPhase, DelPhase
  <2>3. \A i \in Slots : wlock'[i] = t <=> idx[t] = i
    <3> TAKE i \in Slots
    <3>1. CASE i = idx[t]
      BY <2>1, <3>1 DEF SlotTypes
    <3>2. CASE i # idx[t]
      BY <2>1, <2>2, <3>2 DEF SlotTypes, WlockOK
    <3> QED BY <3>1, <3>2
  <2> QED BY <2>1, <2>2, <2>3 DEF WlockOK
<1>11. CASE LockGone(t)
  BY <1>11, WlockKept, ReturnFacts DEF LockGone, RowPhase, UpPhase, DelPhase, slotVars
<1>12. CASE UpdateBucket(t)
  <2>1. pc'[t] \in {"up_bucket", "up_walk", "up_write"}
    BY <1>12 DEF UpdateBucket, CheckKeys
  <2> QED BY <1>12, <2>1, WlockKept DEF UpdateBucket, RowPhase, UpPhase, slotVars,
       argVars
<1>13. CASE DeleteUnlink(t)
  <2>1. pc'[t] \in {"dl_unlink", "dl_dead"}
    BY <1>13 DEF DeleteUnlink
  <2> QED BY <1>13, <2>1, WlockKept DEF DeleteUnlink, RowPhase, DelPhase, slotVars,
       argVars
<1>14. CASE DeletePush(t)
  BY <1>14, WlockReleased DEF DeletePush, RowPhase, UpPhase, DelPhase
<1>15. CASE FindBucket(t)
  BY <1>15, WlockKept DEF FindBucket, RowPhase, UpPhase, DelPhase, slotVars, argVars
<1>16. CASE InsertWalk(t)
  BY <1>16, WlockKept DEF InsertWalk, RowPhase, UpPhase, DelPhase, slotVars, argVars
<1>17. CASE InsertLink(t)
  <2>1. pc'[t] \in {"ins_bucket", "ins_publish"}
    BY <1>17 DEF InsertLink
  <2> QED BY <1>17, <2>1, WlockKept DEF InsertLink, RowPhase, UpPhase, DelPhase, slotVars
<1>18. CASE InsertDup(t)
  <2>1. pc'[t] \in {"ins_free", "ins_undo"}
    BY <1>18 DEF InsertDup
  <2> QED BY <1>18, <2>1, WlockKept DEF InsertDup, RowPhase, UpPhase, DelPhase, slotVars
<1>19. CASE InsertFree(t)
  BY <1>19, WlockKept, ReturnFacts DEF InsertFree, RowPhase, UpPhase, DelPhase, slotVars
<1>20. CASE InsertPublish(t)
  BY <1>20, WlockKept, ReturnFacts DEF InsertPublish, RowPhase, UpPhase, DelPhase,
     slotVars
<1>21. CASE Skip(t)
  BY <1>21, WlockReleased DEF Skip, RowPhase, UpPhase, DelPhase
<1>22. CASE Update(t)
  <2>1. pc'[t] \in {"up_write", "up_bucket"}
    BY <1>22 DEF Update
  <2> QED BY <1>22, <2>1, WlockKept DEF Update, RowPhase, UpPhase, slotVars
<1>23. CASE UpdateWalk(t)
  BY <1>23, WlockKept DEF UpdateWalk, RowPhase, UpPhase, DelPhase, slotVars, argVars
<1>24. CASE UpdateChecked(t)
  <2>1. pc'[t] \in {"up_walk", "up_write"}
    BY <1>24 DEF UpdateChecked, CheckKeys
  <2> QED BY <1>24, <2>1, WlockKept DEF UpdateChecked, RowPhase, UpPhase, slotVars,
       argVars
<1>25. CASE UpdateDup(t)
  BY <1>25, WlockReleased DEF UpdateDup, RowPhase, UpPhase, DelPhase
<1>26. CASE UpdateWrite(t)
  <2>1. CASE Changed(t) = {}
    BY <1>26, <2>1, WlockReleased DEF UpdateWrite, RowPhase, UpPhase
  <2>2. CASE Changed(t) # {}
    BY <1>26, <2>2, WlockKept DEF UpdateWrite, RowPhase, UpPhase, argVars
  <2> QED BY <2>1, <2>2
<1>27. CASE UpdateRelink(t)
  <2>1. UnlockRow(t) \/ (UNCHANGED <<wlock, pc, idx>>)
    BY <1>27 DEF UpdateRelink, argVars
  <2>2. pc[t] \in RowPhase
    BY <1>27 DEF UpdateRelink, RowPhase, UpPhase
  <2> QED BY <2>1, <2>2, WlockReleased, WlockKept
<1>28. CASE Delete(t)
  BY <1>28, WlockKept DEF Delete, RowPhase, UpPhase, DelPhase, slotVars, argVars
<1>29. CASE DeleteDead(t)
  BY <1>29, WlockKept DEF DeleteDead, RowPhase, UpPhase, DelPhase, slotVars, argVars
<1>30. CASE FindStep(t)
  BY <1>30, WlockKept DEF FindStep, RowPhase, UpPhase, DelPhase, slotVars, argVars
<1>31. CASE FindHit(t)
  BY <1>31, WlockKept DEF FindHit, Answer, RowPhase, UpPhase, DelPhase, slotVars, argVars
<1>32. CASE FindMiss(t)
  BY <1>32, WlockKept DEF FindMiss, Answer, RowPhase, UpPhase, DelPhase, slotVars,
     argVars
<1>33. CASE EndFind(t)
  BY <1>33, WlockKept, ReturnFacts DEF EndFind, RowPhase, UpPhase, DelPhase, slotVars
<1> QED BY StepCases, <1>1, <1>2, <1>3, <1>4, <1>5, <1>6, <1>7, <1>8, <1>9, <1>10, <1>11,
     <1>12, <1>13, <1>14, <1>15, <1>16, <1>17, <1>18, <1>19, <1>20, <1>21, <1>22, <1>23, <1>24,
     <1>25, <1>26, <1>27, <1>28, <1>29, <1>30, <1>31, <1>32, <1>33

\* Steps at which a thread holds a bucket lock.
HoldPhase == {"ins_walk", "fd_walk"} \cup UpPhase

\* A thread without bucket locks before and after the step.
LEMMA BlockQuiet ==
    ASSUME NEW t \in Threads, BlockOK(t), block' = block, pc[t] \notin HoldPhase,
           pc'[t] \notin HoldPhase
    PROVE  BlockOK(t)'
BY DEF BlockOK, HoldsBucket, HoldPhase

\* A thread that keeps the bucket locks it has.
LEMMA BlockKept ==
    ASSUME NEW t \in Threads, BlockOK(t), block' = block, pc[t] # "up_bucket",
           \A k \in KeyNos : \A b \in Buckets : HoldsBucket(t, k, b)' <=> HoldsBucket(t, k, b)
    PROVE  BlockOK(t)'
BY DEF BlockOK

\* Thread t holds the lock of bucket b of key k at most.
OnlyHolds(t, k, b) == \A j \in KeyNos : \A c \in Buckets : HoldsBucket(t, j, c) => j = k /\ c = b

\* A walk takes its bucket lock.
LEMMA BlockTaken ==
    ASSUME ChainTypes, NEW t \in Threads, BlockOK(t), pc[t] \notin HoldPhase,
           NEW k \in KeyNos, NEW b \in Buckets, Lock(t, k, b),
           OnlyHolds(t, k, b)', HoldsBucket(t, k, b)'
    PROVE  BlockOK(t)'
<1>1. \A j \in KeyNos : \A c \in Buckets : block[j][c] # t
  BY DEF BlockOK, HoldsBucket, HoldPhase
<1>2. Put(k, b, t)
  BY BlockPut
<1>3. ASSUME NEW j \in KeyNos, NEW c \in Buckets
      PROVE  block'[j][c] = t <=> HoldsBucket(t, j, c)'
  <2>1. CASE j = k /\ c = b
    BY <1>2, <2>1 DEF Put
  <2>2. CASE ~(j = k /\ c = b)
    <3>1. block'[j][c] # t
      BY <1>1, <1>2, <2>2 DEF Put
    <3> QED BY <2>2, <3>1 DEF OnlyHolds
  <2> QED BY <2>1, <2>2
<1> QED BY <1>3 DEF BlockOK

\* A walk releases it.
LEMMA BlockReleased ==
    ASSUME ChainTypes, NEW t \in Threads, BlockOK(t), pc'[t] \notin HoldPhase,
           NEW k \in KeyNos, NEW b \in Buckets, Unlock(k, b), OnlyHolds(t, k, b)
    PROVE  BlockOK(t)'
<1>1. \A j \in KeyNos : \A c \in Buckets : block[j][c] = t => j = k /\ c = b
  BY DEF BlockOK, OnlyHolds
<1>2. Put(k, b, NoThread) /\ t # NoThread
  BY BlockPut, TypeFacts
<1>3. ASSUME NEW j \in KeyNos, NEW c \in Buckets PROVE block'[j][c] # t
  <2>1. CASE j = k /\ c = b
    BY <1>2, <2>1 DEF Put
  <2>2. CASE ~(j = k /\ c = b)
    BY <1>1, <1>2, <2>2 DEF Put
  <2> QED BY <2>1, <2>2
<1> QED BY <1>3 DEF BlockOK, HoldsBucket, HoldPhase

\* An update releases them all.
LEMMA AllReleased ==
    ASSUME ChainTypes, NEW t \in Threads, BlockOK(t), pc[t] \in UpPhase, pc'[t] \notin HoldPhase,
           UnlockAll(t)
    PROVE  BlockOK(t)'
<1>1. \A j \in KeyNos : \A c \in Buckets : block[j][c] = t => <<j, c>> \in LockSet(t)
  BY DEF BlockOK, HoldsBucket, UpPhase
<1>2. ASSUME NEW j \in KeyNos, NEW c \in Buckets PROVE block'[j][c] # t
  <2>1. CASE <<j, c>> \in LockSet(t)
    <3>1. block'[j][c] = NoThread
      BY <2>1, UnlockAllFacts
    <3> QED BY <3>1, TypeFacts
  <2>2. CASE <<j, c>> \notin LockSet(t)
    BY <1>1, <2>2, UnlockAllFacts
  <2> QED BY <2>1, <2>2
<1> QED BY <1>2 DEF BlockOK, HoldsBucket, HoldPhase

LEMMA BlockStep ==
    ASSUME WellOrdered, Types, NEW t \in Threads, Step(t), ArgsOK(t), LockOK(t), BlockOK(t)
    PROVE  BlockOK(t)'
<1> USE DEF Types, LocalTypes, Goto
<1>1. CASE CallInsert(t)
  BY <1>1, BlockQuiet DEF CallInsert, Begin, HoldPhase, UpPhase
<1>2. CASE CallLock(t)
  BY <1>2, BlockQuiet DEF CallLock, Begin, HoldPhase, UpPhase
<1>3. CASE CallFind(t)
  BY <1>3, BlockQuiet DEF CallFind, Begin, HoldPhase, UpPhase
<1>4. CASE CallFindNext(t)
  BY <1>4, BlockQuiet DEF CallFindNext, HoldPhase, UpPhase
<1>5. CASE Truncate(t)
  BY <1>5, BlockQuiet DEF Truncate, HoldPhase, UpPhase
<1>6. CASE InsertAlloc(t)
  BY <1>6, BlockQuiet DEF InsertAlloc, HoldPhase, UpPhase
<1>7. CASE InsertFull(t)
  BY <1>7, BlockQuiet, ReturnFacts DEF InsertFull, HoldPhase, UpPhase
<1>8. CASE InsertBucket(t)
  <2>1. key[t] \in KeyNos /\ NewBucket(t) \in Buckets /\ Lock(t, key[t], NewBucket(t))
    BY <1>8, InsArgs DEF InsertBucket, FindPhase
  <2>2. pc'[t] = "ins_walk" /\ key'[t] = key[t] /\ NewBucket(t)' = NewBucket(t)
    BY <1>8 DEF InsertBucket, argVars, NewBucket
  <2>3. PICK k \in KeyNos, b \in Buckets : k = key[t] /\ b = NewBucket(t)
    BY <2>1
  <2>4. pc[t] \notin HoldPhase
    BY <1>8 DEF InsertBucket, HoldPhase, UpPhase
  <2>5. OnlyHolds(t, k, b)' /\ HoldsBucket(t, k, b)' /\ Lock(t, k, b)
    BY <2>1, <2>2, <2>3 DEF HoldsBucket, OnlyHolds, UpPhase
  <2> QED BY <2>4, <2>5, BlockTaken
<1>9. CASE InsertUndo(t)
  <2>1. pc'[t] \in {"ins_free", "ins_undo"}
    BY <1>9 DEF InsertUndo
  <2> QED BY <1>9, <2>1, BlockQuiet DEF InsertUndo, HoldPhase, UpPhase
<1>10. CASE LockRow(t)
  BY <1>10, BlockQuiet DEF LockRow, HoldPhase, UpPhase
<1>11. CASE LockGone(t)
  BY <1>11, BlockQuiet, ReturnFacts DEF LockGone, HoldPhase, UpPhase
<1>12. CASE UpdateBucket(t)
  <2>1. /\ pc[t] = "up_bucket" /\ pc'[t] \in {"up_bucket", "up_walk", "up_write"}
        /\ UNCHANGED <<old, new>>
        /\ Lock(t, NextLock(t)[1], NextLock(t)[2])
        /\ Missing(t) # {NextLock(t)} => pc'[t] = "up_bucket"
    BY <1>12 DEF UpdateBucket, CheckKeys, argVars
  <2>2. /\ NextLock(t) \in Missing(t) /\ NextLock(t) \in KeyNos \X Buckets
        /\ NextLock(t) \in LockSet(t)
    BY <2>1, UpArgs, NextLockFacts DEF UpPhase, LockOK, OrderOK, Missing
  <2> DEFINE k == NextLock(t)[1]
             b == NextLock(t)[2]
  <2>3. k \in KeyNos /\ b \in Buckets /\ NextLock(t) = <<k, b>>
    BY SMTT(30), <2>2
  <2>4. Put(k, b, t)
    BY <2>1, <2>3, BlockPut
  <2>5. LockSet(t)' = LockSet(t)
    BY <2>1, LockSetSame
  <2>6. \A j \in KeyNos : \A c \in Buckets : HoldsBucket(t, j, c)' <=> <<j, c>> \in LockSet(t)
    BY <2>1, <2>5 DEF HoldsBucket, UpPhase
  <2>7. \A j \in KeyNos : \A c \in Buckets : block[j][c] = t => <<j, c>> \in LockSet(t)
    BY <2>1 DEF LockOK, BlockOK, HoldsBucket, UpPhase
  <2>8. ASSUME pc'[t] # "up_bucket", NEW j \in KeyNos, NEW c \in Buckets, <<j, c>> \in LockSet(t)
        PROVE  block'[j][c] = t
    <3>1. CASE <<j, c>> \in Missing(t)
      <4>1. <<j, c>> = <<k, b>>
        BY <2>1, <2>3, <2>8, <3>1
      <4>2. j = k /\ c = b
        BY <4>1
      <4> QED BY <2>4, <4>2 DEF Put
    <3>2. CASE <<j, c>> \notin Missing(t)
      <4>1. block[j][c] = t
        BY <2>8, <3>2 DEF Missing
      <4> QED BY <2>3, <2>4, <4>1 DEF Put
    <3> QED BY <3>1, <3>2
  <2>9. ASSUME NEW j \in KeyNos, NEW c \in Buckets, block'[j][c] = t
        PROVE  <<j, c>> \in LockSet(t)
    <3>1. CASE j = k /\ c = b
      BY <2>2, <2>3, <3>1
    <3>2. CASE ~(j = k /\ c = b)
      <4>1. j # k \/ c # b
        BY <3>2
      <4>2. block[j][c] = t
        BY <2>4, <2>9, <4>1 DEF Put
      <4> QED BY <2>7, <4>2
    <3> QED BY <3>1, <3>2
  <2> HIDE DEF k, b
  <2> QED BY <2>6, <2>8, <2>9 DEF BlockOK
<1>13. CASE DeleteUnlink(t)
  <2>1. pc'[t] \in {"dl_unlink", "dl_dead"}
    BY <1>13 DEF DeleteUnlink
  <2> QED BY <1>13, <2>1, BlockQuiet DEF DeleteUnlink, HoldPhase, UpPhase
<1>14. CASE DeletePush(t)
  BY <1>14, BlockQuiet, ReturnFacts DEF DeletePush, UnlockRow, HoldPhase, UpPhase
<1>15. CASE FindBucket(t)
  <2>1. key[t] \in KeyNos /\ WantBucket(t) \in Buckets /\ Lock(t, key[t], WantBucket(t))
    BY <1>15, FindArgs DEF FindBucket, FindPhase
  <2>2. pc'[t] = "fd_walk" /\ key'[t] = key[t] /\ WantBucket(t)' = WantBucket(t)
    BY <1>15 DEF FindBucket, argVars, WantBucket
  <2>3. PICK k \in KeyNos, b \in Buckets : k = key[t] /\ b = WantBucket(t)
    BY <2>1
  <2>4. pc[t] \notin HoldPhase
    BY <1>15 DEF FindBucket, HoldPhase, UpPhase
  <2>5. OnlyHolds(t, k, b)' /\ HoldsBucket(t, k, b)' /\ Lock(t, k, b)
    BY <2>1, <2>2, <2>3 DEF HoldsBucket, OnlyHolds, UpPhase
  <2> QED BY <2>4, <2>5, BlockTaken
<1>16. CASE InsertWalk(t)
  <2>1. UNCHANGED <<pc, old, new, want, key, block>> /\ pc[t] # "up_bucket"
    BY <1>16 DEF InsertWalk, argVars
  <2>2. LockSet(t)' = LockSet(t) /\ NewBucket(t)' = NewBucket(t) /\ WantBucket(t)' = WantBucket(t)
    BY <2>1, LockSetSame DEF NewBucket, WantBucket
  <2>3. \A k \in KeyNos : \A b \in Buckets : HoldsBucket(t, k, b)' <=> HoldsBucket(t, k, b)
    BY <2>1, <2>2 DEF HoldsBucket
  <2> QED BY <2>1, <2>3, BlockKept
<1>17. CASE InsertLink(t)
  <2>1. key[t] \in KeyNos /\ NewBucket(t) \in Buckets /\ Unlock(key[t], NewBucket(t))
    BY <1>17, InsArgs DEF InsertLink, FindPhase
  <2>2. pc'[t] \in {"ins_bucket", "ins_publish"} /\ pc[t] = "ins_walk"
    BY <1>17 DEF InsertLink, Answer
  <2>3. OnlyHolds(t, key[t], NewBucket(t))
    BY <2>2 DEF HoldsBucket, OnlyHolds, UpPhase
  <2>4. pc'[t] \notin HoldPhase
    BY <2>2 DEF HoldPhase, UpPhase
  <2> QED BY <2>1, <2>3, <2>4, BlockReleased
<1>18. CASE InsertDup(t)
  <2>1. key[t] \in KeyNos /\ NewBucket(t) \in Buckets /\ Unlock(key[t], NewBucket(t))
    BY <1>18, InsArgs DEF InsertDup, FindPhase
  <2>2. pc'[t] \in {"ins_free", "ins_undo"} /\ pc[t] = "ins_walk"
    BY <1>18 DEF InsertDup, Answer
  <2>3. OnlyHolds(t, key[t], NewBucket(t))
    BY <2>2 DEF HoldsBucket, OnlyHolds, UpPhase
  <2>4. pc'[t] \notin HoldPhase
    BY <2>2 DEF HoldPhase, UpPhase
  <2> QED BY <2>1, <2>3, <2>4, BlockReleased
<1>19. CASE InsertFree(t)
  BY <1>19, BlockQuiet, ReturnFacts DEF InsertFree, HoldPhase, UpPhase
<1>20. CASE InsertPublish(t)
  BY <1>20, BlockQuiet, ReturnFacts DEF InsertPublish, HoldPhase, UpPhase
<1>21. CASE Skip(t)
  BY <1>21, BlockQuiet, ReturnFacts DEF Skip, UnlockRow, HoldPhase, UpPhase
<1>22. CASE Update(t)
  <2>1. pc'[t] \in {"up_write", "up_bucket"} /\ block' = block /\ pc[t] = "lk_held" /\ old' = old
    BY <1>22 DEF Update
  <2>2. \A k \in KeyNos : \A b \in Buckets : block'[k][b] # t
    BY <2>1 DEF BlockOK, HoldsBucket, UpPhase
  <2>3. \A k \in KeyNos : \A b \in Buckets : HoldsBucket(t, k, b)' => pc'[t] = "up_bucket"
    <3>1. CASE pc'[t] = "up_write"
      <4>1. Changed(t)' = {}
        BY <1>22, <3>1 DEF Update, Changed
      <4>2. LockSet(t)' = {}
        BY SMTT(30), <4>1 DEF LockSet
      <4> QED BY <3>1, <4>2 DEF HoldsBucket
    <3> QED BY <2>1, <3>1
  <2> QED BY <2>2, <2>3 DEF BlockOK
<1>23. CASE UpdateWalk(t)
  <2>1. UNCHANGED <<pc, old, new, want, key, block>> /\ pc[t] # "up_bucket"
    BY <1>23 DEF UpdateWalk, argVars
  <2>2. LockSet(t)' = LockSet(t) /\ NewBucket(t)' = NewBucket(t) /\ WantBucket(t)' = WantBucket(t)
    BY <2>1, LockSetSame DEF NewBucket, WantBucket
  <2>3. \A k \in KeyNos : \A b \in Buckets : HoldsBucket(t, k, b)' <=> HoldsBucket(t, k, b)
    BY <2>1, <2>2 DEF HoldsBucket
  <2> QED BY <2>1, <2>3, BlockKept
<1>24. CASE UpdateChecked(t)
  <2>1. UNCHANGED <<old, new, block>> /\ pc[t] \in {"up_walk"} /\ pc'[t] \in {"up_walk", "up_write"}
    BY <1>24 DEF UpdateChecked, CheckKeys, argVars
  <2>2. LockSet(t)' = LockSet(t)
    BY <2>1, LockSetSame
  <2>3. \A k \in KeyNos : \A b \in Buckets : HoldsBucket(t, k, b)' <=> HoldsBucket(t, k, b)
    BY <2>1, <2>2 DEF HoldsBucket, UpPhase
  <2> QED BY <2>1, <2>3, BlockKept
<1>25. CASE UpdateDup(t)
  <2>1. pc[t] \in UpPhase /\ UnlockAll(t) /\ pc'[t] = "idle"
    BY <1>25, ReturnFacts DEF UpdateDup, UnlockRow, UpPhase
  <2>2. pc'[t] \notin HoldPhase
    BY <2>1 DEF HoldPhase, UpPhase
  <2> QED BY <2>1, <2>2, AllReleased
<1>26. CASE UpdateWrite(t)
  <2>1. CASE Changed(t) = {}
    <3>1. pc[t] = "up_write" /\ pc'[t] = "idle" /\ block' = block
      BY <1>26, <2>1, ReturnFacts DEF UpdateWrite, UnlockRow
    <3>2. LockSet(t) = {}
      BY <2>1, LockSetFacts
    <3>3. \A k \in KeyNos : \A b \in Buckets : ~HoldsBucket(t, k, b)' /\ ~HoldsBucket(t, k, b)
      BY <3>1, <3>2 DEF HoldsBucket, UpPhase
    <3> QED BY <3>1, <3>3, BlockKept
  <2>2. CASE Changed(t) # {}
    <3>1. UNCHANGED <<old, new, block>> /\ pc[t] \in {"up_write"} /\ pc'[t] \in {"up_relink"}
      BY <1>26, <2>2 DEF UpdateWrite, argVars
    <3>2. LockSet(t)' = LockSet(t)
      BY <3>1, LockSetSame
    <3>3. \A k \in KeyNos : \A b \in Buckets : HoldsBucket(t, k, b)' <=> HoldsBucket(t, k, b)
      BY <3>1, <3>2 DEF HoldsBucket, UpPhase
    <3> QED BY <3>1, <3>3, BlockKept
  <2> QED BY <2>1, <2>2
<1>27. CASE UpdateRelink(t)
  <2>1. CASE After(Changed(t), key[t]) = {}
    <3>1. pc[t] \in UpPhase /\ UnlockAll(t) /\ pc'[t] = "idle"
      BY <1>27, <2>1, ReturnFacts DEF UpdateRelink, UnlockRow, UpPhase
    <3>2. pc'[t] \notin HoldPhase
      BY <3>1 DEF HoldPhase, UpPhase
    <3> QED BY <3>1, <3>2, AllReleased
  <2>2. CASE After(Changed(t), key[t]) # {}
    <3>1. UNCHANGED <<old, new, block>> /\ pc[t] \in {"up_relink"} /\ pc'[t] \in {"up_relink"}
      BY <1>27, <2>2 DEF UpdateRelink, argVars
    <3>2. LockSet(t)' = LockSet(t)
      BY <3>1, LockSetSame
    <3>3. \A k \in KeyNos : \A b \in Buckets : HoldsBucket(t, k, b)' <=> HoldsBucket(t, k, b)
      BY <3>1, <3>2 DEF HoldsBucket, UpPhase
    <3> QED BY <3>1, <3>3, BlockKept
  <2> QED BY <2>1, <2>2
<1>28. CASE Delete(t)
  BY <1>28, BlockQuiet DEF Delete, HoldPhase, UpPhase
<1>29. CASE DeleteDead(t)
  BY <1>29, BlockQuiet DEF DeleteDead, HoldPhase, UpPhase
<1>30. CASE FindStep(t)
  <2>1. UNCHANGED <<pc, old, new, want, key, block>> /\ pc[t] # "up_bucket"
    BY <1>30 DEF FindStep, argVars
  <2>2. LockSet(t)' = LockSet(t) /\ NewBucket(t)' = NewBucket(t) /\ WantBucket(t)' = WantBucket(t)
    BY <2>1, LockSetSame DEF NewBucket, WantBucket
  <2>3. \A k \in KeyNos : \A b \in Buckets : HoldsBucket(t, k, b)' <=> HoldsBucket(t, k, b)
    BY <2>1, <2>2 DEF HoldsBucket
  <2> QED BY <2>1, <2>3, BlockKept
<1>31. CASE FindHit(t)
  <2>1. key[t] \in KeyNos /\ WantBucket(t) \in Buckets /\ Unlock(key[t], WantBucket(t))
    BY <1>31, FindArgs DEF FindHit, FindPhase
  <2>2. pc'[t] \in {"done"} /\ pc[t] = "fd_walk"
    BY <1>31 DEF FindHit, Answer
  <2>3. OnlyHolds(t, key[t], WantBucket(t))
    BY <2>2 DEF HoldsBucket, OnlyHolds, UpPhase
  <2>4. pc'[t] \notin HoldPhase
    BY <2>2 DEF HoldPhase, UpPhase
  <2> QED BY <2>1, <2>3, <2>4, BlockReleased
<1>32. CASE FindMiss(t)
  <2>1. key[t] \in KeyNos /\ WantBucket(t) \in Buckets /\ Unlock(key[t], WantBucket(t))
    BY <1>32, FindArgs DEF FindMiss, FindPhase
  <2>2. pc'[t] \in {"done"} /\ pc[t] = "fd_walk"
    BY <1>32 DEF FindMiss, Answer
  <2>3. OnlyHolds(t, key[t], WantBucket(t))
    BY <2>2 DEF HoldsBucket, OnlyHolds, UpPhase
  <2>4. pc'[t] \notin HoldPhase
    BY <2>2 DEF HoldPhase, UpPhase
  <2> QED BY <2>1, <2>3, <2>4, BlockReleased
<1>33. CASE EndFind(t)
  BY <1>33, BlockQuiet, ReturnFacts DEF EndFind, HoldPhase, UpPhase
<1> QED BY StepCases, <1>1, <1>2, <1>3, <1>4, <1>5, <1>6, <1>7, <1>8, <1>9, <1>10, <1>11,
     <1>12, <1>13, <1>14, <1>15, <1>16, <1>17, <1>18, <1>19, <1>20, <1>21, <1>22, <1>23, <1>24,
     <1>25, <1>26, <1>27, <1>28, <1>29, <1>30, <1>31, <1>32, <1>33

LEMMA NotUpBucket == ASSUME NEW t, pc'[t] # "up_bucket" PROVE OrderOK(t)'
BY DEF OrderOK

LEMMA OrderStep ==
    ASSUME WellOrdered, Types, NEW t \in Threads, Step(t), ArgsOK(t), LockOK(t)
    PROVE  OrderOK(t)'
<1> USE DEF Types, LocalTypes, Goto
<1>1. CASE CallInsert(t)
  BY <1>1, NotUpBucket DEF CallInsert, Begin
<1>2. CASE CallLock(t)
  BY <1>2, NotUpBucket DEF CallLock, Begin
<1>3. CASE CallFind(t)
  BY <1>3, NotUpBucket DEF CallFind, Begin
<1>4. CASE CallFindNext(t)
  BY <1>4, NotUpBucket DEF CallFindNext
<1>5. CASE Truncate(t)
  BY <1>5, NotUpBucket DEF Truncate
<1>6. CASE InsertAlloc(t)
  BY <1>6, NotUpBucket DEF InsertAlloc
<1>7. CASE InsertFull(t)
  BY <1>7, NotUpBucket, ReturnFacts DEF InsertFull
<1>8. CASE InsertBucket(t)
  BY <1>8, NotUpBucket DEF InsertBucket
<1>9. CASE InsertUndo(t)
  BY <1>9, NotUpBucket DEF InsertUndo
<1>10. CASE LockRow(t)
  BY <1>10, NotUpBucket DEF LockRow
<1>11. CASE LockGone(t)
  BY <1>11, NotUpBucket, ReturnFacts DEF LockGone
<1>12. CASE UpdateBucket(t)
  <2>1. CASE pc'[t] = "up_bucket"
    <3>1. /\ pc[t] = "up_bucket" /\ Lock(t, NextLock(t)[1], NextLock(t)[2])
          /\ Missing(t) # {NextLock(t)}
      BY <1>12, <2>1 DEF UpdateBucket, CheckKeys
    <3>2. LockSet(t)' = LockSet(t)
      BY <1>12, LockSetSame DEF UpdateBucket, argVars
    <3>3. LockSet(t) \subseteq KeyNos \X Buckets /\ Missing(t) # {}
      BY <3>1, UpArgs DEF UpPhase, LockOK, OrderOK
    <3>4. /\ NextLock(t) \in Missing(t) /\ NextLock(t) \in KeyNos \X Buckets
          /\ \A m \in Missing(t) : NextLock(t) = m \/ Less(NextLock(t), m)
      BY <3>1, <3>3, UpArgs, NextLockFacts DEF UpPhase
    <3>5. PICK n \in KeyNos \X Buckets : n = NextLock(t)
      BY <3>4
    <3>6. n[1] \in KeyNos /\ n[2] \in Buckets
      BY <3>5
    <3>7. Put(n[1], n[2], t)
      BY <3>1, <3>5, <3>6, BlockPut
    <3>8. \A l \in LockSet(t) : l[1] \in KeyNos /\ l[2] \in Buckets /\ (l # n => l[1] # n[1] \/ l[2] # n[2])
      <4> TAKE l \in LockSet(t)
      <4>1. l \in KeyNos \X Buckets
        BY <3>3
      <4>2. l = <<l[1], l[2]>> /\ n = <<n[1], n[2]>>
        BY SMTT(30), <3>5, <4>1
      <4>3. l[1] \in KeyNos /\ l[2] \in Buckets
        BY <4>1
      <4> QED BY <4>2, <4>3
    <3>9. \A l \in LockSet(t) : l # n => block'[l[1]][l[2]] = block[l[1]][l[2]]
      BY <3>7, <3>8 DEF Put
    <3>10. block'[n[1]][n[2]] = t
      BY <3>6, <3>7 DEF Put
    <3>11. Missing(t)' = Missing(t) \ {n}
      BY <3>2, <3>9, <3>10 DEF Missing
    <3>12. Missing(t)' # {}
      BY <3>1, <3>4, <3>5, <3>11
    <3>13. ASSUME NEW l \in LockSet(t), NEW m \in Missing(t), m # n, l = n \/ l \notin Missing(t)
           PROVE  Less(l, m)
      BY <3>1, <3>4, <3>5, <3>13 DEF LockOK, OrderOK
    <3> QED BY <3>2, <3>11, <3>12, <3>13 DEF OrderOK
  <2>2. CASE pc'[t] # "up_bucket"
    BY <2>2, NotUpBucket
  <2> QED BY <2>1, <2>2
<1>13. CASE DeleteUnlink(t)
  BY <1>13, NotUpBucket DEF DeleteUnlink
<1>14. CASE DeletePush(t)
  BY <1>14, NotUpBucket, ReturnFacts DEF DeletePush, UnlockRow
<1>15. CASE FindBucket(t)
  BY <1>15, NotUpBucket DEF FindBucket
<1>16. CASE InsertWalk(t)
  BY <1>16, NotUpBucket DEF InsertWalk
<1>17. CASE InsertLink(t)
  BY <1>17, NotUpBucket DEF InsertLink
<1>18. CASE InsertDup(t)
  BY <1>18, NotUpBucket DEF InsertDup
<1>19. CASE InsertFree(t)
  BY <1>19, NotUpBucket, ReturnFacts DEF InsertFree
<1>20. CASE InsertPublish(t)
  BY <1>20, NotUpBucket, ReturnFacts DEF InsertPublish
<1>21. CASE Skip(t)
  BY <1>21, NotUpBucket, ReturnFacts DEF Skip, UnlockRow
<1>22. CASE Update(t)
  <2>1. CASE pc'[t] = "up_bucket"
    <3>1. Changed(t)' # {} /\ block' = block /\ pc[t] = "lk_held"
      BY <1>22, <2>1, ArgsStep DEF ArgsOK, Update
    <3>2. \A j \in KeyNos : \A c \in Buckets : block'[j][c] # t
      BY <3>1 DEF LockOK, BlockOK, HoldsBucket, UpPhase
    <3>3. PICK k \in KeyNos : k \in Changed(t)'
      BY <3>1 DEF Changed
    <3>4. old[t] \in Recs /\ old'[t] = old[t] /\ new'[t] \in Recs
      BY <1>22 DEF Update, ArgsOK, RowPhase
    <3>5. LockSet(t)' \subseteq KeyNos \X Buckets
      <4>1. \A j \in KeyNos : Bucket(old'[t][j]) \in Buckets /\ Bucket(new'[t][j]) \in Buckets
        BY <3>4, RecFacts
      <4>2. Changed(t)' \subseteq KeyNos
        BY DEF Changed
      <4> QED BY SMTT(30), <4>1, <4>2 DEF LockSet
    <3>6. LockSet(t)' # {}
      <4>1. <<k, Bucket(old'[t][k])>> \in LockSet(t)'
        BY SMTT(30), <3>3 DEF LockSet
      <4> QED BY <4>1
    <3>7. \A l \in LockSet(t)' : l[1] \in KeyNos /\ l[2] \in Buckets
      BY <3>5
    <3>8. Missing(t)' = LockSet(t)'
      BY <3>2, <3>7 DEF Missing
    <3> QED BY <3>6, <3>8 DEF OrderOK
  <2>2. CASE pc'[t] # "up_bucket"
    BY <2>2, NotUpBucket
  <2> QED BY <2>1, <2>2
<1>23. CASE UpdateWalk(t)
  BY <1>23, NotUpBucket DEF UpdateWalk
<1>24. CASE UpdateChecked(t)
  BY <1>24, NotUpBucket DEF UpdateChecked, CheckKeys
<1>25. CASE UpdateDup(t)
  BY <1>25, NotUpBucket, ReturnFacts DEF UpdateDup, UnlockRow
<1>26. CASE UpdateWrite(t)
  BY <1>26, NotUpBucket, ReturnFacts DEF UpdateWrite, UnlockRow
<1>27. CASE UpdateRelink(t)
  <2>1. pc'[t] = "idle" \/ pc'[t] = "up_relink"
    BY <1>27, ReturnFacts DEF UpdateRelink, UnlockRow
  <2> QED BY <2>1, NotUpBucket
<1>28. CASE Delete(t)
  BY <1>28, NotUpBucket DEF Delete
<1>29. CASE DeleteDead(t)
  BY <1>29, NotUpBucket DEF DeleteDead
<1>30. CASE FindStep(t)
  BY <1>30, NotUpBucket DEF FindStep
<1>31. CASE FindHit(t)
  BY <1>31, NotUpBucket DEF FindHit, Answer
<1>32. CASE FindMiss(t)
  BY <1>32, NotUpBucket DEF FindMiss, Answer
<1>33. CASE EndFind(t)
  BY <1>33, NotUpBucket, ReturnFacts DEF EndFind
<1> QED BY StepCases, <1>1, <1>2, <1>3, <1>4, <1>5, <1>6, <1>7, <1>8, <1>9, <1>10, <1>11,
     <1>12, <1>13, <1>14, <1>15, <1>16, <1>17, <1>18, <1>19, <1>20, <1>21, <1>22, <1>23, <1>24,
     <1>25, <1>26, <1>27, <1>28, <1>29, <1>30, <1>31, <1>32, <1>33

-----------------------------------------------------------------------------
(* Slots: who may change them.                                             *)

LEMMA RowFrame ==
    ASSUME NEW t \in Threads, RowOK(t), SameLocals(t),
           pc[t] \in InsPhase \cup RowPhase =>
              /\ state'[idx[t]] = state[idx[t]] /\ row'[idx[t]] = row[idx[t]]
              /\ gen'[idx[t]] = gen[idx[t]]
    PROVE  RowOK(t)'
BY DEF RowOK, SameLocals, InsPhase, RowPhase, UpPhase, DelPhase

\* The slot a statement writes to, and the head of the freelist, are no other thread's.
LEMMA SlotOwner ==
    ASSUME BaseInv, NEW t \in Threads, NEW u \in Threads \ {t}, pc[u] \in InsPhase \cup RowPhase
    PROVE  /\ pc[t] \in InsPhase \cup RowPhase => idx[u] # idx[t]
           /\ struct_mutex = NoThread => \A m \in 1 .. Len(free) : free[m] # idx[u]
<1>1. /\ RowOK(u) /\ LockOK(u) /\ ArgsOK(u) /\ RowOK(t) /\ LockOK(t) /\ ArgsOK(t) /\ FreeOK
      /\ u # t /\ u # NoThread
  BY TypeFacts DEF BaseInv
<1>2. /\ pc[u] \in InsPhase => state[idx[u]] \in {"FREE", "DELETED"} /\ struct_mutex = u
      /\ pc[t] \in InsPhase => state[idx[t]] \in {"FREE", "DELETED"} /\ struct_mutex = t
  BY <1>1 DEF RowOK, LockOK, MutexOK
<1>3. /\ pc[u] \in RowPhase \ {"dl_push"} => state[idx[u]] \in {"ACTIVE", "DELETING"}
      /\ pc[t] \in RowPhase \ {"dl_push"} => state[idx[t]] \in {"ACTIVE", "DELETING"}
  BY <1>1 DEF RowOK, RowPhase, UpPhase, DelPhase
<1>4. /\ pc[u] \in RowPhase => idx[u] \in Slots /\ wlock[idx[u]] = u
      /\ pc[t] \in RowPhase => idx[t] \in Slots /\ wlock[idx[t]] = t
  BY <1>1, OwnLocks
<1>5. \A s : ~(s \in {"FREE", "DELETED"} /\ s \in {"ACTIVE", "DELETING"})
  OBVIOUS
<1>6. ASSUME pc[t] \in InsPhase \cup RowPhase, idx[u] = idx[t] PROVE FALSE
  <2>1. CASE pc[u] \in RowPhase /\ pc[t] \in RowPhase
    BY <1>1, <1>4, <1>6, <2>1
  <2>2. CASE pc[u] \in InsPhase /\ pc[t] \in InsPhase
    BY <1>1, <1>2, <2>2
  <2>3. CASE pc[u] \in InsPhase /\ pc[t] \in RowPhase
    <3>1. pc[t] = "dl_push"
      BY <1>2, <1>3, <1>5, <1>6, <2>3
    <3> QED BY <1>1, <1>6, <2>3, <3>1 DEF FreeOK, OwnersApart
  <2>4. CASE pc[u] \in RowPhase /\ pc[t] \in InsPhase
    <3>1. pc[u] = "dl_push"
      BY <1>2, <1>3, <1>5, <1>6, <2>4
    <3> QED BY <1>1, <1>6, <2>4, <3>1 DEF FreeOK, OwnersApart
  <2> QED BY <1>6, <2>1, <2>2, <2>3, <2>4
<1>7. ASSUME struct_mutex = NoThread, NEW m \in 1 .. Len(free), free[m] = idx[u] PROVE FALSE
  <2>1. pc[u] \notin InsPhase
    BY <1>1, <1>2, <1>7
  <2>2. state[free[m]] \in {"FREE", "DELETED"}
    BY <1>1, <1>7 DEF FreeOK, FreeDead
  <2>3. pc[u] = "dl_push"
    BY <1>3, <1>5, <1>7, <2>1, <2>2
  <2> QED BY <1>1, <1>7, <2>3 DEF FreeOK, FreeUnowned, OwnPhase
<1> QED BY <1>6, <1>7


LEMMA OthersSlots ==
    ASSUME BaseInv, NEW t \in Threads, Step(t), NEW u \in Threads \ {t},
           pc[u] \in InsPhase \cup RowPhase
    PROVE  /\ state'[idx[u]] = state[idx[u]] /\ row'[idx[u]] = row[idx[u]]
           /\ gen'[idx[u]] = gen[idx[u]]
<1> USE DEF slotVars
<1>0. /\ idx[u] \in Slots
      /\ state \in [Slots -> {"FREE", "ACTIVE", "DELETING", "DELETED"}] /\ row \in [Slots -> Recs]
      /\ gen \in [Slots -> 0 .. MaxGen]
  BY DEF BaseInv, ArgsOK, Types, SlotTypes
<1>1. CASE CallInsert(t)
  BY <1>1 DEF CallInsert, Begin
<1>2. CASE CallLock(t)
  BY <1>2 DEF CallLock, Begin
<1>3. CASE CallFind(t)
  BY <1>3 DEF CallFind, Begin
<1>4. CASE CallFindNext(t)
  BY <1>4 DEF CallFindNext
<1>5. CASE Truncate(t)
  BY <1>5 DEF Truncate, InsPhase, RowPhase, UpPhase, DelPhase
<1>6. CASE InsertAlloc(t)
  <2>1. /\ struct_mutex = NoThread /\ row' = [row EXCEPT ![Head(free)] = new[t]]
        /\ UNCHANGED <<state, gen>>
    BY <1>6 DEF InsertAlloc
  <2>2. 1 \in 1 .. Len(free) /\ Head(free) = free[1]
    BY SMTT(30), <1>6 DEF InsertAlloc, BaseInv, Types, ShareTypes
  <2>3. Head(free) # idx[u]
    BY <2>1, <2>2, SlotOwner
  <2> QED BY <2>1, <2>3, <1>0
<1>7. CASE InsertFull(t)
  BY <1>7 DEF InsertFull
<1>8. CASE InsertBucket(t)
  BY <1>8 DEF InsertBucket
<1>9. CASE InsertUndo(t)
  BY <1>9 DEF InsertUndo
<1>10. CASE LockRow(t)
  BY <1>10 DEF LockRow
<1>11. CASE LockGone(t)
  BY <1>11 DEF LockGone
<1>12. CASE UpdateBucket(t)
  BY <1>12 DEF UpdateBucket
<1>13. CASE DeleteUnlink(t)
  BY <1>13 DEF DeleteUnlink
<1>14. CASE DeletePush(t)
  BY <1>14 DEF DeletePush
<1>15. CASE FindBucket(t)
  BY <1>15 DEF FindBucket
<1>16. CASE InsertWalk(t)
  BY <1>16 DEF InsertWalk
<1>17. CASE InsertLink(t)
  BY <1>17 DEF InsertLink
<1>18. CASE InsertDup(t)
  BY <1>18 DEF InsertDup
<1>19. CASE InsertFree(t)
  BY <1>19 DEF InsertFree
<1>20. CASE InsertPublish(t)
  <2>1. state' = [state EXCEPT ![idx[t]] = "ACTIVE"] /\ UNCHANGED <<row, gen>>
    BY <1>20 DEF InsertPublish
  <2>2. idx[u] # idx[t]
    BY <1>20, SlotOwner DEF InsertPublish, InsPhase
  <2> QED BY <2>1, <2>2, <1>0
<1>21. CASE Skip(t)
  BY <1>21 DEF Skip
<1>22. CASE Update(t)
  BY <1>22 DEF Update
<1>23. CASE UpdateWalk(t)
  BY <1>23 DEF UpdateWalk
<1>24. CASE UpdateChecked(t)
  BY <1>24 DEF UpdateChecked
<1>25. CASE UpdateDup(t)
  BY <1>25 DEF UpdateDup
<1>26. CASE UpdateWrite(t)
  <2>1. row' = [row EXCEPT ![idx[t]] = new[t]] /\ UNCHANGED <<state, gen>>
    BY <1>26 DEF UpdateWrite
  <2>2. idx[u] # idx[t]
    BY <1>26, SlotOwner DEF UpdateWrite, RowPhase, UpPhase
  <2> QED BY <2>1, <2>2, <1>0
<1>27. CASE UpdateRelink(t)
  BY <1>27 DEF UpdateRelink
<1>28. CASE Delete(t)
  <2>1. state' = [state EXCEPT ![idx[t]] = "DELETING"] /\ UNCHANGED <<row, gen>>
    BY <1>28 DEF Delete
  <2>2. idx[u] # idx[t]
    BY <1>28, SlotOwner DEF Delete, RowPhase
  <2> QED BY <2>1, <2>2, <1>0
<1>29. CASE DeleteDead(t)
  <2>1. /\ state' = [state EXCEPT ![idx[t]] = "DELETED"]
        /\ gen' = [gen EXCEPT ![idx[t]] = gen[idx[t]] + 1] /\ row' = row
    BY <1>29 DEF DeleteDead
  <2>2. idx[u] # idx[t]
    BY <1>29, SlotOwner DEF DeleteDead, RowPhase, DelPhase
  <2> QED BY <2>1, <2>2, <1>0
<1>30. CASE FindStep(t)
  BY <1>30 DEF FindStep
<1>31. CASE FindHit(t)
  BY <1>31 DEF FindHit
<1>32. CASE FindMiss(t)
  BY <1>32 DEF FindMiss
<1>33. CASE EndFind(t)
  BY <1>33 DEF EndFind
<1> QED BY StepCases, <1>1, <1>2, <1>3, <1>4, <1>5, <1>6, <1>7, <1>8, <1>9, <1>10, <1>11,
     <1>12, <1>13, <1>14, <1>15, <1>16, <1>17, <1>18, <1>19, <1>20, <1>21, <1>22, <1>23, <1>24,
     <1>25, <1>26, <1>27, <1>28, <1>29, <1>30, <1>31, <1>32, <1>33

LEMMA RowStep ==
    ASSUME Types, FreeOK, NEW t \in Threads, Step(t), ArgsOK(t), RowOK(t)
    PROVE  RowOK(t)'
<1> USE DEF Types, LocalTypes, SlotTypes, Goto, slotVars, RowOK, InsPhase, UpPhase, RowPhase,
    DelPhase
<1>1. CASE CallInsert(t)
  BY <1>1 DEF CallInsert, Begin
<1>2. CASE CallLock(t)
  BY <1>2 DEF CallLock, Begin
<1>3. CASE CallFind(t)
  BY <1>3 DEF CallFind, Begin
<1>4. CASE CallFindNext(t)
  BY <1>4 DEF CallFindNext
<1>5. CASE Truncate(t)
  BY <1>5 DEF Truncate
<1>6. CASE InsertAlloc(t)
  <2>1. 1 \in 1 .. Len(free) /\ Head(free) = free[1]
    BY SMTT(30), <1>6 DEF InsertAlloc, ShareTypes
  <2>2. Head(free) \in Slots /\ state[Head(free)] \in {"FREE", "DELETED"}
    BY <2>1 DEF FreeOK, FreeDead
  <2>3. /\ idx'[t] = Head(free) /\ row'[Head(free)] = new[t] /\ new'[t] = new[t] /\ state' = state
        /\ pc'[t] = "ins_bucket"
    BY <1>6, <2>2 DEF InsertAlloc
  <2> QED BY <2>2, <2>3
<1>7. CASE InsertFull(t)
  BY <1>7, ReturnFacts DEF InsertFull
<1>8. CASE InsertBucket(t)
  <2>1. pc'[t] \in {"ins_walk"} /\ UNCHANGED <<idx, new, old>> /\ UNCHANGED <<state, row, gen>>
    BY <1>8 DEF InsertBucket, argVars
  <2>2. pc[t] \in {"ins_bucket"}
    BY <1>8 DEF InsertBucket
  <2> QED BY <2>1, <2>2
<1>9. CASE InsertUndo(t)
  <2>1. /\ pc'[t] \in {"ins_undo", "ins_free"} /\ UNCHANGED <<idx, new, old>>
        /\ UNCHANGED <<state, row, gen>>
    BY <1>9 DEF InsertUndo, argVars
  <2>2. pc[t] \in {"ins_undo"}
    BY <1>9 DEF InsertUndo
  <2> QED BY <2>1, <2>2
<1>10. CASE LockRow(t)
  <2>1. /\ idx'[t] = idx[t] /\ old'[t] = row[idx[t]] /\ UNCHANGED <<state, row>>
        /\ pc'[t] = "lk_held"
        /\ state[idx[t]] = "ACTIVE"
    BY <1>10 DEF LockRow
  <2> QED BY <2>1
<1>11. CASE LockGone(t)
  BY <1>11, ReturnFacts DEF LockGone
<1>12. CASE UpdateBucket(t)
  <2>1. /\ pc'[t] \in {"up_bucket", "up_walk", "up_write"} /\ UNCHANGED <<idx, new, old>>
        /\ UNCHANGED <<state, row, gen>>
    BY <1>12 DEF UpdateBucket, argVars, CheckKeys
  <2>2. pc[t] \in {"up_bucket"}
    BY <1>12 DEF UpdateBucket
  <2> QED BY <2>1, <2>2
<1>13. CASE DeleteUnlink(t)
  <2>1. /\ pc'[t] \in {"dl_unlink", "dl_dead"} /\ UNCHANGED <<idx, new, old>>
        /\ UNCHANGED <<state, row, gen>>
    BY <1>13 DEF DeleteUnlink, argVars
  <2>2. pc[t] \in {"dl_unlink"}
    BY <1>13 DEF DeleteUnlink
  <2> QED BY <2>1, <2>2
<1>14. CASE DeletePush(t)
  BY <1>14, ReturnFacts DEF DeletePush, UnlockRow
<1>15. CASE FindBucket(t)
  <2>1. pc'[t] \in {"fd_walk"} /\ UNCHANGED <<idx, new, old>> /\ UNCHANGED <<state, row, gen>>
    BY <1>15 DEF FindBucket, argVars
  <2>2. pc[t] \in {"fd_lock"}
    BY <1>15 DEF FindBucket
  <2> QED BY <2>1, <2>2
<1>16. CASE InsertWalk(t)
  <2>1. pc'[t] \in {"ins_walk"} /\ UNCHANGED <<idx, new, old>> /\ UNCHANGED <<state, row, gen>>
    BY <1>16 DEF InsertWalk, argVars
  <2>2. pc[t] \in {"ins_walk"}
    BY <1>16 DEF InsertWalk
  <2> QED BY <2>1, <2>2
<1>17. CASE InsertLink(t)
  <2>1. /\ pc'[t] \in {"ins_bucket", "ins_publish"} /\ UNCHANGED <<idx, new, old>>
        /\ UNCHANGED <<state, row, gen>>
    BY <1>17 DEF InsertLink, argVars
  <2>2. pc[t] \in {"ins_walk"}
    BY <1>17 DEF InsertLink
  <2> QED BY <2>1, <2>2
<1>18. CASE InsertDup(t)
  <2>1. /\ pc'[t] \in {"ins_undo", "ins_free"} /\ UNCHANGED <<idx, new, old>>
        /\ UNCHANGED <<state, row, gen>>
    BY <1>18 DEF InsertDup, argVars
  <2>2. pc[t] \in {"ins_walk"}
    BY <1>18 DEF InsertDup
  <2> QED BY <2>1, <2>2
<1>19. CASE InsertFree(t)
  BY <1>19, ReturnFacts DEF InsertFree
<1>20. CASE InsertPublish(t)
  BY <1>20, ReturnFacts DEF InsertPublish
<1>21. CASE Skip(t)
  BY <1>21, ReturnFacts DEF Skip, UnlockRow
<1>22. CASE Update(t)
  <2>1. /\ pc'[t] \in {"up_bucket", "up_write"} /\ UNCHANGED <<idx, old, state, row>>
        /\ pc[t] = "lk_held"
    BY <1>22 DEF Update
  <2> QED BY <2>1
<1>23. CASE UpdateWalk(t)
  <2>1. pc'[t] \in {"up_walk"} /\ UNCHANGED <<idx, new, old>> /\ UNCHANGED <<state, row, gen>>
    BY <1>23 DEF UpdateWalk, argVars
  <2>2. pc[t] \in {"up_walk"}
    BY <1>23 DEF UpdateWalk
  <2> QED BY <2>1, <2>2
<1>24. CASE UpdateChecked(t)
  <2>1. /\ pc'[t] \in {"up_walk", "up_write"} /\ UNCHANGED <<idx, new, old>>
        /\ UNCHANGED <<state, row, gen>>
    BY <1>24 DEF UpdateChecked, argVars, CheckKeys
  <2>2. pc[t] \in {"up_walk"}
    BY <1>24 DEF UpdateChecked
  <2> QED BY <2>1, <2>2
<1>25. CASE UpdateDup(t)
  BY <1>25, ReturnFacts DEF UpdateDup, UnlockRow
<1>26. CASE UpdateWrite(t)
  <2>1. CASE Changed(t) = {}
    BY <1>26, <2>1, ReturnFacts DEF UpdateWrite, UnlockRow
  <2>2. CASE Changed(t) # {}
    <3>1. /\ pc'[t] = "up_relink" /\ UNCHANGED <<idx, new, state>>
          /\ row' = [row EXCEPT ![idx[t]] = new[t]]
          /\ pc[t] = "up_write"
      BY <1>26, <2>2 DEF UpdateWrite, argVars
    <3>2. idx[t] \in Slots
      BY <3>1, UpArgs
    <3> QED BY <3>1, <3>2
  <2> QED BY <2>1, <2>2
<1>27. CASE UpdateRelink(t)
  <2>1. CASE After(Changed(t), key[t]) = {}
    BY <1>27, <2>1, ReturnFacts DEF UpdateRelink, UnlockRow
  <2>2. CASE After(Changed(t), key[t]) # {}
    BY <1>27, <2>2 DEF UpdateRelink, argVars
  <2> QED BY <2>1, <2>2
<1>28. CASE Delete(t)
  <2>1. /\ pc'[t] = "dl_unlink" /\ UNCHANGED <<idx, gen>>
        /\ state' = [state EXCEPT ![idx[t]] = "DELETING"]
        /\ pc[t] = "lk_held" /\ gen[idx[t]] < MaxGen
    BY <1>28 DEF Delete, argVars
  <2>2. idx[t] \in Slots
    BY <2>1 DEF ArgsOK
  <2> QED BY <2>1, <2>2
<1>29. CASE DeleteDead(t)
  <2>1. /\ pc'[t] = "dl_push" /\ UNCHANGED <<idx>> /\ state' = [state EXCEPT ![idx[t]] = "DELETED"]
        /\ pc[t] = "dl_dead"
    BY <1>29 DEF DeleteDead, argVars
  <2>2. idx[t] \in Slots
    BY <2>1 DEF ArgsOK
  <2> QED BY <2>1, <2>2
<1>30. CASE FindStep(t)
  <2>1. pc'[t] \in {"fd_walk"} /\ UNCHANGED <<idx, new, old>> /\ UNCHANGED <<state, row, gen>>
    BY <1>30 DEF FindStep, argVars
  <2>2. pc[t] \in {"fd_walk"}
    BY <1>30 DEF FindStep
  <2> QED BY <2>1, <2>2
<1>31. CASE FindHit(t)
  BY <1>31 DEF FindHit, Answer
<1>32. CASE FindMiss(t)
  BY <1>32 DEF FindMiss, Answer
<1>33. CASE EndFind(t)
  BY <1>33, ReturnFacts DEF EndFind
<1> QED BY StepCases, <1>1, <1>2, <1>3, <1>4, <1>5, <1>6, <1>7, <1>8, <1>9, <1>10, <1>11,
     <1>12, <1>13, <1>14, <1>15, <1>16, <1>17, <1>18, <1>19, <1>20, <1>21, <1>22, <1>23, <1>24,
     <1>25, <1>26, <1>27, <1>28, <1>29, <1>30, <1>31, <1>32, <1>33

\* The freelist stays, its slots stay dead and no thread comes to own one.
LEMMA FreeFrame ==
    ASSUME BaseInv, free' = free, NEW t \in Threads,
           \A u \in Threads \ {t} : pc'[u] = pc[u] /\ idx'[u] = idx[u],
           \A m \in 1 .. Len(free) : state'[free[m]] = state[free[m]],
           \/ pc'[t] \notin OwnPhase
           \/ pc'[t] \in InsPhase /\ pc[t] \in InsPhase /\ idx'[t] = idx[t]
    PROVE  FreeOK'
<1>1. FreeDistinct /\ FreeDead /\ FreeUnowned /\ OwnersApart
  BY DEF BaseInv, FreeOK
<1>2. ASSUME NEW u \in Threads, pc'[u] \in OwnPhase
      PROVE  /\ idx'[u] = idx[u] /\ pc[u] \in OwnPhase
             /\ (pc'[u] \in InsPhase => pc[u] \in InsPhase)
             /\ (pc'[u] = "dl_push" => pc[u] = "dl_push")
  <2>1. CASE u = t
    BY <1>2, <2>1 DEF InsPhase, OwnPhase
  <2>2. CASE u # t
    BY <1>2, <2>2
  <2> QED BY <2>1, <2>2
<1>3. \A u \in Threads : pc'[u] \in InsPhase \/ pc'[u] = "dl_push" => pc'[u] \in OwnPhase
  BY DEF OwnPhase
<1>4. ASSUME NEW u \in Threads, NEW v \in Threads, pc'[u] \in InsPhase, pc'[v] = "dl_push"
      PROVE  idx'[u] # idx'[v]
  <2>1. pc[u] \in InsPhase /\ idx'[u] = idx[u]
    BY <1>2, <1>3, <1>4
  <2>2. pc[v] = "dl_push" /\ idx'[v] = idx[v]
    BY <1>2, <1>3, <1>4
  <2>3. idx[u] # idx[v]
    BY <1>1, <2>1, <2>2 DEF OwnersApart
  <2> QED BY <2>1, <2>2, <2>3
<1>5. ASSUME NEW m \in 1 .. Len(free), NEW u \in Threads, pc'[u] \in OwnPhase
      PROVE  free[m] # idx'[u]
  <2>1. idx'[u] = idx[u] /\ pc[u] \in OwnPhase
    BY <1>2, <1>5
  <2>2. free[m] # idx[u]
    BY <1>1, <2>1 DEF FreeUnowned
  <2> QED BY <2>1, <2>2
<1>6. FreeDistinct' /\ FreeDead'
  BY <1>1 DEF FreeDistinct, FreeDead
<1>7. FreeUnowned' /\ OwnersApart'
  BY <1>4, <1>5 DEF FreeUnowned, OwnersApart
<1> QED BY <1>6, <1>7 DEF FreeOK

\* A dead slot that is in no list and that no other thread owns is pushed.
LEMMA FreePushed ==
    ASSUME BaseInv, NEW t \in Threads, free' = <<idx[t]>> \o free, state' = state, idx[t] \in Slots,
           \A u \in Threads \ {t} : pc'[u] = pc[u] /\ idx'[u] = idx[u],
           pc'[t] \notin OwnPhase, pc[t] \in OwnPhase
    PROVE  FreeOK'
<1>1. FreeOK /\ free \in Seq(Slots)
  BY DEF BaseInv, Types, ShareTypes
<1>2. /\ Len(free') = Len(free) + 1 /\ Len(free) \in Nat /\ free'[1] = idx[t]
      /\ \A m \in 1 .. Len(free') : m # 1 => m - 1 \in 1 .. Len(free) /\ free'[m] = free[m - 1]
      /\ \A m, n \in 1 .. Len(free') : m - 1 = n - 1 => m = n
  BY SMTT(30), <1>1
<1>3. state[idx[t]] \in {"FREE", "DELETED"}
  BY DEF BaseInv, RowOK, OwnPhase
<1>4. \A m \in 1 .. Len(free) : free[m] # idx[t]
  BY <1>1 DEF FreeOK, FreeUnowned
<1>5. \A u \in Threads \ {t} : pc[u] \in OwnPhase => idx[u] # idx[t]
  BY SlotOwner DEF RowPhase, DelPhase, OwnPhase
<1>6. \A u \in Threads : pc'[u] \in OwnPhase =>
         u # t /\ pc[u] \in OwnPhase /\ pc'[u] = pc[u] /\ idx'[u] = idx[u]
  OBVIOUS
<1>7. FreeDistinct'
  <2> SUFFICES ASSUME NEW m \in 1 .. Len(free'), NEW n \in 1 .. Len(free'), free'[m] = free'[n]
               PROVE  m = n
    BY DEF FreeDistinct
  <2>1. CASE m = 1 /\ n # 1
    <3>1. free'[m] = idx[t] /\ free'[n] = free[n - 1] /\ n - 1 \in 1 .. Len(free)
      BY <1>2, <2>1
    <3> QED BY <1>4, <3>1
  <2>2. CASE m # 1 /\ n = 1
    <3>1. free'[n] = idx[t] /\ free'[m] = free[m - 1] /\ m - 1 \in 1 .. Len(free)
      BY <1>2, <2>2
    <3> QED BY <1>4, <3>1
  <2>3. CASE m # 1 /\ n # 1
    <3>0. /\ free'[m] = free[m - 1] /\ m - 1 \in 1 .. Len(free)
          /\ free'[n] = free[n - 1] /\ n - 1 \in 1 .. Len(free)
      BY <1>2, <2>3
    <3>1. m - 1 = n - 1
      BY <1>1, <3>0 DEF FreeOK, FreeDistinct
    <3> QED BY <1>2, <3>1
  <2> QED BY <2>1, <2>2, <2>3
<1>8. ASSUME NEW m \in 1 .. Len(free')
      PROVE  /\ free'[m] \in Slots /\ state'[free'[m]] \in {"FREE", "DELETED"}
             /\ \A u \in Threads : pc'[u] \in OwnPhase => free'[m] # idx'[u]
  <2>1. CASE m = 1
    BY <1>2, <1>3, <1>5, <1>6, <2>1
  <2>2. CASE m # 1
    <3>1. free'[m] = free[m - 1] /\ m - 1 \in 1 .. Len(free)
      BY <1>2, <2>2
    <3>2. free[m - 1] \in Slots /\ state[free[m - 1]] \in {"FREE", "DELETED"}
      BY <1>1, <3>1 DEF FreeOK, FreeDead
    <3>3. ASSUME NEW u \in Threads, pc'[u] \in OwnPhase PROVE free'[m] # idx'[u]
      <4>1. pc[u] \in OwnPhase /\ idx'[u] = idx[u]
        BY <1>6, <3>3
      <4> QED BY <1>1, <3>1, <4>1 DEF FreeOK, FreeUnowned
    <3> QED BY <3>1, <3>2, <3>3
  <2> QED BY <2>1, <2>2
<1>9. OwnersApart'
  <2> SUFFICES ASSUME NEW u \in Threads, NEW v \in Threads, pc'[u] \in InsPhase, pc'[v] = "dl_push"
               PROVE  idx'[u] # idx'[v]
    BY DEF OwnersApart
  <2>1. pc[u] \in InsPhase /\ idx'[u] = idx[u]
    BY <1>6 DEF OwnPhase
  <2>2. pc[v] = "dl_push" /\ idx'[v] = idx[v]
    BY <1>6 DEF OwnPhase
  <2> QED BY <1>1, <2>1, <2>2 DEF FreeOK, OwnersApart
<1>10. FreeDead' /\ FreeUnowned'
  BY <1>8 DEF FreeDead, FreeUnowned
<1> QED BY <1>7, <1>9, <1>10 DEF FreeOK

LEMMA FreeStep ==
    ASSUME BaseInv, NEW t \in Threads, Step(t)
    PROVE  FreeOK'
<1> USE DEF Goto, slotVars
<1>0. /\ pc \in [Threads -> Labels] /\ idx \in [Threads -> Links]
      /\ \A u \in Threads \ {t} : pc'[u] = pc[u] /\ idx'[u] = idx[u]
  BY OthersSame DEF BaseInv, Types, LocalTypes, SameLocals
<1>a. state \in [Slots -> {"FREE", "ACTIVE", "DELETING", "DELETED"}] /\ LocalTypes
  BY DEF BaseInv, Types, SlotTypes
<1>b. FreeOK
  BY DEF BaseInv
<1>1. CASE CallInsert(t)
  BY <1>1, <1>0, <1>a, FreeFrame DEF CallInsert, Begin, InsPhase, OwnPhase
<1>2. CASE CallLock(t)
  BY <1>2, <1>0, <1>a, FreeFrame DEF CallLock, Begin, InsPhase, OwnPhase
<1>3. CASE CallFind(t)
  BY <1>3, <1>0, <1>a, FreeFrame DEF CallFind, Begin, InsPhase, OwnPhase
<1>4. CASE CallFindNext(t)
  BY <1>4, <1>0, <1>a, FreeFrame DEF CallFindNext, InsPhase, OwnPhase
<1>5. CASE Truncate(t)
  <2>1. /\ free' = [n \in 1 .. max_records |-> max_records - n] /\ state' = [i \in Slots |-> "FREE"]
        /\ \A u \in Threads : pc[u] = "idle" /\ pc'[u] = "idle"
    BY <1>5 DEF Truncate
  <2>2. /\ Len(free') = max_records
        /\ \A m \in 1 .. max_records : free'[m] = max_records - m /\ max_records - m \in Slots
    BY SMTT(30), <2>1, SizesAssumption DEF Slots
  <2>3. \A m, n \in 1 .. max_records : max_records - m = max_records - n => m = n
    BY SMTT(30), SizesAssumption
  <2>4. \A u \in Threads : pc'[u] \notin OwnPhase
    BY <2>1 DEF InsPhase, OwnPhase
  <2>5. FreeDead'
    <3> SUFFICES ASSUME NEW m \in 1 .. max_records
                 PROVE  free'[m] \in Slots /\ state'[free'[m]] \in {"FREE", "DELETED"}
      BY <2>2 DEF FreeDead
    <3>1. free'[m] \in Slots
      BY <2>2
    <3> QED BY <2>1, <3>1
  <2>6. FreeDistinct'
    <3> SUFFICES ASSUME NEW m \in 1 .. max_records, NEW n \in 1 .. max_records, free'[m] = free'[n]
                 PROVE  m = n
      BY <2>2 DEF FreeDistinct
    <3>1. free'[m] = max_records - m /\ free'[n] = max_records - n
      BY <2>2
    <3> QED BY <2>3, <3>1
  <2>7. FreeUnowned' /\ OwnersApart'
    BY <2>4 DEF FreeUnowned, OwnersApart, OwnPhase
  <2> QED BY <2>5, <2>6, <2>7 DEF FreeOK
<1>6. CASE InsertAlloc(t)
  <2>1. /\ free' = Tail(free) /\ free # <<>> /\ UNCHANGED state /\ idx'[t] = Head(free)
        /\ pc'[t] = "ins_bucket" /\ struct_mutex = NoThread /\ pc[t] = "ins_alloc"
    BY <1>6, <1>0 DEF InsertAlloc
  <2>2. /\ Len(free') \in Nat /\ Head(free) = free[1] /\ 1 \in 1 .. Len(free)
        /\ \A m \in 1 .. Len(free') : m + 1 \in 1 .. Len(free) /\ free'[m] = free[m + 1] /\ m + 1 # 1
        /\ \A m, n \in 1 .. Len(free') : m + 1 = n + 1 => m = n
    <3>1. free \in Seq(Slots)
      BY DEF BaseInv, Types, ShareTypes
    <3> QED BY SMTT(30), <2>1, <3>1
  <2>3. FreeDistinct'
    <3> SUFFICES ASSUME NEW m \in 1 .. Len(free'), NEW n \in 1 .. Len(free'), free'[m] = free'[n]
                 PROVE  m = n
      BY DEF FreeDistinct
    <3>1. /\ m + 1 \in 1 .. Len(free) /\ free'[m] = free[m + 1]
          /\ n + 1 \in 1 .. Len(free) /\ free'[n] = free[n + 1]
      BY <2>2
    <3>2. m + 1 = n + 1
      BY <1>b, <3>1 DEF FreeOK, FreeDistinct
    <3> QED BY <2>2, <3>2
  <2>4. ASSUME NEW m \in 1 .. Len(free')
        PROVE  /\ free'[m] \in Slots /\ state'[free'[m]] \in {"FREE", "DELETED"}
               /\ free'[m] # Head(free)
    <3>1. m + 1 \in 1 .. Len(free) /\ free'[m] = free[m + 1] /\ m + 1 # 1
      BY <2>2
    <3>2. free[m + 1] \in Slots /\ state[free[m + 1]] \in {"FREE", "DELETED"}
      BY <1>b, <3>1 DEF FreeOK, FreeDead
    <3>3. free[m + 1] # free[1]
      BY <1>b, <2>2, <3>1 DEF FreeOK, FreeDistinct
    <3> QED BY <2>1, <2>2, <3>1, <3>2, <3>3
  <2>5. \A u \in Threads \ {t} : pc[u] \in OwnPhase =>
            \A m \in 1 .. Len(free) : free[m] # idx[u]
    BY <1>b DEF FreeOK, FreeUnowned
  <2>6. FreeUnowned'
    <3> SUFFICES ASSUME NEW m \in 1 .. Len(free'), NEW u \in Threads, pc'[u] \in OwnPhase
                 PROVE  free'[m] # idx'[u]
      BY DEF FreeUnowned
    <3>1. CASE u = t
      BY <2>1, <2>4, <3>1
    <3>2. CASE u # t
      <4>1. pc[u] \in OwnPhase /\ idx'[u] = idx[u]
        BY <1>0, <3>2
      <4>2. m + 1 \in 1 .. Len(free) /\ free'[m] = free[m + 1]
        BY <2>2
      <4> QED BY <2>5, <3>2, <4>1, <4>2
    <3> QED BY <3>1, <3>2
  <2>7. OwnersApart'
    <3> SUFFICES ASSUME NEW u \in Threads, NEW v \in Threads, pc'[u] \in InsPhase,
                        pc'[v] = "dl_push"
                 PROVE  idx'[u] # idx'[v]
      BY DEF OwnersApart
    <3>1. v # t /\ pc[v] = "dl_push" /\ idx'[v] = idx[v]
      BY <1>0, <2>1
    <3>2. CASE u = t
      <4>1. pc[v] \in OwnPhase
        BY <3>1 DEF OwnPhase
      <4>2. idx'[u] = free[1] /\ free[1] # idx[v]
        BY <2>1, <2>2, <2>5, <3>1, <3>2, <4>1
      <4> QED BY <3>1, <4>2
    <3>3. CASE u # t
      <4>1. pc[u] \in InsPhase /\ idx'[u] = idx[u]
        BY <1>0, <3>3
      <4> QED BY <1>b, <3>1, <4>1 DEF FreeOK, OwnersApart
    <3> QED BY <3>2, <3>3
  <2>8. FreeDead'
    BY <2>4 DEF FreeDead
  <2> QED BY <2>3, <2>6, <2>7, <2>8 DEF FreeOK
<1>7. CASE InsertFull(t)
  BY <1>7, <1>0, <1>a, FreeFrame, ReturnFacts DEF InsertFull, InsPhase, OwnPhase
<1>8. CASE InsertBucket(t)
  <2>1. pc'[t] \in {"ins_walk"} /\ pc[t] = "ins_bucket" /\ UNCHANGED <<free, state>> /\ idx' = idx
    BY <1>8, <1>0 DEF InsertBucket, argVars
  <2> QED BY <2>1, <1>0, <1>a, FreeFrame DEF InsPhase, OwnPhase
<1>9. CASE InsertUndo(t)
  <2>1. /\ pc'[t] \in {"ins_undo", "ins_free"} /\ pc[t] = "ins_undo" /\ UNCHANGED <<free, state>>
        /\ idx' = idx
    BY <1>9, <1>0 DEF InsertUndo, argVars
  <2> QED BY <2>1, <1>0, <1>a, FreeFrame DEF InsPhase, OwnPhase
<1>10. CASE LockRow(t)
  BY <1>10, <1>0, <1>a, FreeFrame DEF LockRow, InsPhase, OwnPhase
<1>11. CASE LockGone(t)
  BY <1>11, <1>0, <1>a, FreeFrame, ReturnFacts DEF LockGone, InsPhase, OwnPhase
<1>12. CASE UpdateBucket(t)
  <2>1. /\ pc'[t] \in {"up_walk", "up_write", "up_bucket"} /\ pc[t] = "up_bucket"
        /\ UNCHANGED <<free, state>>
    BY <1>12, <1>0 DEF UpdateBucket, argVars, CheckKeys
  <2> QED BY <2>1, <1>0, <1>a, FreeFrame DEF InsPhase, OwnPhase
<1>13. CASE DeleteUnlink(t)
  <2>1. pc'[t] \in {"dl_unlink", "dl_dead"} /\ pc[t] = "dl_unlink" /\ UNCHANGED <<free, state>>
    BY <1>13, <1>0 DEF DeleteUnlink, argVars
  <2> QED BY <2>1, <1>0, <1>a, FreeFrame DEF InsPhase, OwnPhase
<1>14. CASE DeletePush(t)
  <2>1. pc'[t] = "idle" /\ pc[t] = "dl_push" /\ free' = <<idx[t]>> \o free /\ state' = state
    BY <1>14, <1>a, ReturnFacts DEF DeletePush, UnlockRow
  <2>2. idx[t] \in Slots
    BY <2>1 DEF BaseInv, ArgsOK, InsPhase, RowPhase, DelPhase
  <2>3. pc'[t] \notin OwnPhase /\ pc[t] \in OwnPhase
    BY <2>1 DEF InsPhase, OwnPhase
  <2> QED BY <1>0, <2>1, <2>2, <2>3, FreePushed
<1>15. CASE FindBucket(t)
  BY <1>15, <1>0, <1>a, FreeFrame DEF FindBucket, InsPhase, OwnPhase
<1>16. CASE InsertWalk(t)
  <2>1. pc'[t] \in {"ins_walk"} /\ pc[t] = "ins_walk" /\ UNCHANGED <<free, state>> /\ idx' = idx
    BY <1>16, <1>0 DEF InsertWalk, argVars
  <2> QED BY <2>1, <1>0, <1>a, FreeFrame DEF InsPhase, OwnPhase
<1>17. CASE InsertLink(t)
  <2>1. /\ pc'[t] \in {"ins_bucket", "ins_publish"} /\ pc[t] = "ins_walk"
        /\ UNCHANGED <<free, state>> /\ idx' = idx
    BY <1>17, <1>0 DEF InsertLink, argVars
  <2> QED BY <2>1, <1>0, <1>a, FreeFrame DEF InsPhase, OwnPhase
<1>18. CASE InsertDup(t)
  <2>1. /\ pc'[t] \in {"ins_undo", "ins_free"} /\ pc[t] = "ins_walk" /\ UNCHANGED <<free, state>>
        /\ idx' = idx
    BY <1>18, <1>0 DEF InsertDup, argVars
  <2> QED BY <2>1, <1>0, <1>a, FreeFrame DEF InsPhase, OwnPhase
<1>19. CASE InsertFree(t)
  <2>1. pc'[t] = "idle" /\ pc[t] = "ins_free" /\ free' = <<idx[t]>> \o free /\ state' = state
    BY <1>19, <1>a, ReturnFacts DEF InsertFree, UnlockRow
  <2>2. idx[t] \in Slots
    BY <2>1 DEF BaseInv, ArgsOK, InsPhase, RowPhase, DelPhase
  <2>3. pc'[t] \notin OwnPhase /\ pc[t] \in OwnPhase
    BY <2>1 DEF InsPhase, OwnPhase
  <2> QED BY <1>0, <2>1, <2>2, <2>3, FreePushed
<1>20. CASE InsertPublish(t)
  <2>1. pc'[t] = "idle" /\ free' = free /\ state' = [state EXCEPT ![idx[t]] = "ACTIVE"]
    BY <1>20, <1>a, ReturnFacts DEF InsertPublish
  <2>2. \A m \in 1 .. Len(free) : free[m] \in Slots /\ free[m] # idx[t]
    BY <1>20, <1>b DEF InsertPublish, FreeOK, FreeDead, FreeUnowned, OwnPhase, InsPhase
  <2> QED BY <1>0, <1>a, <2>1, <2>2, FreeFrame DEF InsPhase, OwnPhase
<1>21. CASE Skip(t)
  BY <1>21, <1>0, <1>a, FreeFrame, ReturnFacts DEF Skip, UnlockRow, InsPhase, OwnPhase
<1>22. CASE Update(t)
  <2>1. pc'[t] \in {"up_bucket", "up_write"} /\ pc[t] = "lk_held" /\ UNCHANGED <<free, state>>
    BY <1>22, <1>0 DEF Update, argVars
  <2> QED BY <2>1, <1>0, <1>a, FreeFrame DEF InsPhase, OwnPhase
<1>23. CASE UpdateWalk(t)
  <2>1. pc'[t] \in {"up_walk"} /\ pc[t] = "up_walk" /\ UNCHANGED <<free, state>>
    BY <1>23, <1>0 DEF UpdateWalk, argVars
  <2> QED BY <2>1, <1>0, <1>a, FreeFrame DEF InsPhase, OwnPhase
<1>24. CASE UpdateChecked(t)
  <2>1. pc'[t] \in {"up_walk", "up_write"} /\ pc[t] = "up_walk" /\ UNCHANGED <<free, state>>
    BY <1>24, <1>0 DEF UpdateChecked, argVars, CheckKeys
  <2> QED BY <2>1, <1>0, <1>a, FreeFrame DEF InsPhase, OwnPhase
<1>25. CASE UpdateDup(t)
  BY <1>25, <1>0, <1>a, FreeFrame, ReturnFacts DEF UpdateDup, UnlockRow, InsPhase,
     OwnPhase
<1>26. CASE UpdateWrite(t)
  <2>1. pc'[t] \in {"idle", "up_relink"} /\ pc[t] = "up_write" /\ UNCHANGED <<free, state>>
    BY <1>26, <1>0, <1>a, ReturnFacts DEF UpdateWrite, argVars, UnlockRow
  <2> QED BY <2>1, <1>0, <1>a, FreeFrame DEF InsPhase, OwnPhase
<1>27. CASE UpdateRelink(t)
  <2>1. pc'[t] \in {"idle", "up_relink"} /\ pc[t] = "up_relink" /\ UNCHANGED <<free, state>>
    BY <1>27, <1>0, <1>a, ReturnFacts DEF UpdateRelink, argVars, UnlockRow
  <2> QED BY <2>1, <1>0, <1>a, FreeFrame DEF InsPhase, OwnPhase
<1>28. CASE Delete(t)
  <2>1. /\ pc'[t] = "dl_unlink" /\ pc[t] = "lk_held" /\ free' = free
        /\ state' = [state EXCEPT ![idx[t]] = "DELETING"]
    BY <1>28, <1>0 DEF Delete
  <2>2. state[idx[t]] = "ACTIVE"
    BY <2>1 DEF BaseInv, RowOK
  <2>3. \A m \in 1 .. Len(free) : free[m] \in Slots /\ free[m] # idx[t]
    BY <1>b, <2>2 DEF FreeOK, FreeDead
  <2> QED BY <1>0, <1>a, <2>1, <2>3, FreeFrame DEF InsPhase, OwnPhase
<1>29. CASE DeleteDead(t)
  <2>1. /\ pc'[t] = "dl_push" /\ pc[t] = "dl_dead" /\ free' = free /\ idx' = idx
        /\ state' = [state EXCEPT ![idx[t]] = "DELETED"]
    BY <1>29, <1>0 DEF DeleteDead, argVars
  <2>2. state[idx[t]] = "DELETING" /\ pc[t] \in InsPhase \cup RowPhase
    BY <2>1 DEF BaseInv, RowOK, RowPhase, DelPhase
  <2>3. \A m \in 1 .. Len(free) : free[m] \in Slots /\ free[m] # idx[t]
    BY <1>b, <2>2 DEF FreeOK, FreeDead
  <2>4. \A u \in Threads \ {t} : pc[u] \in InsPhase => idx[u] # idx[t]
    BY <2>2, SlotOwner
  <2>5. FreeDistinct' /\ FreeDead'
    BY <1>a, <1>b, <2>1, <2>3 DEF FreeOK, FreeDistinct, FreeDead
  <2>6. pc'[t] \notin InsPhase
    BY <2>1 DEF InsPhase
  <2>7. FreeUnowned'
    <3> SUFFICES ASSUME NEW m \in 1 .. Len(free), NEW u \in Threads, pc'[u] \in OwnPhase
                 PROVE  free[m] # idx'[u]
      BY <2>1 DEF FreeUnowned
    <3>1. CASE u = t
      BY <2>1, <2>3, <3>1
    <3>2. CASE u # t
      <4>1. pc[u] \in OwnPhase /\ idx'[u] = idx[u]
        BY <1>0, <3>2
      <4> QED BY <1>b, <4>1 DEF FreeOK, FreeUnowned
    <3> QED BY <3>1, <3>2
  <2>8. OwnersApart'
    <3> SUFFICES ASSUME NEW u \in Threads, NEW v \in Threads, pc'[u] \in InsPhase,
                        pc'[v] = "dl_push"
                 PROVE  idx'[u] # idx'[v]
      BY DEF OwnersApart
    <3>1. u # t /\ pc[u] \in InsPhase /\ idx'[u] = idx[u]
      BY <1>0, <2>6
    <3>2. CASE v = t
      BY <2>1, <2>4, <3>1, <3>2
    <3>3. CASE v # t
      <4>1. pc[v] = "dl_push" /\ idx'[v] = idx[v]
        BY <1>0, <3>3
      <4> QED BY <1>b, <3>1, <4>1 DEF FreeOK, OwnersApart
    <3> QED BY <3>2, <3>3
  <2> QED BY <2>5, <2>7, <2>8 DEF FreeOK
<1>30. CASE FindStep(t)
  <2>1. pc'[t] \in {"fd_walk"} /\ pc[t] = "fd_walk" /\ UNCHANGED <<free, state>>
    BY <1>30, <1>0 DEF FindStep, argVars
  <2> QED BY <2>1, <1>0, <1>a, FreeFrame DEF InsPhase, OwnPhase
<1>31. CASE FindHit(t)
  BY <1>31, <1>0, <1>a, FreeFrame DEF FindHit, Answer, InsPhase, OwnPhase
<1>32. CASE FindMiss(t)
  BY <1>32, <1>0, <1>a, FreeFrame DEF FindMiss, Answer, InsPhase, OwnPhase
<1>33. CASE EndFind(t)
  BY <1>33, <1>0, <1>a, FreeFrame, ReturnFacts DEF EndFind, InsPhase, OwnPhase
<1> QED BY StepCases, <1>1, <1>2, <1>3, <1>4, <1>5, <1>6, <1>7, <1>8, <1>9, <1>10, <1>11,
     <1>12, <1>13, <1>14, <1>15, <1>16, <1>17, <1>18, <1>19, <1>20, <1>21, <1>22, <1>23, <1>24,
     <1>25, <1>26, <1>27, <1>28, <1>29, <1>30, <1>31, <1>32, <1>33

-----------------------------------------------------------------------------
(* The invariant holds initially and every step keeps it.                  *)

LEMMA InitTypes == ASSUME Init PROVE Types
<1>1. SlotTypes
  <2>1. PICK r \in Recs : row = [i \in Slots |-> r]
    BY RecsAssumption DEF Init
  <2>2. 0 \in 0 .. MaxGen
    BY SMTT(30), SizesAssumption
  <2> QED BY <2>1, <2>2, TypeFacts DEF Init, SlotTypes
<1>2. ChainTypes
  BY TypeFacts DEF Init, ChainTypes
<1>3. ShareTypes
  <2>1. free = [n \in 1 .. max_records |-> n - 1]
    BY DEF Init
  <2>2. free \in Seq(Slots)
    BY SMTT(30), <2>1, SizesAssumption DEF Slots
  <2> QED BY <2>2, TypeFacts DEF Init, ShareTypes
<1>4. LocalTypes
  BY TypeFacts, LabelFacts, KeyNoFacts DEF Init, LocalTypes
<1>5. ScanTypes
  BY DEF Init, ScanTypes
<1> QED BY <1>1, <1>2, <1>3, <1>4, <1>5 DEF Types

LEMMA InitFree == ASSUME Init PROVE FreeOK
<1>1. /\ Len(free) = max_records
      /\ \A m \in 1 .. max_records : free[m] = m - 1 /\ free[m] \in Slots
      /\ \A m \in 1 .. max_records : \A n \in 1 .. max_records : m - 1 = n - 1 => m = n
  BY SMTT(30), SizesAssumption DEF Init, Slots
<1>2. \A t \in Threads : pc[t] \notin OwnPhase
  BY DEF Init, OwnPhase, InsPhase
<1>3. FreeDistinct
  <2> SUFFICES ASSUME NEW m \in 1 .. max_records, NEW n \in 1 .. max_records, free[m] = free[n]
               PROVE  m = n
    BY <1>1 DEF FreeDistinct
  <2> QED BY <1>1
<1>4. \A i \in Slots : state[i] = "FREE"
  BY DEF Init
<1>5. FreeDead
  BY <1>1, <1>4 DEF FreeDead
<1>6. FreeUnowned /\ OwnersApart
  BY <1>2 DEF FreeUnowned, OwnersApart, OwnPhase
<1> QED BY <1>3, <1>5, <1>6 DEF FreeOK

LEMMA BaseInit == ASSUME Init PROVE BaseInv
<1> SUFFICES ASSUME NEW t \in Threads PROVE ArgsOK(t) /\ RowOK(t) /\ LockOK(t)
  BY InitTypes, InitFree DEF BaseInv
<1>1. pc[t] = "idle" /\ key[t] = 0 /\ op[t] = "none" /\ idx[t] = FM_NULL_SLOT
  BY DEF Init
<1>2. ArgsOK(t)
  BY <1>1 DEF ArgsOK, InsPhase, RowPhase, UpPhase, DelPhase, FindPhase
<1>3. RowOK(t)
  BY <1>1 DEF RowOK, InsPhase
<1>4. t # NoThread
  BY ThreadsAssumption
<1>5. MutexOK(t) /\ WlockOK(t)
  BY <1>1, <1>4 DEF Init, MutexOK, WlockOK, InsPhase, RowPhase, UpPhase, DelPhase
<1>6. BlockOK(t) /\ OrderOK(t)
  BY <1>1, <1>4 DEF Init, BlockOK, OrderOK, HoldsBucket, UpPhase
<1> QED BY <1>2, <1>3, <1>5, <1>6 DEF LockOK

\* A thread that takes no step keeps its part of the invariant.
LEMMA Others ==
    ASSUME WellOrdered, BaseInv, NEW t \in Threads, Step(t), NEW u \in Threads \ {t}
    PROVE  ArgsOK(u)' /\ RowOK(u)' /\ LockOK(u)'
<1>1. /\ Types /\ LocalTypes /\ ScanTypes /\ ArgsOK(t) /\ LockOK(t)
      /\ u \in Threads /\ ArgsOK(u) /\ RowOK(u) /\ LockOK(u)
  BY DEF BaseInv, Types
<1>2. SameLocals(u)
  BY <1>1, OthersSame
<1>3. SameLocks(u)
  BY <1>1, OthersLocks
<1>4. ArgsOK(u)'
  BY <1>1, <1>2, ArgsFrame
<1>5. LockOK(u)'
  BY <1>1, <1>2, <1>3, LockFrame
<1>6. pc[u] \in InsPhase \cup RowPhase =>
         /\ state'[idx[u]] = state[idx[u]] /\ row'[idx[u]] = row[idx[u]]
         /\ gen'[idx[u]] = gen[idx[u]]
  BY OthersSlots
<1>7. RowOK(u)'
  BY <1>1, <1>2, <1>6, RowFrame
<1> QED BY <1>4, <1>5, <1>7

LEMMA BaseStep ==
    ASSUME WellOrdered, BaseInv, NEW t \in Threads, Step(t) PROVE BaseInv'
<1>1. Types /\ FreeOK /\ ArgsOK(t) /\ RowOK(t) /\ LockOK(t)
  BY DEF BaseInv
<1>2. SlotTypes' /\ ChainTypes' /\ ShareTypes'
  BY <1>1, SlotTypesStep, ChainTypesStep, ShareTypesStep
<1>3. LocalTypes' /\ ScanTypes'
  BY <1>1, LocalTypesStep, ScanTypesStep
<1>4. FreeOK'
  BY FreeStep
<1>5. ArgsOK(t)' /\ RowOK(t)'
  BY <1>1, ArgsStep, RowStep
<1>6. MutexOK(t) /\ WlockOK(t) /\ BlockOK(t)
  BY <1>1 DEF LockOK
<1>7. MutexOK(t)' /\ WlockOK(t)'
  BY <1>1, <1>6, MutexStep, WlockStep
<1>8. BlockOK(t)' /\ OrderOK(t)'
  BY <1>1, <1>6, BlockStep, OrderStep
<1>9. LockOK(t)'
  BY <1>7, <1>8 DEF LockOK
<1>10. \A u \in Threads : ArgsOK(u)' /\ RowOK(u)' /\ LockOK(u)'
  BY <1>5, <1>9, Others
<1>11. Types'
  BY <1>2, <1>3 DEF Types
<1> QED BY <1>4, <1>10, <1>11 DEF BaseInv

LEMMA BaseStutter == ASSUME BaseInv, UNCHANGED vars PROVE BaseInv'
<1> USE DEF vars, slotVars, chainVars, argVars, walkVars, scanVars
<1>1. SlotTypes' /\ ChainTypes' /\ ShareTypes'
  BY DEF BaseInv, Types, SlotTypes, ChainTypes, ShareTypes
<1>2. LocalTypes' /\ ScanTypes'
  BY DEF BaseInv, Types, LocalTypes, ScanTypes
<1>3. FreeOK'
  BY DEF BaseInv, FreeOK, FreeDistinct, FreeDead, FreeUnowned, OwnersApart
<1>4. ASSUME NEW t \in Threads PROVE ArgsOK(t)' /\ RowOK(t)' /\ LockOK(t)'
  <2>1. ArgsOK(t) /\ RowOK(t) /\ LockOK(t)
    BY DEF BaseInv
  <2>2. SameLocals(t) /\ SameLocks(t)
    BY DEF SameLocals, SameLocks
  <2>3. /\ state'[idx[t]] = state[idx[t]] /\ row'[idx[t]] = row[idx[t]]
        /\ gen'[idx[t]] = gen[idx[t]]
    OBVIOUS
  <2>4. ArgsOK(t)' /\ LockOK(t)'
    BY <2>1, <2>2, ArgsFrame, LockFrame
  <2>5. RowOK(t)'
    BY <2>1, <2>2, <2>3, RowFrame
  <2> QED BY <2>4, <2>5
<1> QED BY <1>1, <1>2, <1>3, <1>4 DEF BaseInv, Types

-----------------------------------------------------------------------------
(* No circular wait.                                                       *)

\* Steps at which a thread waits for no one, and what an update waits for.
LEMMA WaitFacts ==
    ASSUME NEW t \in Threads
    PROVE  /\ WaitsFor(t) # NoThread =>
                pc[t] \in {"ins_bucket", "ins_undo", "up_bucket", "dl_unlink", "fd_lock",
                           "lk_lock", "ins_alloc", "dl_push"}
           /\ pc[t] \in {"ins_bucket", "ins_undo"} => WaitsFor(t) = block[key[t]][NewBucket(t)]
           /\ pc[t] = "up_bucket" => WaitsFor(t) = block[NextLock(t)[1]][NextLock(t)[2]]
           /\ pc[t] = "dl_unlink" => WaitsFor(t) = block[key[t]][Bucket(row[idx[t]][key[t]])]
           /\ pc[t] = "fd_lock" => WaitsFor(t) = block[key[t]][WantBucket(t)]
           /\ pc[t] = "lk_lock" => WaitsFor(t) = wlock[idx[t]]
           /\ pc[t] \in {"ins_alloc", "dl_push"} => WaitsFor(t) = struct_mutex
<1>1. pc[t] \notin {"ins_bucket", "ins_undo", "up_bucket", "dl_unlink", "fd_lock", "lk_lock",
                    "ins_alloc", "dl_push"} => WaitsFor(t) = NoThread
  BY DEF WaitsFor
<1>2. pc[t] \in {"ins_bucket", "ins_undo"} => WaitsFor(t) = block[key[t]][NewBucket(t)]
  BY DEF WaitsFor
<1>3. pc[t] = "up_bucket" => WaitsFor(t) = block[NextLock(t)[1]][NextLock(t)[2]]
  BY DEF WaitsFor
<1>4. pc[t] = "dl_unlink" => WaitsFor(t) = block[key[t]][Bucket(row[idx[t]][key[t]])]
  BY DEF WaitsFor
<1>5. pc[t] = "fd_lock" => WaitsFor(t) = block[key[t]][WantBucket(t)]
  BY DEF WaitsFor
<1>6. pc[t] = "lk_lock" => WaitsFor(t) = wlock[idx[t]]
  BY DEF WaitsFor
<1>7. pc[t] \in {"ins_alloc", "dl_push"} => WaitsFor(t) = struct_mutex
  BY DEF WaitsFor
<1> QED BY <1>1, <1>2, <1>3, <1>4, <1>5, <1>6, <1>7

\* A thread that holds a bucket lock and waits is an update waiting for a greater one.
LEMMA BucketHolder ==
    ASSUME WellOrdered, BaseInv, NEW u \in Threads, WaitsFor(u) # NoThread,
           NEW k \in KeyNos, NEW b \in Buckets, block[k][b] = u
    PROVE  pc[u] = "up_bucket" /\ Less(<<k, b>>, NextLock(u))
<1>1. ArgsOK(u) /\ BlockOK(u) /\ OrderOK(u)
  BY DEF BaseInv, LockOK
<1>2. HoldsBucket(u, k, b)
  BY <1>1 DEF BlockOK
<1>3. pc[u] = "up_bucket" /\ <<k, b>> \in LockSet(u)
  BY <1>2, WaitFacts DEF HoldsBucket, UpPhase
<1>4. <<k, b>> \notin Missing(u)
  BY SMTT(30) DEF Missing
<1>5. old[u] \in Recs /\ new[u] \in Recs /\ Missing(u) # {}
  BY <1>1, <1>3 DEF ArgsOK, OrderOK, RowPhase, UpPhase
<1>6. NextLock(u) \in Missing(u)
  BY <1>5, NextLockFacts
<1> QED BY <1>1, <1>3, <1>4, <1>6 DEF OrderOK

\* What an update waits for is a bucket lock.
LEMMA UpdateWaits ==
    ASSUME WellOrdered, BaseInv, NEW t \in Threads, pc[t] = "up_bucket"
    PROVE  NextLock(t) \in KeyNos \X Buckets /\ WaitsFor(t) = block[NextLock(t)[1]][NextLock(t)[2]]
<1>1. ArgsOK(t) /\ OrderOK(t)
  BY DEF BaseInv, LockOK
<1>2. old[t] \in Recs /\ new[t] \in Recs /\ Missing(t) # {}
  BY <1>1 DEF ArgsOK, OrderOK, RowPhase, UpPhase
<1> QED BY <1>2, NextLockFacts, WaitFacts

\* Whoever waits for a thread that waits in turn waits, in the end, for an update.
LEMMA BucketWaiter ==
    ASSUME WellOrdered, BaseInv, NEW t \in Threads,
           pc[t] \in {"ins_bucket", "ins_undo", "up_bucket", "dl_unlink", "fd_lock"}
    PROVE  \E k \in KeyNos, b \in Buckets : WaitsFor(t) = block[k][b]
<1>1. ArgsOK(t) /\ row \in [Slots -> Recs]
  BY DEF BaseInv, Types, SlotTypes
<1>2. CASE pc[t] \in {"ins_bucket", "ins_undo"}
  <2>1. key[t] \in KeyNos /\ new[t] \in Recs
    BY <1>1, <1>2 DEF ArgsOK, InsPhase
  <2>2. NewBucket(t) \in Buckets
    BY <2>1, RecFacts DEF NewBucket
  <2> QED BY <1>2, <2>1, <2>2, WaitFacts
<1>3. CASE pc[t] = "up_bucket"
  <2>1. PICK l \in KeyNos \X Buckets : l = NextLock(t)
    BY <1>3, UpdateWaits
  <2>2. l[1] \in KeyNos /\ l[2] \in Buckets
    BY SMTT(30)
  <2> QED BY <1>3, <2>1, <2>2, UpdateWaits
<1>4. CASE pc[t] = "dl_unlink"
  <2>1. key[t] \in KeyNos /\ idx[t] \in Slots
    BY <1>1, <1>4 DEF ArgsOK, RowPhase, DelPhase
  <2>2. Bucket(row[idx[t]][key[t]]) \in Buckets
    BY <1>1, <2>1, RecFacts
  <2> QED BY <1>4, <2>1, <2>2, WaitFacts
<1>5. CASE pc[t] = "fd_lock"
  <2>1. key[t] \in KeyNos /\ WantBucket(t) \in Buckets
    BY <1>1, <1>5, FindArgs DEF FindPhase
  <2> QED BY <1>5, <2>1, WaitFacts
<1> QED BY <1>2, <1>3, <1>4, <1>5

LEMMA WaitsForUpdate ==
    ASSUME WellOrdered, BaseInv, NEW T \in SUBSET Threads, \A t \in T : WaitsFor(t) \in T, T # {}
    PROVE  \E t \in T : pc[t] = "up_bucket"
<1>0. \A t \in T : t \in Threads /\ WaitsFor(t) # NoThread
  BY ThreadsAssumption
<1>1. ASSUME NEW t \in T, pc[t] \in {"ins_bucket", "ins_undo", "up_bucket", "dl_unlink", "fd_lock"}
      PROVE  \E u \in T : pc[u] = "up_bucket"
  <2>1. PICK k \in KeyNos, b \in Buckets : WaitsFor(t) = block[k][b]
    BY <1>0, <1>1, BucketWaiter
  <2>2. block[k][b] \in T
    BY <2>1
  <2> QED BY <1>0, <2>2, BucketHolder
<1>2. ASSUME NEW t \in T, pc[t] \in {"ins_alloc", "dl_push"}
      PROVE  \E u \in T : pc[u] = "up_bucket"
  <2>1. struct_mutex \in T
    BY <1>0, <1>2, WaitFacts
  <2>2. pc[struct_mutex] \in InsPhase
    BY <1>0, <2>1 DEF BaseInv, LockOK, MutexOK
  <2>3. pc[struct_mutex] \in {"ins_bucket", "ins_undo"}
    BY <1>0, <2>1, <2>2, WaitFacts DEF InsPhase
  <2> QED BY <1>1, <2>1, <2>3
<1>3. ASSUME NEW t \in T, pc[t] = "lk_lock"
      PROVE  \E u \in T : pc[u] = "up_bucket"
  <2>1. PICK u \in T : u = wlock[idx[t]]
    BY <1>0, <1>3, WaitFacts
  <2>2. idx[t] \in Slots
    BY <1>0, <1>3 DEF BaseInv, ArgsOK
  <2>3. pc[u] \in RowPhase
    BY <1>0, <2>1, <2>2 DEF BaseInv, LockOK, WlockOK
  <2>4. pc[u] \in {"up_bucket", "dl_unlink"} \/ pc[u] = "dl_push"
    BY <1>0, <2>3, WaitFacts DEF RowPhase, UpPhase, DelPhase
  <2> QED BY <1>1, <1>2, <2>4
<1>4. PICK t \in T : TRUE
  OBVIOUS
<1>5. \/ pc[t] \in {"ins_bucket", "ins_undo", "up_bucket", "dl_unlink", "fd_lock"}
      \/ pc[t] \in {"ins_alloc", "dl_push"} \/ pc[t] = "lk_lock"
  BY <1>0, <1>4, WaitFacts
<1> QED BY <1>1, <1>2, <1>3, <1>4, <1>5

\* A set of pairs (key, bucket) that is not empty has a greatest one.
LEMMA Greatest ==
    ASSUME WellOrdered, NEW L \in SUBSET (KeyNos \X Buckets), L # {}
    PROVE  \E l \in L : \A m \in L : ~Less(l, m)
<1> DEFINE K == {keys - l[1] : l \in L}
<1>1. K \in SUBSET Nat /\ K # {}
  BY SMTT(30), KeysAssumption DEF KeyNos
<1>2. PICK x \in K : \A y \in K : x <= y
  BY <1>1 DEF WellOrdered
<1>3. PICK p \in L : x = keys - p[1]
  BY <1>2
<1> DEFINE B == {nbuckets - l[2] : l \in {m \in L : m[1] = p[1]}}
<1>4. B \in SUBSET Nat /\ B # {}
  BY SMTT(30), <1>3, SizesAssumption DEF Buckets
<1>5. PICK z \in B : \A y \in B : z <= y
  BY <1>4 DEF WellOrdered
<1>6. PICK l \in L : l[1] = p[1] /\ z = nbuckets - l[2]
  BY <1>5
<1>7. ASSUME NEW m \in L PROVE ~Less(l, m)
  <2>1. keys - p[1] <= keys - m[1]
    BY <1>2, <1>3
  <2>2. m[1] = p[1] => nbuckets - l[2] <= nbuckets - m[2]
    BY <1>5, <1>6
  <2>3. /\ m[1] \in Int /\ m[2] \in Int /\ l[1] \in Int /\ l[2] \in Int /\ p[1] \in Int
        /\ keys \in Int /\ nbuckets \in Int
    BY SMTT(30), KeysAssumption, SizesAssumption DEF KeyNos, Buckets
  <2> HIDE DEF K, B
  <2> QED BY SMTT(30), <1>6, <2>1, <2>2, <2>3 DEF Less
<1> QED BY <1>7

\* Whoever waits for struct_mutex, a wlock or a bucket lock waits in the end for
\* an update that takes its bucket locks (fm_core_update_row_locked), and those
\* are taken in ascending order of key number and bucket.
LEMMA NoCycle == ASSUME WellOrdered, BaseInv PROVE NoCircularWait
<1> SUFFICES ASSUME NEW T \in (SUBSET Threads) \ {{}}, \A t \in T : WaitsFor(t) \in T
             PROVE  FALSE
  BY DEF NoCircularWait
<1>0. T \in SUBSET Threads /\ T # {}
  OBVIOUS
<1> DEFINE L == {NextLock(t) : t \in {u \in T : pc[u] = "up_bucket"}}
<1>1. \A t \in T : t \in Threads /\ WaitsFor(t) # NoThread
  BY <1>0, ThreadsAssumption
<1>2. L \in SUBSET (KeyNos \X Buckets)
  <2>1. \A t \in {u \in T : pc[u] = "up_bucket"} : NextLock(t) \in KeyNos \X Buckets
    BY <1>1, UpdateWaits
  <2> QED BY <2>1
<1>3. L # {}
  BY <1>0, WaitsForUpdate
<1>4. PICK l \in L : \A m \in L : ~Less(l, m)
  BY <1>2, <1>3, Greatest
<1>5. PICK t \in T : pc[t] = "up_bucket" /\ l = NextLock(t)
  BY <1>4
<1>6. PICK k \in KeyNos, b \in Buckets : l = <<k, b>>
  BY SMTT(30), <1>2, <1>4
<1>7. WaitsFor(t) = block[k][b]
  <2>1. l[1] = k /\ l[2] = b
    BY SMTT(30), <1>6
  <2> QED BY <1>1, <1>5, <2>1, UpdateWaits
<1>8. PICK u \in T : u = block[k][b]
  BY <1>5, <1>7
<1>9. pc[u] = "up_bucket" /\ Less(l, NextLock(u))
  BY <1>1, <1>6, <1>8, BucketHolder
<1> QED BY <1>4, <1>9

-----------------------------------------------------------------------------
(* Chains.                                                                 *)

\* g lists the links of a chain from hd on, along the links N; after the end
\* it stays at FM_NULL_SLOT.  No row occurs twice, the rows are those of S.
Follows(g, hd, N) ==
    /\ g \in [Nat -> Links] /\ g[0] = hd
    /\ \A n \in Nat : g[n + 1] = IF g[n] = FM_NULL_SLOT THEN FM_NULL_SLOT ELSE N[g[n]]
Distinct(g) == \A m \in Nat : \A n \in Nat : g[m] = g[n] /\ g[m] # FM_NULL_SLOT => m = n
Lists(g, S) == \A i \in Slots : i \in S <=> \E n \in Nat : g[n] = i

Chain(hd, N, S) ==
    \E g \in [Nat -> Links] : Follows(g, hd, N) /\ Distinct(g) /\ Lists(g, S)

\* A link that is not FM_NULL_SLOT is one of the rows.
LEMMA ListsIn ==
    ASSUME NEW S, NEW g, g \in [Nat -> Links], Lists(g, S), NEW n \in Nat, g[n] # FM_NULL_SLOT
    PROVE  g[n] \in Slots /\ g[n] \in S
<1>1. g[n] \in Slots
  BY TypeFacts
<1> QED BY <1>1 DEF Lists

\* The empty chain.
LEMMA ChainEmpty == ASSUME NEW N PROVE Chain(FM_NULL_SLOT, N, {})
<1> DEFINE g == [n \in Nat |-> FM_NULL_SLOT]
<1>1. g \in [Nat -> Links]
  BY TypeFacts
<1>2. \A n \in Nat : n + 1 \in Nat /\ g[n] = FM_NULL_SLOT
  BY SMTT(30)
<1>3. Follows(g, FM_NULL_SLOT, N)
  <2>1. g[0] = FM_NULL_SLOT
    BY SMTT(30)
  <2> HIDE DEF g
  <2> QED BY <1>1, <1>2, <2>1 DEF Follows
<1> HIDE DEF g
<1>4. Distinct(g) /\ Lists(g, {})
  BY <1>2, TypeFacts DEF Distinct, Lists
<1> QED BY <1>1, <1>3, <1>4 DEF Chain

\* The links before one that is not FM_NULL_SLOT are not FM_NULL_SLOT.
LEMMA BeforeEnd ==
    ASSUME WellOrdered, NEW g, NEW hd, NEW N, Follows(g, hd, N), NEW p \in Nat, g[p] # FM_NULL_SLOT,
           NEW m \in Nat, m <= p
    PROVE  g[m] # FM_NULL_SLOT
<1> SUFFICES ASSUME g[m] = FM_NULL_SLOT PROVE FALSE
  BY SMTT(30)
<1> DEFINE T == {d \in Nat : g[m + d] # FM_NULL_SLOT}
<1>1. PICK e \in Nat : m + e = p
  <2>1. p - m \in Nat /\ m + (p - m) = p
    BY SMTT(30)
  <2> QED BY <2>1
<1>2. T \in SUBSET Nat /\ T # {}
  <2>1. g[m + e] # FM_NULL_SLOT
    BY <1>1
  <2> QED BY <2>1
<1>3. PICK d \in T : \A c \in T : d <= c
  BY <1>2 DEF WellOrdered
<1>4. d # 0
  BY SMTT(30), <1>3
<1>5. d - 1 \in Nat /\ ~(d <= d - 1) /\ m + (d - 1) \in Nat /\ m + (d - 1) + 1 = m + d
  BY SMTT(30), <1>3, <1>4
<1>6. g[m + (d - 1)] = FM_NULL_SLOT
  BY <1>3, <1>5
<1>7. g[m + (d - 1) + 1] = FM_NULL_SLOT
  BY <1>5, <1>6 DEF Follows
<1> QED BY <1>3, <1>5, <1>7

\* A chain that starts with FM_NULL_SLOT has no rows.
LEMMA ChainEnd ==
    ASSUME WellOrdered, NEW N, NEW S \in SUBSET Slots, Chain(FM_NULL_SLOT, N, S) PROVE S = {}
<1>1. PICK g \in [Nat -> Links] : Follows(g, FM_NULL_SLOT, N) /\ Lists(g, S)
  BY DEF Chain
<1> SUFFICES ASSUME NEW i \in S PROVE FALSE
  OBVIOUS
<1>2. PICK n \in Nat : g[n] = i
  BY <1>1 DEF Lists
<1>3. g[n] # FM_NULL_SLOT
  BY <1>2, TypeFacts
<1>4. 0 \in Nat /\ 0 <= n
  BY SMTT(30)
<1>5. g[0] # FM_NULL_SLOT
  BY <1>1, <1>3, <1>4, BeforeEnd
<1> QED BY <1>1, <1>5 DEF Follows

\* The first row of a chain, and the chain after it.
LEMMA ChainNext ==
    ASSUME NEW hd \in Slots, NEW N, NEW S \in SUBSET Slots, Chain(hd, N, S)
    PROVE  hd \in S /\ Chain(N[hd], N, S \ {hd})
<1>1. PICK g \in [Nat -> Links] : Follows(g, hd, N) /\ Distinct(g) /\ Lists(g, S)
  BY DEF Chain
<1> DEFINE f == [n \in Nat |-> g[n + 1]]
<1>0. \A n \in Nat : n + 1 \in Nat /\ n + 1 # 0 /\ (n # 0 => \E m \in Nat : n = m + 1)
  BY SMTT(30)
<1>a. \A m \in Nat : \A n \in Nat : m + 1 = n + 1 => m = n
  BY SMTT(30)
<1>2. f \in [Nat -> Links] /\ \A n \in Nat : f[n] = g[n + 1]
  BY <1>0
<1>3. hd # FM_NULL_SLOT /\ g[0] = hd /\ 0 \in Nat
  BY <1>1, TypeFacts DEF Follows
<1> HIDE DEF f
<1>4. Follows(f, N[hd], N)
  <2>1. f[0] = N[hd]
    BY <1>1, <1>2, <1>3 DEF Follows
  <2>2. ASSUME NEW n \in Nat
        PROVE  f[n + 1] = IF f[n] = FM_NULL_SLOT THEN FM_NULL_SLOT ELSE N[f[n]]
    BY <1>0, <1>1, <1>2 DEF Follows
  <2> QED BY <1>2, <2>1, <2>2 DEF Follows
<1>5. Distinct(f)
  <2> SUFFICES ASSUME NEW m \in Nat, NEW n \in Nat, f[m] = f[n], f[m] # FM_NULL_SLOT
               PROVE  m = n
    BY DEF Distinct
  <2>1. g[m + 1] = g[n + 1] /\ g[m + 1] # FM_NULL_SLOT
    BY <1>2
  <2> QED BY <1>0, <1>a, <1>1, <2>1 DEF Distinct
<1>6. Lists(f, S \ {hd})
  <2> SUFFICES ASSUME NEW i \in Slots PROVE i \in S \ {hd} <=> \E n \in Nat : f[n] = i
    BY DEF Lists
  <2>1. ASSUME i \in S \ {hd} PROVE \E n \in Nat : f[n] = i
    <3>1. PICK n \in Nat : g[n] = i
      BY <1>1, <2>1 DEF Lists
    <3>2. n # 0
      BY <1>3, <2>1, <3>1
    <3> QED BY <1>0, <1>2, <3>1, <3>2
  <2>2. ASSUME NEW n \in Nat, f[n] = i PROVE i \in S \ {hd}
    <3>1. i \in S /\ i # FM_NULL_SLOT
      BY <1>0, <1>1, <1>2, <2>2, TypeFacts DEF Lists
    <3>2. i # hd
      BY <1>0, <1>1, <1>2, <1>3, <2>2, <3>1 DEF Distinct
    <3> QED BY <3>1, <3>2
  <2> QED BY <2>1, <2>2
<1>7. hd \in S
  BY <1>1, <1>3 DEF Lists
<1> QED BY <1>2, <1>4, <1>5, <1>6, <1>7 DEF Chain

\* Links of other rows do not matter.
LEMMA ChainFrame ==
    ASSUME NEW hd, NEW N, NEW M, NEW S, Chain(hd, N, S), \A i \in S : M[i] = N[i]
    PROVE  Chain(hd, M, S)
<1>1. PICK g \in [Nat -> Links] : Follows(g, hd, N) /\ Distinct(g) /\ Lists(g, S)
  BY DEF Chain
<1>2. ASSUME NEW n \in Nat
      PROVE  g[n + 1] = IF g[n] = FM_NULL_SLOT THEN FM_NULL_SLOT ELSE M[g[n]]
  BY <1>1, ListsIn DEF Follows
<1>3. Follows(g, hd, M)
  BY <1>1, <1>2 DEF Follows
<1> QED BY <1>1, <1>3 DEF Chain

\* fm_core_chain_link: a row in front of a chain.
LEMMA ChainLink ==
    ASSUME NEW hd \in Links, NEW N, NEW M, NEW S \in SUBSET Slots, Chain(hd, N, S),
           NEW i \in Slots, i \notin S, M[i] = hd, \A j \in S : M[j] = N[j]
    PROVE  Chain(i, M, S \cup {i})
<1>1. PICK g \in [Nat -> Links] : Follows(g, hd, M) /\ Distinct(g) /\ Lists(g, S)
  <2>1. Chain(hd, M, S)
    BY ChainFrame
  <2> QED BY <2>1 DEF Chain
<1> DEFINE f == [n \in Nat |-> IF n = 0 THEN i ELSE g[n - 1]]
<1>2. /\ \A n \in Nat : n + 1 \in Nat /\ n + 1 # 0 /\ n + 1 - 1 = n
      /\ \A n \in Nat : n # 0 => n - 1 \in Nat /\ n = n - 1 + 1
      /\ 0 \in Nat
  BY SMTT(30)
<1>3. f[0] = i /\ (\A n \in Nat : n # 0 => f[n] = g[n - 1]) /\ \A n \in Nat : f[n + 1] = g[n]
  <2>1. f[0] = i /\ \A n \in Nat : n # 0 => f[n] = g[n - 1]
    BY <1>2
  <2> HIDE DEF f
  <2>2. ASSUME NEW n \in Nat PROVE f[n + 1] = g[n]
    <3>1. n + 1 \in Nat /\ n + 1 # 0
      BY <1>2
    <3>2. f[n + 1] = g[n + 1 - 1]
      BY SMTT(30), <2>1, <3>1
    <3> QED BY <1>2, <3>2
  <2> QED BY <2>1, <2>2
<1>4. f \in [Nat -> Links]
  BY <1>2, TypeFacts
<1> HIDE DEF f
<1>5. i # FM_NULL_SLOT
  BY TypeFacts
<1>6. Follows(f, i, M)
  <2>1. ASSUME NEW n \in Nat
        PROVE  f[n + 1] = IF f[n] = FM_NULL_SLOT THEN FM_NULL_SLOT ELSE M[f[n]]
    <3>1. CASE n = 0
      BY <1>1, <1>2, <1>3, <1>5, <3>1 DEF Follows
    <3>2. CASE n # 0
      <4>1. n - 1 \in Nat /\ n - 1 + 1 = n /\ f[n] = g[n - 1] /\ f[n + 1] = g[n]
        BY <1>2, <1>3, <3>2
      <4>2. g[n - 1 + 1] = IF g[n - 1] = FM_NULL_SLOT THEN FM_NULL_SLOT ELSE M[g[n - 1]]
        BY <1>1, <4>1 DEF Follows
      <4> QED BY <4>1, <4>2
    <3> QED BY <3>1, <3>2
  <2> QED BY <1>3, <1>4, <2>1 DEF Follows
<1>7. ASSUME NEW n \in Nat, n # 0, f[n] = i PROVE FALSE
  BY <1>1, <1>2, <1>3, <1>7 DEF Lists
<1>8. Distinct(f)
  <2> SUFFICES ASSUME NEW m \in Nat, NEW n \in Nat, f[m] = f[n], f[m] # FM_NULL_SLOT
               PROVE  m = n
    BY DEF Distinct
  <2>1. CASE m = 0 \/ n = 0
    BY <1>3, <1>7, <2>1
  <2>2. CASE m # 0 /\ n # 0
    <3>1. /\ m - 1 \in Nat /\ n - 1 \in Nat /\ m = m - 1 + 1 /\ n = n - 1 + 1
          /\ g[m - 1] = g[n - 1] /\ g[m - 1] # FM_NULL_SLOT
      BY <1>2, <1>3, <2>2
    <3>2. m - 1 = n - 1
      BY <1>1, <3>1 DEF Distinct
    <3> QED BY <3>1, <3>2
  <2> QED BY <2>1, <2>2
<1>9. Lists(f, S \cup {i})
  <2> SUFFICES ASSUME NEW j \in Slots PROVE j \in S \cup {i} <=> \E n \in Nat : f[n] = j
    BY DEF Lists
  <2>1. ASSUME j \in S PROVE \E n \in Nat : f[n] = j
    <3>1. PICK n \in Nat : g[n] = j
      BY <1>1, <2>1 DEF Lists
    <3> QED BY <1>2, <1>3, <3>1
  <2>2. ASSUME NEW n \in Nat, f[n] = j, n # 0 PROVE j \in S
    BY <1>1, <1>2, <1>3, <2>2 DEF Lists
  <2> QED BY <1>2, <1>3, <2>1, <2>2
<1> QED BY <1>4, <1>6, <1>8, <1>9 DEF Chain

\* fm_core_chain_unlink: a chain without one of its rows.
LEMMA ChainUnlink ==
    ASSUME NEW hd \in Links, NEW N, NEW M, NEW S \in SUBSET Slots, Chain(hd, N, S), NEW i \in S,
           \A j \in S \ {i} : M[j] = IF N[j] = i THEN N[i] ELSE N[j]
    PROVE  Chain(IF hd = i THEN N[i] ELSE hd, M, S \ {i})
<1>1. PICK g \in [Nat -> Links] : Follows(g, hd, N) /\ Distinct(g) /\ Lists(g, S)
  BY DEF Chain
<1>2. PICK p \in Nat : g[p] = i
  BY <1>1 DEF Lists
<1>3. i \in Slots /\ i # FM_NULL_SLOT
  BY TypeFacts
<1>4. \A n \in Nat : g[n] = i => n = p
  BY <1>1, <1>2, <1>3 DEF Distinct
<1> DEFINE f == [n \in Nat |-> IF n < p THEN g[n] ELSE g[n + 1]]
<1>5. \A n \in Nat : n + 1 \in Nat /\ n + 1 + 1 \in Nat
  BY SMTT(30)
<1>6. /\ f \in [Nat -> Links]
      /\ \A n \in Nat : n < p => f[n] = g[n]
      /\ \A n \in Nat : ~(n < p) => f[n] = g[n + 1]
  BY <1>5
<1> HIDE DEF f
<1>7. f[0] = IF hd = i THEN N[i] ELSE hd
  <2>0. 0 \in Nat /\ 0 + 1 = 1 /\ (p # 0 <=> 0 < p)
    BY SMTT(30)
  <2>1. CASE p = 0
    <3>1. f[0] = g[0 + 1] /\ hd = i
      BY <1>1, <1>2, <1>6, <2>0, <2>1 DEF Follows
    <3>2. g[0 + 1] = N[i]
      BY <1>1, <1>2, <1>3, <2>0, <2>1 DEF Follows
    <3> QED BY <3>1, <3>2
  <2>2. CASE p # 0
    <3>1. f[0] = hd /\ hd # i
      BY <1>1, <1>4, <1>6, <2>0, <2>2 DEF Follows
    <3> QED BY <3>1
  <2> QED BY <2>1, <2>2
<1>8. ASSUME NEW n \in Nat
      PROVE  f[n + 1] = IF f[n] = FM_NULL_SLOT THEN FM_NULL_SLOT ELSE M[f[n]]
  <2>0. n + 1 \in Nat /\ n + 1 + 1 \in Nat
    BY <1>5
  <2>1. /\ g[n + 1] = IF g[n] = FM_NULL_SLOT THEN FM_NULL_SLOT ELSE N[g[n]]
        /\ g[n + 1 + 1] = IF g[n + 1] = FM_NULL_SLOT THEN FM_NULL_SLOT ELSE N[g[n + 1]]
    BY <1>1, <2>0 DEF Follows
  <2>2. \A m \in Nat : m # p /\ g[m] # FM_NULL_SLOT => g[m] \in S \ {i}
    BY <1>1, <1>4, ListsIn
  <2>3. CASE n + 1 < p
    <3>1. n < p /\ n # p /\ n + 1 # p
      BY SMTT(30), <2>3
    <3>2. f[n] = g[n] /\ f[n + 1] = g[n + 1] /\ g[n + 1] # i
      BY <1>4, <1>6, <2>0, <2>3, <3>1
    <3>3. CASE g[n] = FM_NULL_SLOT
      BY <2>1, <3>2, <3>3
    <3>4. CASE g[n] # FM_NULL_SLOT
      <4>1. g[n] \in S \ {i} /\ N[g[n]] # i
        BY <2>1, <2>2, <3>1, <3>2, <3>4
      <4>2. M[g[n]] = N[g[n]]
        BY <4>1
      <4> QED BY <2>1, <3>2, <3>4, <4>2
    <3> QED BY <3>3, <3>4
  <2>4. CASE n + 1 = p
    <3>1. n < p /\ n # p /\ ~(n + 1 < p)
      BY SMTT(30), <2>4
    <3>2. f[n] = g[n] /\ f[n + 1] = g[n + 1 + 1] /\ g[n + 1] = i
      BY <1>2, <1>6, <2>0, <2>4, <3>1
    <3>3. g[n] # FM_NULL_SLOT /\ N[g[n]] = i /\ g[n + 1 + 1] = N[i]
      BY <1>3, <2>1, <3>2
    <3>4. g[n] \in S \ {i}
      BY <2>2, <3>1, <3>3
    <3>5. M[g[n]] = N[i]
      BY <3>3, <3>4
    <3> QED BY <3>2, <3>3, <3>5
  <2>5. CASE ~(n + 1 < p) /\ n + 1 # p
    <3>1. ~(n < p) /\ n + 1 # p /\ n + 1 + 1 # p
      BY SMTT(30), <2>5
    <3>2. f[n] = g[n + 1] /\ f[n + 1] = g[n + 1 + 1] /\ g[n + 1 + 1] # i
      BY <1>4, <1>6, <2>0, <2>5, <3>1
    <3>3. CASE g[n + 1] = FM_NULL_SLOT
      BY <2>1, <3>2, <3>3
    <3>4. CASE g[n + 1] # FM_NULL_SLOT
      <4>1. g[n + 1] \in S \ {i} /\ N[g[n + 1]] # i
        BY <2>0, <2>1, <2>2, <3>1, <3>2, <3>4
      <4>2. M[g[n + 1]] = N[g[n + 1]]
        BY <4>1
      <4> QED BY <2>1, <3>2, <3>4, <4>2
    <3> QED BY <3>3, <3>4
  <2> QED BY <2>3, <2>4, <2>5
<1>9. Follows(f, IF hd = i THEN N[i] ELSE hd, M)
  BY <1>6, <1>7, <1>8 DEF Follows
<1>10. Distinct(f)
  <2> SUFFICES ASSUME NEW m \in Nat, NEW n \in Nat, f[m] = f[n], f[m] # FM_NULL_SLOT
               PROVE  m = n
    BY DEF Distinct
  <2>0. m + 1 \in Nat /\ n + 1 \in Nat
    BY <1>5
  <2>1. CASE m < p /\ n < p
    BY <1>1, <1>6, <2>1 DEF Distinct
  <2>2. CASE m < p /\ ~(n < p)
    <3>1. g[m] = g[n + 1] /\ g[m] # FM_NULL_SLOT
      BY <1>6, <2>2
    <3>2. m = n + 1
      BY <1>1, <2>0, <3>1 DEF Distinct
    <3> QED BY SMTT(30), <2>2, <3>2
  <2>3. CASE ~(m < p) /\ n < p
    <3>1. g[m + 1] = g[n] /\ g[m + 1] # FM_NULL_SLOT
      BY <1>6, <2>3
    <3>2. m + 1 = n
      BY <1>1, <2>0, <3>1 DEF Distinct
    <3> QED BY SMTT(30), <2>3, <3>2
  <2>4. CASE ~(m < p) /\ ~(n < p)
    <3>1. g[m + 1] = g[n + 1] /\ g[m + 1] # FM_NULL_SLOT
      BY <1>6, <2>4
    <3>2. m + 1 = n + 1
      BY <1>1, <2>0, <3>1 DEF Distinct
    <3> QED BY SMTT(30), <3>2
  <2> QED BY <2>1, <2>2, <2>3, <2>4
<1>11. Lists(f, S \ {i})
  <2> SUFFICES ASSUME NEW j \in Slots PROVE j \in S \ {i} <=> \E n \in Nat : f[n] = j
    BY DEF Lists
  <2>1. ASSUME j \in S \ {i} PROVE \E n \in Nat : f[n] = j
    <3>1. PICK n \in Nat : g[n] = j
      BY <1>1, <2>1 DEF Lists
    <3>2. n # p
      BY <1>2, <2>1, <3>1
    <3>3. n < p \/ (n - 1 \in Nat /\ ~(n - 1 < p) /\ n - 1 + 1 = n)
      BY SMTT(30), <3>2
    <3>4. CASE n < p
      BY <1>6, <3>1, <3>4
    <3>5. CASE n - 1 \in Nat /\ ~(n - 1 < p) /\ n - 1 + 1 = n
      <4>1. f[n - 1] = g[n - 1 + 1]
        BY <1>6, <3>5
      <4> QED BY <3>1, <3>5, <4>1
    <3> QED BY <3>3, <3>4, <3>5
  <2>2. ASSUME NEW n \in Nat, f[n] = j PROVE j \in S \ {i}
    <3>1. n < p => n # p
      BY SMTT(30)
    <3>2. ~(n < p) => n + 1 # p
      BY SMTT(30)
    <3>3. PICK m \in Nat : g[m] = j /\ m # p
      BY <1>5, <1>6, <2>2, <3>1, <3>2
    <3>4. j \in S
      BY <1>1, <3>3 DEF Lists
    <3> QED BY <1>4, <3>3, <3>4
  <2> QED BY <2>1, <2>2
<1> QED BY <1>6, <1>9, <1>10, <1>11 DEF Chain

\* There is no injection of 0 .. n into the numbers below n.
LEMMA Pigeons ==
    ASSUME WellOrdered, NEW n \in Nat, NEW f, \A m \in 0 .. n : f[m] \in Nat /\ f[m] < n
    PROVE  \E l \in 0 .. n : \E m \in 0 .. n : l # m /\ f[l] = f[m]
<1> DEFINE Fits(q, e) == \A m \in 0 .. q : e[m] \in Nat /\ e[m] < q
           Inj(q, e) == \A l \in 0 .. q : \A m \in 0 .. q : e[l] = e[m] => l = m
           T == {q \in Nat : \E e : Fits(q, e) /\ Inj(q, e)}
<1> SUFFICES ASSUME Inj(n, f) PROVE FALSE
  OBVIOUS
<1>1. n \in T
  OBVIOUS
<1>2. PICK q \in T : \A r \in T : q <= r
  BY <1>1 DEF WellOrdered
<1>3. PICK e : Fits(q, e) /\ Inj(q, e)
  BY <1>2
<1>4. q \in Nat /\ 0 \in 0 .. q /\ q \in 0 .. q
  BY SMTT(30), <1>2
<1>5. q # 0
  BY SMTT(30), <1>3, <1>4
<1> DEFINE d == [m \in 0 .. q - 1 |-> IF e[m] = q - 1 THEN e[q] ELSE e[m]]
<1>6. q - 1 \in Nat /\ ~(q <= q - 1) /\ \A m \in 0 .. q - 1 : m \in 0 .. q /\ m # q
  BY SMTT(30), <1>4, <1>5
<1>7. ASSUME NEW m \in 0 .. q - 1 PROVE d[m] \in Nat /\ d[m] < q - 1
  <2>1. e[m] \in Nat /\ e[m] < q /\ e[q] \in Nat /\ e[q] < q /\ e[m] # e[q]
    BY <1>3, <1>4, <1>6
  <2>2. d[m] = IF e[m] = q - 1 THEN e[q] ELSE e[m]
    OBVIOUS
  <2> HIDE DEF d
  <2> QED BY SMTT(30), <1>4, <2>1, <2>2
<1>8. ASSUME NEW l \in 0 .. q - 1, NEW m \in 0 .. q - 1, d[l] = d[m] PROVE l = m
  <2>1. /\ d[l] = IF e[l] = q - 1 THEN e[q] ELSE e[l]
        /\ d[m] = IF e[m] = q - 1 THEN e[q] ELSE e[m]
    OBVIOUS
  <2>2. e[l] # e[q] /\ e[m] # e[q]
    BY <1>3, <1>4, <1>6
  <2>3. e[l] = e[m]
    BY <1>8, <2>1, <2>2
  <2> QED BY <1>3, <1>6, <2>3
<1>9. q - 1 \in T
  <2> HIDE DEF d
  <2>1. Fits(q - 1, d)
    BY <1>7
  <2>2. Inj(q - 1, d)
    BY <1>8
  <2> QED BY <1>6, <2>1, <2>2
<1> QED BY <1>2, <1>6, <1>9

\* A chain has at most max_records rows, so its walk ends there.
LEMMA ChainFits ==
    ASSUME WellOrdered, NEW g, NEW hd, NEW N, Follows(g, hd, N), Distinct(g), NEW p \in Nat,
           g[p] # FM_NULL_SLOT
    PROVE  p < max_records
<1> SUFFICES ASSUME ~(p < max_records) PROVE FALSE
  BY SMTT(30)
<1>1. max_records \in Nat /\ \A m \in 0 .. max_records : m \in Nat /\ m <= p
  BY SMTT(30), SizesAssumption
<1>2. ASSUME NEW m \in 0 .. max_records PROVE g[m] \in Slots
  <2>1. m \in Nat /\ m <= p
    BY <1>1
  <2>2. g[m] # FM_NULL_SLOT
    BY <2>1, BeforeEnd
  <2>3. g[m] \in Links
    BY <2>1 DEF Follows
  <2> QED BY <2>2, <2>3, TypeFacts
<1>3. \A m \in 0 .. max_records : g[m] \in Nat /\ g[m] < max_records
  BY SMTT(30), <1>1, <1>2 DEF Slots
<1>4. PICK l \in 0 .. max_records, m \in 0 .. max_records : l # m /\ g[l] = g[m]
  BY <1>1, <1>3, Pigeons
<1> QED BY <1>1, <1>2, <1>4, TypeFacts DEF Distinct

\* NthLink is the walk of the chain.
LEMMA NthLinkFollows ==
    ASSUME WellOrdered, NEW k \in KeyNos, NEW b \in Buckets, NEW g, Follows(g, head[k][b], next[k])
    PROVE  \A n \in 0 .. max_records : NthLink(k, b)[n] = g[n]
<1> DEFINE f == [n \in 0 .. max_records |-> g[n]]
           R(e) == [n \in 0 .. max_records |->
                        IF n = 0 THEN head[k][b]
                        ELSE IF e[n - 1] = FM_NULL_SLOT THEN FM_NULL_SLOT
                        ELSE next[k][e[n - 1]]]
<1>0. \A n \in 0 .. max_records :
         n \in Nat /\ (n # 0 => n - 1 \in 0 .. max_records /\ n - 1 \in Nat /\ n - 1 + 1 = n)
  BY SMTT(30), SizesAssumption
<1>1. ASSUME NEW n \in 0 .. max_records PROVE f[n] = R(f)[n]
  <2>1. f[n] = g[n]
    OBVIOUS
  <2>2. CASE n = 0
    BY <2>2 DEF Follows
  <2>3. CASE n # 0
    <3>1. R(f)[n] = IF f[n - 1] = FM_NULL_SLOT THEN FM_NULL_SLOT ELSE next[k][f[n - 1]]
      BY <2>3
    <3>2. f[n - 1] = g[n - 1]
      BY <1>0, <2>3
    <3>3. g[n - 1 + 1] = IF g[n - 1] = FM_NULL_SLOT THEN FM_NULL_SLOT ELSE next[k][g[n - 1]]
      BY <1>0, <2>3 DEF Follows
    <3> HIDE DEF f, R
    <3> QED BY <1>0, <2>1, <2>3, <3>1, <3>2, <3>3
  <2> QED BY <2>2, <2>3
<1>2. f = R(f)
  BY <1>1
<1>3. NthLink(k, b) = CHOOSE e : e = R(e)
  BY DEF NthLink
<1>4. NthLink(k, b) = R(NthLink(k, b))
  <2> HIDE DEF R, f
  <2> QED BY <1>2, <1>3
<1>5. SUFFICES ASSUME NEW e, e = R(e), {n \in 0 .. max_records : e[n] # f[n]} # {} PROVE FALSE
  <2>1. {n \in 0 .. max_records : NthLink(k, b)[n] # f[n]} = {}
    BY <1>4
  <2> QED BY <2>1
<1>6. PICK n \in {m \in 0 .. max_records : e[m] # f[m]} :
         \A y \in {m \in 0 .. max_records : e[m] # f[m]} : n <= y
  <2>1. {m \in 0 .. max_records : e[m] # f[m]} \in SUBSET Nat
    BY SMTT(30), SizesAssumption
  <2> HIDE DEF f
  <2> QED BY <2>1, <1>5 DEF WellOrdered
<1>7. n # 0 => e[n - 1] = f[n - 1]
  <2> HIDE DEF f
  <2> QED BY SMTT(30), <1>0, <1>6
<1>8. R(e)[n] = R(f)[n]
  BY <1>6, <1>7
<1> HIDE DEF R, f
<1> QED BY <1>2, <1>5, <1>6, <1>8

\* The chain of a bucket as ChainsExact reads it.
LEMMA ChainNodes ==
    ASSUME WellOrdered, NEW k \in KeyNos, NEW b \in Buckets, NEW S \in SUBSET Slots,
           Chain(head[k][b], next[k], S)
    PROVE  Ends(k, b) /\ Nodes(k, b) = S
<1>1. PICK g \in [Nat -> Links] :
         Follows(g, head[k][b], next[k]) /\ Distinct(g) /\ Lists(g, S)
  BY DEF Chain
<1>2. \A n \in 0 .. max_records : NthLink(k, b)[n] = g[n]
  BY SMTT(30), <1>1, NthLinkFollows
<1>3. /\ max_records \in 0 .. max_records /\ ~(max_records < max_records)
      /\ \A n \in Nat : n < max_records => n \in 0 .. max_records
      /\ \A n \in 0 .. max_records : n \in Nat
  BY SMTT(30), SizesAssumption
<1>4. \A n \in Nat : g[n] # FM_NULL_SLOT => n < max_records
  BY <1>1, ChainFits
<1>5. Ends(k, b)
  BY <1>2, <1>3, <1>4 DEF Ends
<1>6. ASSUME NEW i \in Nodes(k, b) PROVE i \in S
  <2>1. PICK n \in 0 .. max_records : i = NthLink(k, b)[n] /\ i # FM_NULL_SLOT
    BY DEF Nodes
  <2> QED BY <1>1, <1>2, <1>3, <2>1, ListsIn
<1>7. ASSUME NEW i \in S PROVE i \in Nodes(k, b)
  <2>1. PICK n \in Nat : g[n] = i
    BY <1>1 DEF Lists
  <2>2. i # FM_NULL_SLOT
    BY TypeFacts
  <2>3. n \in 0 .. max_records /\ i = NthLink(k, b)[n]
    BY <1>2, <1>3, <1>4, <2>1, <2>2
  <2> QED BY <2>2, <2>3 DEF Nodes
<1> QED BY <1>5, <1>6, <1>7
=============================================================================
