---------------------------- MODULE FmRows_base -----------------------------
(***************************************************************************)
(* FmRows for every number of threads, slots, words and records.  Under    *)
(* every workload: type correctness, lock ownership and the completeness   *)
(* of scans.  If a thread that clears the table is the only one that       *)
(* deletes: freedom from deadlock, and the life cycle of a slot, that is   *)
(* in which state it is at each step of a thread that works on it, what    *)
(* its generation says and what is on the freelist.                        *)
(***************************************************************************)
EXTENDS FmRows, Sequences, TLAPS

\* The leaves below are for Zenon unless they name SMTT.
USE ZenonT(30)

-----------------------------------------------------------------------------
(* Sequences.                                                              *)

\* A list without its head ...
LEMMA SeqTail ==
    ASSUME NEW F \in Seq(Slots), Len(F) > 0
    PROVE  \E G \in Seq(Slots) : Len(G) = Len(F) - 1 /\ \A m \in 1 .. Len(G) : G[m] = F[m + 1]
<1>1. /\ Tail(F) \in Seq(Slots) /\ Len(Tail(F)) = Len(F) - 1
      /\ \A m \in 1 .. Len(Tail(F)) : Tail(F)[m] = F[m + 1]
  BY SMTT(30)
<1> QED BY <1>1

\* ... with a new head ...
LEMMA SeqCons ==
    ASSUME NEW F \in Seq(Slots), NEW i \in Slots
    PROVE  \E G \in Seq(Slots) : /\ Len(G) = Len(F) + 1 /\ G[1] = i
                             /\ \A m \in 1 .. Len(F) : G[m + 1] = F[m]
<1>1. /\ <<i>> \o F \in Seq(Slots) /\ Len(<<i>> \o F) = Len(F) + 1 /\ (<<i>> \o F)[1] = i
      /\ \A m \in 1 .. Len(F) : (<<i>> \o F)[m + 1] = F[m]
  BY SMTT(30)
<1> QED BY <1>1

\* ... and the list of the n numbers after a.
LEMMA SeqRun ==
    ASSUME NEW a \in Nat, NEW n \in Nat, \A m \in 1 .. n : a + m \in Slots
    PROVE  \E G \in Seq(Slots) : Len(G) = n /\ \A m \in 1 .. n : G[m] = a + m
<1> DEFINE G == [m \in 1 .. n |-> a + m]
<1>1. G \in Seq(Slots) /\ Len(G) = n
  BY SMTT(30)
<1> QED BY <1>1

\* The list of the n numbers below n, from the largest.
LEMMA SeqDown ==
    ASSUME NEW n \in Nat, \A i \in 0 .. n - 1 : i \in Slots
    PROVE  \E G \in Seq(Slots) : Len(G) = n /\ \A m \in 1 .. n : G[m] = n - m
<1> DEFINE G == [m \in 1 .. n |-> n - m]
<1>1. \A m \in 1 .. n : n - m \in 0 .. n - 1
  BY SMTT(30)
<1>2. \A m \in 1 .. n : n - m \in Slots
  BY <1>1
<1>3. G \in Seq(Slots) /\ Len(G) = n
  BY SMTT(30), <1>2
<1> QED BY <1>3

-----------------------------------------------------------------------------
(* Types.                                                                  *)

\* Steps at which a thread is about to touch, or works on, slot idx[t].
SlotPhase ==
    {"rd_state", "rd_gen", "rd_seq", "rd_copy", "rd_check",
     "ins_copy", "ins_publish", "ins_count",
     "up_lock", "up_state", "up_gen", "up_odd", "up_copy", "up_even",
     "dl_lock", "dl_state", "dl_gen", "dl_mark", "dl_dead", "dl_bump", "dl_count",
     "dl_push", "lk_lock", "lk_held", "lk_unlock", "cl_slot"}

-----------------------------------------------------------------------------

\* Arguments are well typed where they are used.
ArgsOK ==
    \A t \in Threads :
        /\ pc[t] \in SlotPhase => idx[t] \in Slots
        /\ pc[t] \in {"up_lock", "up_state", "up_gen", "up_odd", "up_copy", "up_even",
                      "ins_alloc", "ins_copy", "ins_publish"} => rec[t] \in Recs
        /\ pc[t] \in {"up_even", "up_copy", "up_odd", "up_gen", "up_state", "up_lock"}
              => exp[t] \in Nat
        /\ bound[t] <= chunk_cap * FM_CHUNK_SIZE

-----------------------------------------------------------------------------
(* Arithmetic of chunks and slots.                                         *)

\* For positive factors, products grow with their factors.
LEMMA MulMono ==
    ASSUME NEW a \in Nat, NEW b \in Nat, NEW c \in Nat, a <= b
    PROVE  a * c <= b * c /\ a * c \in Nat /\ b * c \in Nat
BY SMTT(30)

\* chunk_cap chunks hold max_records slots (fm_core_init_share).
LEMMA CapOK ==
    /\ chunk_cap \in Nat
    /\ max_records <= chunk_cap * FM_CHUNK_SIZE
    /\ chunk_cap * FM_CHUNK_SIZE \in Nat
BY SMTT(30), SizesAssumption DEF chunk_cap

\* The slots of the chunks allocated so far are slots of the table.
LEMMA CountOK ==
    ASSUME chunk_cnt \in 0 .. chunk_cap
    PROVE  /\ SlotCount \in Nat
           /\ SlotCount <= chunk_cap * FM_CHUNK_SIZE
           /\ chunk_cnt < chunk_cap => SlotCount + FM_CHUNK_SIZE <= chunk_cap * FM_CHUNK_SIZE
<1>1. chunk_cnt \in Nat /\ chunk_cap \in Nat /\ FM_CHUNK_SIZE \in Nat
  BY SMTT(30), CapOK, SizesAssumption
<1>2. chunk_cnt * FM_CHUNK_SIZE <= chunk_cap * FM_CHUNK_SIZE /\ chunk_cnt * FM_CHUNK_SIZE \in Nat
  BY SMTT(30), <1>1, MulMono
<1>3. ASSUME chunk_cnt < chunk_cap
      PROVE  (chunk_cnt + 1) * FM_CHUNK_SIZE <= chunk_cap * FM_CHUNK_SIZE
  <2>1. chunk_cnt + 1 \in Nat /\ chunk_cnt + 1 <= chunk_cap
    BY SMTT(30), <1>1, <1>3
  <2> QED BY <1>1, <2>1, MulMono
<1>4. (chunk_cnt + 1) * FM_CHUNK_SIZE = chunk_cnt * FM_CHUNK_SIZE + FM_CHUNK_SIZE
  BY SMTT(30), <1>1
<1> QED BY <1>2, <1>3, <1>4 DEF SlotCount

-----------------------------------------------------------------------------
(* Type correctness.                                                       *)

Types == TypeOK /\ ArgsOK

\* The sequence counter stays in its range and changes parity.
LEMMA SeqIncOK ==
    ASSUME NEW n \in 0 .. SEQ_MOD - 1
    PROVE  SeqInc(n) \in 0 .. SEQ_MOD - 1 /\ SeqInc(n) % 2 = 1 - (n % 2)
BY SMTT(30), SeqAssumption DEF SeqInc

\* A table has at least one slot.
LEMMA ZeroSlot == 0 \in Slots
BY SMTT(30), CapOK, SizesAssumption DEF Slots

\* The slot a loop moves to is a slot: clear's next one ...
LEMMA ClearNextSlot ==
    ASSUME ShareTypes, NEW i \in Slots, i + 1 < SlotCount PROVE i + 1 \in Slots
BY SMTT(30), CountOK, CapOK DEF ShareTypes, Slots

\* ... a scan's next one ...
LEMMA ScanNextSlot ==
    ASSUME ScanTypes, ArgsOK, NEW t \in Threads, pos[t] < bound[t] PROVE pos[t] \in Slots
BY SMTT(30), CapOK DEF ScanTypes, ArgsOK, Slots

\* ... and the first one of a new chunk.
LEMMA GrowSlot ==
    ASSUME ShareTypes, chunk_cnt < chunk_cap PROVE SlotCount \in Slots
BY SMTT(30), CountOK, CapOK, SizesAssumption DEF ShareTypes, Slots

\* The initial state is well typed.
LEMMA TypesInit == Init => Types
BY SMTT(30), CapOK, SeqAssumption
DEF Init, Types, TypeOK, SlotTypes, ShareTypes, ArgTypes, PcType, LocalTypes, HistTypes,
    ScanTypes, ArgsOK, Whole, Labels, SlotPhase, FM_NULL_SLOT, NoGen

\* The freelist a new chunk leaves is typed ...
LEMMA GrowTypes ==
    ASSUME ShareTypes, NEW t \in Threads, AllocGrow(t)
    PROVE  /\ chunk_cnt' \in 0 .. chunk_cap
           /\ free_next' \in [Slots -> Slots \union {FM_NULL_SLOT}]
           /\ free_head' \in Slots \union {FM_NULL_SLOT}
BY SMTT(30), CountOK, CapOK, SizesAssumption DEF AllocGrow, ChunkEnd, GrowTo, TakeSlot, ShareTypes, Slots, FM_NULL_SLOT

\* ... and so is the one clear builds.
LEMMA RebuildTypes ==
    ASSUME ShareTypes, NEW t \in Threads, ClearRebuild(t)
    PROVE  /\ free_next' \in [Slots -> Slots \union {FM_NULL_SLOT}]
           /\ free_head' \in Slots \union {FM_NULL_SLOT}
BY SMTT(30), CountOK, CapOK, SizesAssumption DEF ClearRebuild, Rebuild, ShareTypes, Slots, FM_NULL_SLOT

\* Every step keeps the types.
LEMMA TypesStep == ASSUME Types, [Next]_vars PROVE Types'
<1> USE DEF Types, TypeOK, PcType, SlotTypes, ShareTypes, ArgTypes, LocalTypes, HistTypes, ScanTypes,
        ArgsOK, SlotPhase, Labels, AllCalls, Goto,
        slotVars, shareVars, argVars, readVars, histVars, scanVars
<1>1. ASSUME NEW t \in Threads, CallRead(t) PROVE Types'
  BY SMTT(30), <1>1 DEF CallRead, Begin, Ref
<1>2. ASSUME NEW t \in Threads, CallInsert(t) PROVE Types'
  BY SMTT(30), <1>2 DEF CallInsert, Begin, Ref
<1>3. ASSUME NEW t \in Threads, CallUpdate(t) PROVE Types'
  BY SMTT(30), <1>3 DEF CallUpdate, Begin, Ref
<1>4. ASSUME NEW t \in Threads, CallDelete(t) PROVE Types'
  BY SMTT(30), <1>4 DEF CallDelete, Begin, Ref
<1>5. ASSUME NEW t \in Threads, CallLock(t) PROVE Types'
  BY SMTT(30), <1>5 DEF CallLock, Begin, Ref
<1>6. ASSUME NEW t \in Threads, CallClear(t) PROVE Types'
  BY <1>6 DEF CallClear, Begin, Ref
<1>7. ASSUME NEW t \in Threads, CallScanFirst(t) PROVE Types'
  BY <1>7, CountOK DEF CallScanFirst, Begin, Ref, ActiveSlots
<1>8. ASSUME NEW t \in Threads, CallScanNext(t) PROVE Types'
  BY <1>8, CountOK DEF CallScanNext, Begin, Ref
<1>9. ASSUME NEW t \in Threads, InsertAlloc(t) PROVE Types'
  <2>1. CASE AllocPop(t)
    BY <1>9, <2>1 DEF InsertAlloc, AllocPop, TakeSlot
  <2>2. CASE AllocGrow(t)
    <3>1. SlotCount \in Slots /\ TakeSlot(t, SlotCount)
      BY <2>2, GrowSlot DEF AllocGrow, ChunkEnd, GrowTo
    <3> QED BY <1>9, <2>2, <3>1, GrowTypes DEF InsertAlloc, TakeSlot
  <2>3. CASE AllocFail(t)
    BY <1>9, <2>3 DEF InsertAlloc, AllocFail
  <2> QED BY <1>9, <2>1, <2>2, <2>3 DEF InsertAlloc
<1>10. ASSUME NEW t \in Threads, UpdateLock(t) PROVE Types'
  BY <1>10 DEF UpdateLock, LockSlot, Exchange
<1>11. ASSUME NEW t \in Threads, DeleteLock(t) PROVE Types'
  BY <1>11 DEF DeleteLock, LockSlot, Exchange
<1>12. ASSUME NEW t \in Threads, DeletePush(t) PROVE Types'
  BY <1>12 DEF DeletePush, Push
<1>13. ASSUME NEW t \in Threads, LockRow(t) PROVE Types'
  BY <1>13 DEF LockRow, LockSlot, Exchange
<1>14. ASSUME NEW t \in Threads, ClearLock(t) PROVE Types'
  BY <1>14, ZeroSlot DEF ClearLock
<1>15. ASSUME NEW t \in Threads, ClearSlot(t) PROVE Types'
  <2>1. CASE idx' = [idx EXCEPT ![t] = @ + 1] /\ UNCHANGED pc /\ idx[t] + 1 < SlotCount
    BY SMTT(30), <1>15, <2>1, ClearNextSlot DEF ClearSlot, FreeSlotStores, LeaveActive
  <2>2. CASE Goto(t, "cl_rebuild") /\ UNCHANGED idx
    BY SMTT(30), <1>15, <2>2 DEF ClearSlot, FreeSlotStores, LeaveActive
  <2> QED BY <1>15, <2>1, <2>2 DEF ClearSlot, FreeSlotStores
<1>16. ASSUME NEW t \in Threads, ReadState(t) PROVE Types'
  <2>1. CASE ReadDeleted(t) /\ UNCHANGED recycled
    BY <1>16, <2>1 DEF ReadState, ReadDeleted
  <2>2. CASE /\ Goto(t, IF exp[t] = NoGen THEN "rd_seq" ELSE "rd_gen")
             /\ recycled' = [recycled EXCEPT ![t] = FALSE]
             /\ UNCHANGED <<ret, scanVars>>
    BY <1>16, <2>2 DEF ReadState
  <2> QED BY <1>16, <2>1, <2>2 DEF ReadState
<1>17. ASSUME NEW t \in Threads, ReadGen(t) PROVE Types'
  <2>1. CASE Goto(t, "rd_seq") /\ UNCHANGED <<ret, scanVars>>
    BY <1>17, <2>1 DEF ReadGen
  <2>2. CASE ReadDeleted(t)
    BY <1>17, <2>2 DEF ReadGen, ReadDeleted
  <2> QED BY <1>17, <2>1, <2>2 DEF ReadGen
<1>18. ASSUME NEW t \in Threads, ReadSeq(t) PROVE Types'
  <2>1. CASE Goto(t, "rd_state") /\ UNCHANGED <<s1, left, since>>
    BY <1>18, <2>1 DEF ReadSeq
  <2>2. CASE /\ Goto(t, "rd_copy")
             /\ s1' = [s1 EXCEPT ![t] = seq[idx[t]]]
             /\ left' = [left EXCEPT ![t] = Words]
             /\ since' = [since EXCEPT ![t] = 0]
    BY SMTT(30), <1>18, <2>2, SeqAssumption DEF ReadSeq
  <2> QED BY <1>18, <2>1, <2>2 DEF ReadSeq
<1>19. ASSUME NEW t \in Threads, ReadCopy(t) PROVE Types'
  BY SMTT(30), <1>19 DEF ReadCopy
<1>20. ASSUME NEW t \in Threads, ReadCheck(t) PROVE Types'
  <2>1. CASE ReadOK(t)
    BY SMTT(30), <1>20, <2>1 DEF ReadCheck, ReadOK, Return
  <2>2. CASE seq[idx[t]] # s1[t]
    <3>1. /\ pc[t] = "rd_check" /\ Goto(t, "rd_state")
          /\ s1' = [s1 EXCEPT ![t] = 0] /\ since' = [since EXCEPT ![t] = 0]
          /\ UNCHANGED <<slotVars, shareVars, argVars, buf, left, ret, pubgen, hist, recycled, scanVars>>
      BY <1>20, <2>2 DEF ReadCheck
    <3>2. 0 \in 0 .. SEQ_MOD - 1 /\ 0 \in 0 .. SEQ_MOD
      BY SMTT(30), SeqAssumption
    <3> QED BY <3>1, <3>2
  <2> QED BY <1>20, <2>1, <2>2 DEF ReadCheck
<1>21. ASSUME NEW t \in Threads, ScanStep(t) PROVE Types'
  <2>1. CASE /\ idx' = [idx EXCEPT ![t] = pos[t]] /\ pos[t] < bound[t]
             /\ pos' = [pos EXCEPT ![t] = @ + 1]
             /\ Goto(t, "rd_state") /\ UNCHANGED ret
    BY SMTT(30), <1>21, <2>1, ScanNextSlot DEF ScanStep, ScanUpTo
  <2>2. CASE Return(t, "EOF") /\ UNCHANGED <<idx, pos>>
    BY <1>21, <2>2 DEF ScanStep, ScanUpTo, Return
  <2> QED BY <1>21, <2>1, <2>2 DEF ScanStep, ScanUpTo
<1>22. ASSUME NEW t \in Threads, InsertFail(t) PROVE Types'
  BY <1>22 DEF InsertFail, Return
<1>23. ASSUME NEW t \in Threads, InsertCopy(t) PROVE Types'
  BY SMTT(30), <1>23 DEF InsertCopy, CopyIn
<1>24. ASSUME NEW t \in Threads, InsertPublish(t) PROVE Types'
  BY SMTT(30), <1>24 DEF InsertPublish
<1>25. ASSUME NEW t \in Threads, InsertCount(t) PROVE Types'
  BY SMTT(30), <1>25 DEF InsertCount, Return
<1>26. ASSUME NEW t \in Threads, UpdateState(t) PROVE Types'
  <2>1. CASE Goto(t, "up_gen") /\ UNCHANGED <<ret, wlock>>
    BY <1>26, <2>1 DEF UpdateState, VerifyState
  <2>2. CASE KeepLock(t, "DELETED")
    BY <1>26, <2>2 DEF UpdateState, VerifyState, KeepLock
  <2>3. CASE DropLock(t, "DELETED")
    BY <1>26, <2>3 DEF UpdateState, VerifyState, DropLock, Return
  <2> QED BY <1>26, <2>1, <2>2, <2>3 DEF UpdateState, VerifyState, Unlock
<1>27. ASSUME NEW t \in Threads, UpdateGen(t) PROVE Types'
  <2>1. CASE Goto(t, "up_odd") /\ UNCHANGED <<ret, wlock>>
    BY <1>27, <2>1 DEF UpdateGen, VerifyGen
  <2>2. CASE KeepLock(t, "DELETED")
    BY <1>27, <2>2 DEF UpdateGen, VerifyGen, KeepLock
  <2>3. CASE DropLock(t, "DELETED")
    BY <1>27, <2>3 DEF UpdateGen, VerifyGen, DropLock, Return
  <2> QED BY <1>27, <2>1, <2>2, <2>3 DEF UpdateGen, VerifyGen, Unlock
<1>28. ASSUME NEW t \in Threads, UpdateOdd(t) PROVE Types'
  BY SMTT(30), <1>28, SeqIncOK, SeqAssumption DEF UpdateOdd, BumpSeq
<1>29. ASSUME NEW t \in Threads, UpdateCopy(t) PROVE Types'
  BY SMTT(30), <1>29 DEF UpdateCopy, CopyIn
<1>30. ASSUME NEW t \in Threads, UpdateEven(t) PROVE Types'
  <2>1. CASE KeepLock(t, "OK")
    BY SMTT(30), <1>30, <2>1, SeqIncOK, SeqAssumption DEF UpdateEven, BumpSeq, KeepLock
  <2>2. CASE DropLock(t, "OK")
    BY SMTT(30), <1>30, <2>2, SeqIncOK, SeqAssumption DEF UpdateEven, BumpSeq, DropLock, Return
  <2> QED BY <1>30, <2>1, <2>2 DEF UpdateEven, Unlock
<1>31. ASSUME NEW t \in Threads, DeleteState(t) PROVE Types'
  <2>1. CASE Goto(t, "dl_gen") /\ UNCHANGED <<ret, wlock>>
    BY <1>31, <2>1 DEF DeleteState, VerifyState
  <2>2. CASE KeepLock(t, "DELETED")
    BY <1>31, <2>2 DEF DeleteState, VerifyState, KeepLock
  <2>3. CASE DropLock(t, "DELETED")
    BY <1>31, <2>3 DEF DeleteState, VerifyState, DropLock, Return
  <2> QED BY <1>31, <2>1, <2>2, <2>3 DEF DeleteState, VerifyState, Unlock
<1>32. ASSUME NEW t \in Threads, DeleteGen(t) PROVE Types'
  <2>1. CASE Goto(t, "dl_mark") /\ UNCHANGED <<ret, wlock>>
    BY <1>32, <2>1 DEF DeleteGen, VerifyGen
  <2>2. CASE KeepLock(t, "DELETED")
    BY <1>32, <2>2 DEF DeleteGen, VerifyGen, KeepLock
  <2>3. CASE DropLock(t, "DELETED")
    BY <1>32, <2>3 DEF DeleteGen, VerifyGen, DropLock, Return
  <2> QED BY <1>32, <2>1, <2>2, <2>3 DEF DeleteGen, VerifyGen, Unlock
<1>33. ASSUME NEW t \in Threads, DeleteMark(t) PROVE Types'
  BY <1>33 DEF DeleteMark, LeaveActive
<1>34. ASSUME NEW t \in Threads, DeleteDead(t) PROVE Types'
  BY <1>34 DEF DeleteDead, LeaveActive
<1>35. ASSUME NEW t \in Threads, DeleteBump(t) PROVE Types'
  BY SMTT(30), <1>35 DEF DeleteBump
<1>36. ASSUME NEW t \in Threads, DeleteCount(t) PROVE Types'
  BY SMTT(30), <1>36 DEF DeleteCount
<1>37. ASSUME NEW t \in Threads, UpdateLocked(t) PROVE Types'
  BY SMTT(30), <1>37 DEF UpdateLocked, StartLocked
<1>38. ASSUME NEW t \in Threads, DeleteLocked(t) PROVE Types'
  BY SMTT(30), <1>38 DEF DeleteLocked, StartLocked
<1>39. ASSUME NEW t \in Threads, UnlockRow(t) PROVE Types'
  BY <1>39 DEF UnlockRow
<1>40. ASSUME NEW t \in Threads, ClearRebuild(t) PROVE Types'
  <2>1. /\ records' = 0 /\ struct_mutex' = NoThread /\ Return(t, "OK")
        /\ UNCHANGED <<slotVars, chunk_cnt, argVars, readVars, left, histVars, scanVars>>
    BY <1>40 DEF ClearRebuild, Rebuild
  <2> QED BY SMTT(30), <1>40, <2>1, RebuildTypes DEF Return
<1>41. ASSUME NEW t \in Threads, Finish(t) PROVE Types'
  <2>0. 0 \in 0 .. SEQ_MOD - 1 /\ 0 \in 0 .. SEQ_MOD /\ 0 <= chunk_cap * FM_CHUNK_SIZE
    BY SMTT(30), SeqAssumption, CapOK
  <2>1. CASE /\ pos' = [pos EXCEPT ![t] = 0]
             /\ stable' = [stable EXCEPT ![t] = {}]
             /\ seen' = [seen EXCEPT ![t] = {}]
    BY <1>41, <2>0, <2>1 DEF Finish, Whole
  <2>2. CASE UNCHANGED <<pos, stable, seen>>
    BY <1>41, <2>0, <2>2 DEF Finish, Whole
  <2> QED BY <1>41, <2>1, <2>2 DEF Finish
<1>42. CASE UNCHANGED vars
  BY <1>42 DEF vars
<1> QED
  BY <1>1, <1>2, <1>3, <1>4, <1>5, <1>6, <1>7, <1>8, <1>9, <1>10, <1>11, <1>12,
     <1>13, <1>14, <1>15, <1>16, <1>17, <1>18, <1>19, <1>20, <1>21, <1>22, <1>23, <1>24,
     <1>25, <1>26, <1>27, <1>28, <1>29, <1>30, <1>31, <1>32, <1>33, <1>34, <1>35, <1>36,
     <1>37, <1>38, <1>39, <1>40, <1>41, <1>42
  DEF Next, Call, Acquire, Run

\* Type correctness of the row store (fm_core.h:140-228), for every workload.
THEOREM TypeCorrect == Spec => []TypeOK
<1>1. Init => Types
  BY TypesInit
<1>2. Types /\ [Next]_vars => Types'
  BY TypesStep
<1> QED
  BY <1>1, <1>2, PTL DEF Spec, Types

-----------------------------------------------------------------------------
(* Lock ownership: at which steps a thread holds struct_mutex and at       *)
(* which ones the wlock of its slot.                                       *)

InsPhase == {"ins_copy", "ins_publish"}
DelPhase == {"dl_dead", "dl_bump", "dl_count", "dl_push"}

\* Steps at which a thread holds struct_mutex.
MutexPhase == InsPhase \union {"ins_count", "cl_slot", "cl_rebuild"}

\* Steps at which a thread holds the wlock of slot idx[t].
HoldPhase ==
    {"up_state", "up_gen", "up_odd", "up_copy", "up_even",
     "dl_state", "dl_gen", "dl_mark", "lk_held", "lk_unlock"}

\* A _locked delete keeps its caller's wlock to the end.
Holds(t) == pc[t] \in HoldPhase \/ (pc[t] \in DelPhase /\ locked[t])

ClearPhase == {"cl_lock", "cl_slot", "cl_rebuild"}

\* Steps of a delete, and of a write statement that may still become one.
DeletePhase ==
    {"dl_lock", "dl_state", "dl_gen", "dl_mark", "lk_lock", "lk_held"} \union DelPhase

Deletes(t) == "delete" \in Calls[t] \/ "lock" \in Calls[t]

\* A thread holds the locks its step says it holds, and no others; it clears
\* the table, or deletes a row, only if its workload says so.
LocksOK ==
    \A t \in Threads :
        /\ pc[t] \in MutexPhase <=> struct_mutex = t
        /\ \A i \in Slots : wlock[i] = t <=> Holds(t) /\ idx[t] = i
        /\ pc[t] \in ClearPhase => "clear" \in Calls[t]
        /\ pc[t] \in DeletePhase => Deletes(t)

-----------------------------------------------------------------------------
(* Steps that leave the locks alone.                                       *)

\* Thread t neither enters nor leaves a locked section.
KeepsLocks(t) ==
    /\ pc'[t] \in MutexPhase <=> pc[t] \in MutexPhase
    /\ Holds(t)' <=> Holds(t)
    /\ Holds(t) => idx'[t] = idx[t]
    /\ pc'[t] \in ClearPhase => pc[t] \in ClearPhase \/ "clear" \in Calls[t]
    /\ pc'[t] \in DeletePhase => pc[t] \in DeletePhase \/ Deletes(t)

\* A step that changes no lock and enters or leaves no locked section keeps
\* LocksOK.
LEMMA LocksFrame ==
    ASSUME LocksOK, UNCHANGED <<struct_mutex, wlock>>, \A t \in Threads : KeepsLocks(t)
    PROVE  LocksOK'
BY SMTT(30) DEF LocksOK, KeepsLocks

LEMMA LocksInit == Init => LocksOK
BY SMTT(30), ThreadsAssumption DEF Init, LocksOK, Holds, MutexPhase, InsPhase, DelPhase, HoldPhase,
  ClearPhase, DeletePhase

\* Every step keeps LocksOK.
LEMMA LocksStep == ASSUME Types, LocksOK, [Next]_vars PROVE LocksOK'
<1> USE DEF KeepsLocks, Holds, MutexPhase, InsPhase, DelPhase, HoldPhase, ClearPhase, DeletePhase,
        Goto
<1>0. /\ wlock \in [Slots -> Threads \union {NoThread}]
      /\ pc \in [Threads -> Labels] /\ locked \in [Threads -> BOOLEAN]
      /\ idx \in [Threads -> Slots \union {FM_NULL_SLOT}]
      /\ \A t \in Threads : pc[t] \in SlotPhase => idx[t] \in Slots
  BY DEF Types, TypeOK, SlotTypes, PcType, ArgTypes, ArgsOK
<1>1. ASSUME NEW t \in Threads, CallRead(t) PROVE LocksOK'
  BY <1>0, <1>1, LocksFrame DEF CallRead, Begin, slotVars, shareVars, argVars
<1>2. ASSUME NEW t \in Threads, CallInsert(t) PROVE LocksOK'
  BY <1>0, <1>2, LocksFrame DEF CallInsert, Begin, slotVars, shareVars, argVars
<1>3. ASSUME NEW t \in Threads, CallUpdate(t) PROVE LocksOK'
  BY SMTT(30), <1>0, <1>3, LocksFrame DEF CallUpdate, Begin, slotVars, shareVars, argVars
<1>4. ASSUME NEW t \in Threads, CallDelete(t) PROVE LocksOK'
  BY <1>0, <1>4, LocksFrame
  DEF CallDelete, Begin, Deletes, slotVars, shareVars, argVars
<1>5. ASSUME NEW t \in Threads, CallLock(t) PROVE LocksOK'
  BY <1>0, <1>5, LocksFrame
  DEF CallLock, Begin, Deletes, slotVars, shareVars, argVars
<1>6. ASSUME NEW t \in Threads, CallClear(t) PROVE LocksOK'
  BY <1>0, <1>6, LocksFrame DEF CallClear, Begin, slotVars, shareVars, argVars
<1>7. ASSUME NEW t \in Threads, CallScanFirst(t) PROVE LocksOK'
  BY <1>0, <1>7, LocksFrame DEF CallScanFirst, Begin, slotVars, shareVars, argVars
<1>8. ASSUME NEW t \in Threads, CallScanNext(t) PROVE LocksOK'
  BY <1>0, <1>8, LocksFrame DEF CallScanNext, Begin, slotVars, shareVars, argVars
<1>9. ASSUME NEW t \in Threads, InsertAlloc(t) PROVE LocksOK'
  <2>1. CASE AllocPop(t) \/ AllocGrow(t)
    <3>1. /\ pc[t] = "ins_alloc" /\ struct_mutex = NoThread /\ struct_mutex' = t
          /\ wlock' = wlock /\ locked' = locked
          /\ pc' = [pc EXCEPT ![t] = "ins_copy"]
          /\ \A u \in Threads \ {t} : idx'[u] = idx[u]
      BY <1>0, <1>9, <2>1 DEF InsertAlloc, AllocPop, AllocGrow, ChunkEnd, GrowTo, TakeSlot, slotVars
    <3> QED BY SMTT(30), <1>0, <3>1, ThreadsAssumption DEF LocksOK
  <2>2. CASE AllocFail(t)
    BY <1>0, <1>9, <2>2, LocksFrame DEF InsertAlloc, AllocFail, slotVars
  <2> QED BY <1>9, <2>1, <2>2 DEF InsertAlloc
<1>10. ASSUME NEW t \in Threads, UpdateLock(t) PROVE LocksOK'
  BY SMTT(30), <1>0, <1>10, ThreadsAssumption
  DEF UpdateLock, LockSlot, Exchange, LocksOK, shareVars, argVars, SlotPhase
<1>11. ASSUME NEW t \in Threads, DeleteLock(t) PROVE LocksOK'
  BY SMTT(30), <1>0, <1>11, ThreadsAssumption
  DEF DeleteLock, LockSlot, Exchange, LocksOK, shareVars, argVars, SlotPhase
<1>12. ASSUME NEW t \in Threads, DeletePush(t) PROVE LocksOK'
  BY <1>0, <1>12, LocksFrame DEF DeletePush, Push, slotVars, argVars
<1>13. ASSUME NEW t \in Threads, LockRow(t) PROVE LocksOK'
  BY SMTT(30), <1>0, <1>13, ThreadsAssumption
  DEF LockRow, LockSlot, Exchange, LocksOK, shareVars, argVars, SlotPhase
<1>14. ASSUME NEW t \in Threads, ClearLock(t) PROVE LocksOK'
  BY SMTT(30), <1>0, <1>14, ThreadsAssumption
  DEF ClearLock, Return, LocksOK, slotVars, shareVars, argVars, SlotPhase
<1>15. ASSUME NEW t \in Threads, ClearSlot(t) PROVE LocksOK'
  BY <1>0, <1>15, LocksFrame DEF ClearSlot, FreeSlotStores, slotVars, shareVars, argVars
<1>16. ASSUME NEW t \in Threads, ReadState(t) PROVE LocksOK'
  BY SMTT(30), <1>0, <1>16, LocksFrame DEF ReadState, ReadDeleted, slotVars, shareVars, argVars
<1>17. ASSUME NEW t \in Threads, ReadGen(t) PROVE LocksOK'
  BY SMTT(30), <1>0, <1>17, LocksFrame DEF ReadGen, ReadDeleted, slotVars, shareVars, argVars
<1>18. ASSUME NEW t \in Threads, ReadSeq(t) PROVE LocksOK'
  BY SMTT(30), <1>0, <1>18, LocksFrame DEF ReadSeq, slotVars, shareVars, argVars
<1>19. ASSUME NEW t \in Threads, ReadCopy(t) PROVE LocksOK'
  BY <1>0, <1>19, LocksFrame DEF ReadCopy, slotVars, shareVars, argVars
<1>20. ASSUME NEW t \in Threads, ReadCheck(t) PROVE LocksOK'
  BY <1>0, <1>20, LocksFrame DEF ReadCheck, ReadOK, Return, slotVars, shareVars, argVars
<1>21. ASSUME NEW t \in Threads, ScanStep(t) PROVE LocksOK'
  BY SMTT(30), <1>0, <1>21, LocksFrame DEF ScanStep, ScanUpTo, Return, slotVars, shareVars, argVars
<1>22. ASSUME NEW t \in Threads, InsertFail(t) PROVE LocksOK'
  BY <1>0, <1>22, LocksFrame DEF InsertFail, Return, slotVars, shareVars, argVars
<1>23. ASSUME NEW t \in Threads, InsertCopy(t) PROVE LocksOK'
  BY <1>0, <1>23, LocksFrame DEF InsertCopy, CopyIn, slotVars, shareVars, argVars
<1>24. ASSUME NEW t \in Threads, InsertPublish(t) PROVE LocksOK'
  BY <1>0, <1>24, LocksFrame DEF InsertPublish, slotVars, shareVars, argVars
<1>25. ASSUME NEW t \in Threads, InsertCount(t) PROVE LocksOK'
  BY SMTT(30), <1>0, <1>25, ThreadsAssumption
  DEF InsertCount, Return, LocksOK, slotVars, shareVars, argVars, SlotPhase
<1>26. ASSUME NEW t \in Threads, UpdateState(t) PROVE LocksOK'
  <2>1. CASE state[idx[t]] = "ACTIVE" /\ Goto(t, "up_gen") /\ UNCHANGED <<ret, wlock>>
    BY <1>0, <1>26, <2>1, LocksFrame DEF UpdateState, VerifyState, shareVars, argVars
  <2>2. CASE KeepLock(t, "DELETED")
    BY <1>0, <1>26, <2>2, LocksFrame
    DEF UpdateState, VerifyState, KeepLock, shareVars, argVars
  <2>3. CASE DropLock(t, "DELETED")
    BY SMTT(30), <1>0, <1>26, <2>3, ThreadsAssumption
    DEF UpdateState, VerifyState, DropLock, Return, LocksOK, shareVars, argVars, SlotPhase
  <2> QED BY <1>26, <2>1, <2>2, <2>3 DEF UpdateState, VerifyState, Unlock
<1>27. ASSUME NEW t \in Threads, UpdateGen(t) PROVE LocksOK'
  <2>1. CASE gen[idx[t]] = exp[t] /\ Goto(t, "up_odd") /\ UNCHANGED <<ret, wlock>>
    BY <1>0, <1>27, <2>1, LocksFrame DEF UpdateGen, VerifyGen, shareVars, argVars
  <2>2. CASE KeepLock(t, "DELETED")
    BY <1>0, <1>27, <2>2, LocksFrame DEF UpdateGen, VerifyGen, KeepLock, shareVars, argVars
  <2>3. CASE DropLock(t, "DELETED")
    BY SMTT(30), <1>0, <1>27, <2>3, ThreadsAssumption
    DEF UpdateGen, VerifyGen, DropLock, Return, LocksOK, shareVars, argVars, SlotPhase
  <2> QED BY <1>27, <2>1, <2>2, <2>3 DEF UpdateGen, VerifyGen, Unlock
<1>28. ASSUME NEW t \in Threads, UpdateOdd(t) PROVE LocksOK'
  BY <1>0, <1>28, LocksFrame DEF UpdateOdd, BumpSeq, slotVars, shareVars, argVars
<1>29. ASSUME NEW t \in Threads, UpdateCopy(t) PROVE LocksOK'
  BY <1>0, <1>29, LocksFrame DEF UpdateCopy, CopyIn, slotVars, shareVars, argVars
<1>30. ASSUME NEW t \in Threads, UpdateEven(t) PROVE LocksOK'
  <2>1. CASE KeepLock(t, "OK")
    BY <1>0, <1>30, <2>1, LocksFrame DEF UpdateEven, KeepLock, shareVars, argVars
  <2>2. CASE DropLock(t, "OK")
    BY SMTT(30), <1>0, <1>30, <2>2, ThreadsAssumption
    DEF UpdateEven, DropLock, Return, LocksOK, shareVars, argVars, SlotPhase
  <2> QED BY <1>30, <2>1, <2>2 DEF UpdateEven, Unlock
<1>31. ASSUME NEW t \in Threads, DeleteState(t) PROVE LocksOK'
  <2>1. CASE state[idx[t]] = "ACTIVE" /\ Goto(t, "dl_gen") /\ UNCHANGED <<ret, wlock>>
    BY <1>0, <1>31, <2>1, LocksFrame DEF DeleteState, VerifyState, shareVars, argVars
  <2>2. CASE KeepLock(t, "DELETED")
    BY <1>0, <1>31, <2>2, LocksFrame
    DEF DeleteState, VerifyState, KeepLock, shareVars, argVars
  <2>3. CASE DropLock(t, "DELETED")
    BY SMTT(30), <1>0, <1>31, <2>3, ThreadsAssumption
    DEF DeleteState, VerifyState, DropLock, Return, LocksOK, shareVars, argVars, SlotPhase
  <2> QED BY <1>31, <2>1, <2>2, <2>3 DEF DeleteState, VerifyState, Unlock
<1>32. ASSUME NEW t \in Threads, DeleteGen(t) PROVE LocksOK'
  <2>1. CASE gen[idx[t]] = exp[t] /\ Goto(t, "dl_mark") /\ UNCHANGED <<ret, wlock>>
    BY <1>0, <1>32, <2>1, LocksFrame DEF DeleteGen, VerifyGen, shareVars, argVars
  <2>2. CASE KeepLock(t, "DELETED")
    BY <1>0, <1>32, <2>2, LocksFrame DEF DeleteGen, VerifyGen, KeepLock, shareVars, argVars
  <2>3. CASE DropLock(t, "DELETED")
    BY SMTT(30), <1>0, <1>32, <2>3, ThreadsAssumption
    DEF DeleteGen, VerifyGen, DropLock, Return, LocksOK, shareVars, argVars, SlotPhase
  <2> QED BY <1>32, <2>1, <2>2, <2>3 DEF DeleteGen, VerifyGen, Unlock
<1>33. ASSUME NEW t \in Threads, DeleteMark(t) PROVE LocksOK'
  <2>1. CASE locked[t]
    BY <1>0, <1>33, <2>1, LocksFrame DEF DeleteMark, shareVars, argVars
  <2>2. CASE ~locked[t]
    BY SMTT(30), <1>0, <1>33, <2>2, ThreadsAssumption DEF DeleteMark, LocksOK, shareVars, argVars, SlotPhase
  <2> QED BY <2>1, <2>2
<1>34. ASSUME NEW t \in Threads, DeleteDead(t) PROVE LocksOK'
  BY <1>0, <1>34, LocksFrame DEF DeleteDead, slotVars, shareVars, argVars
<1>35. ASSUME NEW t \in Threads, DeleteBump(t) PROVE LocksOK'
  BY <1>0, <1>35, LocksFrame DEF DeleteBump, slotVars, shareVars, argVars
<1>36. ASSUME NEW t \in Threads, DeleteCount(t) PROVE LocksOK'
  BY <1>0, <1>36, LocksFrame DEF DeleteCount, slotVars, shareVars, argVars
<1>37. ASSUME NEW t \in Threads, UpdateLocked(t) PROVE LocksOK'
  BY <1>0, <1>37, LocksFrame DEF UpdateLocked, StartLocked, slotVars, shareVars, argVars
<1>38. ASSUME NEW t \in Threads, DeleteLocked(t) PROVE LocksOK'
  BY <1>0, <1>38, LocksFrame DEF DeleteLocked, StartLocked, slotVars, shareVars, argVars
<1>39. ASSUME NEW t \in Threads, UnlockRow(t) PROVE LocksOK'
  BY SMTT(30), <1>0, <1>39, ThreadsAssumption
  DEF UnlockRow, Return, LocksOK, slotVars, shareVars, argVars, SlotPhase
<1>40. ASSUME NEW t \in Threads, ClearRebuild(t) PROVE LocksOK'
  BY SMTT(30), <1>0, <1>40, ThreadsAssumption
  DEF ClearRebuild, Rebuild, Return, LocksOK, slotVars, shareVars, argVars, SlotPhase
<1>41. ASSUME NEW t \in Threads, Finish(t) PROVE LocksOK'
  BY <1>0, <1>41, LocksFrame DEF Finish, slotVars, shareVars, argVars
<1>42. CASE UNCHANGED vars
  BY <1>42, LocksFrame DEF vars, slotVars, shareVars, argVars
<1> QED
  BY <1>1, <1>2, <1>3, <1>4, <1>5, <1>6, <1>7, <1>8, <1>9, <1>10, <1>11, <1>12,
     <1>13, <1>14, <1>15, <1>16, <1>17, <1>18, <1>19, <1>20, <1>21, <1>22, <1>23,
     <1>24, <1>25, <1>26, <1>27, <1>28, <1>29, <1>30, <1>31, <1>32, <1>33, <1>34,
     <1>35, <1>36, <1>37, <1>38, <1>39, <1>40, <1>41, <1>42
  DEF Next, Call, Acquire, Run

LEMMA LocksCorrect == Spec => [](Types /\ LocksOK)
<1>1. Init => Types /\ LocksOK
  BY TypesInit, LocksInit
<1>2. Types /\ LocksOK /\ [Next]_vars => (Types /\ LocksOK)'
  BY TypesStep, LocksStep
<1> QED BY <1>1, <1>2, PTL DEF Spec

-----------------------------------------------------------------------------
(* Deadlock freedom.                                                       *)

\* A thread that clears the table is the only one that deletes rows; other
\* threads insert, update, read and scan beside it.
ClearsApart == \A t, u \in Threads : t # u /\ "clear" \in Calls[t] => ~Deletes(u)

\* Who holds a wlock waits at most for struct_mutex, at the end of a delete.
\* Who holds struct_mutex waits for nobody, or, during a clear, for the wlock
\* of a thread that does not delete.  So chains of waiting threads have at
\* most three members.
LEMMA NoCycle == ASSUME ClearsApart, Types, LocksOK PROVE NoCircularWait
<1> USE DEF MutexPhase, InsPhase, DelPhase, HoldPhase, Holds, WaitsFor
<1>0. \A t \in Threads : pc[t] \in SlotPhase => idx[t] \in Slots
  BY DEF Types, ArgsOK
<1>1. ASSUME NEW t \in Threads, struct_mutex = t, WaitsFor(t) \in Threads
      PROVE  pc[t] = "cl_slot" /\ "clear" \in Calls[t]
  <2>1. pc[t] \in {"ins_copy", "ins_publish", "ins_count", "cl_slot", "cl_rebuild"}
    BY <1>1 DEF LocksOK
  <2>2. pc[t] = "cl_slot"
    BY <1>1, <2>1, ThreadsAssumption
  <2> QED BY <2>2 DEF LocksOK, ClearPhase
<1>2. ASSUME NEW t \in Threads, Holds(t), WaitsFor(t) \in Threads
      PROVE  pc[t] = "dl_push" /\ struct_mutex = WaitsFor(t) /\ Deletes(t)
  <2>1. pc[t] = "dl_push" /\ struct_mutex = WaitsFor(t)
    BY <1>2, ThreadsAssumption
  <2> QED BY <2>1 DEF LocksOK, DeletePhase
<1>3. ASSUME NEW t \in Threads, NEW u \in Threads, WaitsFor(t) = u
      PROVE  struct_mutex = u \/ Holds(u)
  BY <1>0, <1>3, ThreadsAssumption DEF LocksOK, SlotPhase
<1>4. SUFFICES ASSUME NEW T \in SUBSET Threads, NEW t \in T, \A u \in T : WaitsFor(u) \in T
               PROVE  FALSE
  BY DEF NoCircularWait
<1>5. ASSUME NEW u \in T, struct_mutex = u PROVE FALSE
  <2>1. pc[u] = "cl_slot" /\ "clear" \in Calls[u]
    BY <1>1, <1>4, <1>5
  <2>2. PICK v \in T : v = WaitsFor(u)
    BY <1>4
  <2>3. v # u /\ Holds(v)
    BY <1>0, <1>3, <1>5, <2>1, <2>2 DEF LocksOK, SlotPhase
  <2>4. Deletes(v)
    BY <1>2, <1>4, <2>3
  <2> QED BY <2>1, <2>3, <2>4 DEF ClearsApart
<1>6. PICK u \in T : u = WaitsFor(t)
  BY <1>4
<1>7. PICK v \in T : v = WaitsFor(u)
  BY <1>4
<1>8. struct_mutex = u \/ struct_mutex = v
  BY <1>2, <1>3, <1>6, <1>7
<1> QED BY <1>5, <1>8

\* Lock order of the row store (DESIGN.md, section 3): whatever threads insert,
\* update, delete, read and run write statements, no set of them ever waits for
\* locks held within the set, and a clear beside threads that do not delete
\* adds no cycle.
THEOREM DeadlockFree == ASSUME ClearsApart PROVE Spec => []NoCircularWait
<1>1. Types /\ LocksOK => NoCircularWait
  BY NoCycle
<1> QED BY <1>1, LocksCorrect, PTL

-----------------------------------------------------------------------------
(* Scans.                                                                  *)

\* Steps of fm_core_scan_next, and those at which it tries to read slot
\* idx[t].
AttemptPhase == {"rd_state", "rd_seq", "rd_copy", "rd_check"}
ScanPhase == AttemptPhase \union {"sc_next", "done"}

\* Steps of calls that put a row in their slot or on the freelist.
RowPhase == InsPhase \union DelPhase \union
    {"dl_lock", "dl_state", "dl_gen", "dl_mark", "lk_lock", "lk_held"}

\* Every slot in use belongs to a chunk that exists, so that a scan up to the
\* end of the last chunk passes it.
InChunks ==
    /\ free_head < SlotCount
    /\ \A i \in Slots :
        /\ free_next[i] < SlotCount
        /\ state[i] = "ACTIVE" \/ pubgen[i] # NoGen => i < SlotCount
    /\ \A t \in Threads : pc[t] \in RowPhase => idx[t] < SlotCount

\* The rows a scan owes are live; while it runs they lie below its end; those
\* it has passed were returned, except for the one it is reading.
ScanOK(t) ==
    /\ stable[t] \subseteq ActiveSlots
    /\ op[t] = "scan" =>
        /\ pc[t] \in ScanPhase /\ exp[t] = NoGen
        /\ pc[t] \in AttemptPhase => idx[t] = pos[t] - 1
        /\ \A i \in stable[t] : i < bound[t]
    /\ pc[t] = "sc_next" => op[t] = "scan"
    /\ \A i \in stable[t] : i < pos[t] =>
        i \in seen[t] \/ (op[t] = "scan" /\ pc[t] \in AttemptPhase /\ idx[t] = i)
    /\ ret[t] = "EOF" => pc[t] = "done" /\ stable[t] \subseteq seen[t]

ScanInv == InChunks /\ \A t \in Threads : ScanOK(t)

\* Thread t gets no new slot.
KeepsRow(t) == pc'[t] \in RowPhase => pc[t] \in RowPhase /\ idx'[t] = idx[t]

\* Thread t stays where it is, is in no scan, or goes on reading a row.
KeepsScan(t) ==
    \/ pc'[t] = pc[t] /\ op'[t] = op[t] /\ exp'[t] = exp[t] /\ idx'[t] = idx[t] /\ ret'[t] = ret[t]
    \/ /\ pc[t] \notin ScanPhase \/ (op[t] # "scan" /\ pc[t] # "done")
       /\ op'[t] = op[t] \/ op'[t] # "scan"
       /\ ret'[t] = ret[t] \/ ret'[t] # "EOF"
       /\ pc'[t] # "sc_next"
    \/ /\ pc[t] \in AttemptPhase /\ pc'[t] \in AttemptPhase
       /\ op'[t] = op[t] /\ exp'[t] = exp[t] /\ idx'[t] = idx[t] /\ ret'[t] = ret[t]

LEMMA ScanOKFrame ==
    ASSUME NEW t \in Threads, ScanOK(t), KeepsScan(t),
           pos'[t] = pos[t], bound'[t] = bound[t], seen'[t] = seen[t],
           stable'[t] \subseteq stable[t], stable'[t] \subseteq ActiveSlots'
    PROVE  ScanOK(t)'
<1>1. CASE pc'[t] = pc[t] /\ op'[t] = op[t] /\ exp'[t] = exp[t] /\ idx'[t] = idx[t] /\ ret'[t] = ret[t]
  BY <1>1 DEF ScanOK
<1>2. CASE /\ pc[t] \notin ScanPhase \/ (op[t] # "scan" /\ pc[t] # "done")
           /\ op'[t] = op[t] \/ op'[t] # "scan"
           /\ ret'[t] = ret[t] \/ ret'[t] # "EOF"
           /\ pc'[t] # "sc_next"
  BY <1>2 DEF ScanOK, ScanPhase
<1>3. CASE /\ pc[t] \in AttemptPhase /\ pc'[t] \in AttemptPhase
           /\ op'[t] = op[t] /\ exp'[t] = exp[t] /\ idx'[t] = idx[t] /\ ret'[t] = ret[t]
  BY <1>3 DEF ScanOK, ScanPhase, AttemptPhase
<1> QED BY <1>1, <1>2, <1>3 DEF KeepsScan

\* A step that uses no new slot and moves no cursor keeps ScanInv.
LEMMA ScanFrame ==
    ASSUME ScanInv, UNCHANGED <<free_next, free_head, chunk_cnt, pubgen, pos, bound, seen>>,
           \A i \in Slots : state'[i] = "ACTIVE" => state[i] = "ACTIVE",
           \A t \in Threads : /\ KeepsRow(t) /\ KeepsScan(t)
                              /\ stable'[t] \subseteq stable[t] /\ stable'[t] \subseteq ActiveSlots'
    PROVE  ScanInv'
<1>1. InChunks'
  BY DEF ScanInv, InChunks, KeepsRow, SlotCount
<1>2. ASSUME NEW t \in Threads PROVE ScanOK(t)'
  BY ScanOKFrame DEF ScanInv
<1> QED BY <1>1, <1>2 DEF ScanInv

\* ... in particular one that leaves the slots alone.
LEMMA ScanQuiet ==
    ASSUME ScanInv, \A t \in Threads : KeepsRow(t) /\ KeepsScan(t),
           UNCHANGED <<free_next, free_head, chunk_cnt, pubgen, state, scanVars>>
    PROVE  ScanInv'
<1>1. ASSUME NEW t \in Threads
      PROVE  stable'[t] \subseteq stable[t] /\ stable'[t] \subseteq ActiveSlots'
  BY DEF ScanInv, ScanOK, ActiveSlots, scanVars
<1> QED BY <1>1, ScanFrame DEF scanVars

\* ... or starts a call other than scan_next.
LEMMA ScanBegin ==
    ASSUME ScanInv, ArgTypes, PcType, NEW t \in Threads, NEW o, NEW i, NEW g, NEW r, NEW l,
           Begin(t, o, i, g, r, l), o # "scan", l \notin ScanPhase \ AttemptPhase,
           l \in RowPhase => i < SlotCount, UNCHANGED scanVars
    PROVE  ScanInv'
<1>1. /\ pc[t] = "idle" /\ pc'[t] = l /\ op'[t] # "scan" /\ idx'[t] = i /\ ret' = ret
      /\ \A u \in Threads \ {t} : KeepsRow(u) /\ KeepsScan(u)
      /\ UNCHANGED <<free_next, free_head, chunk_cnt, pubgen, state, ret, pos, bound, stable, seen>>
  BY
  DEF Begin, Goto, ArgTypes, PcType, KeepsRow, KeepsScan, slotVars, shareVars, histVars, scanVars
<1>2. InChunks'
  BY <1>1 DEF ScanInv, InChunks, KeepsRow, SlotCount
<1>3. ASSUME NEW u \in Threads \ {t} PROVE ScanOK(u)'
  <2>1. stable'[u] \subseteq stable[u] /\ stable'[u] \subseteq ActiveSlots'
    BY <1>1 DEF ScanInv, ScanOK, ActiveSlots
  <2> QED BY <1>1, <2>1, ScanOKFrame DEF ScanInv
<1>4. ScanOK(t)'
  BY <1>1 DEF ScanInv, ScanOK, ActiveSlots, ScanPhase, AttemptPhase
<1> QED BY <1>2, <1>3, <1>4 DEF ScanInv

\* ... or goes on with a call other than scan_next.
LEMMA ScanMove ==
    ASSUME ScanInv, ArgTypes, PcType, NEW t \in Threads, NEW l, Goto(t, l),
           pc[t] \notin ScanPhase, l # "sc_next", l \in RowPhase => pc[t] \in RowPhase,
           \A u \in Threads \ {t} : exp'[u] = exp[u] /\ ret'[u] = ret[u],
           ret'[t] = ret[t] \/ ret'[t] # "EOF",
           UNCHANGED <<free_next, free_head, chunk_cnt, pubgen, state, op, idx, scanVars>>
    PROVE  ScanInv'
<1>1. \A u \in Threads : KeepsRow(u) /\ KeepsScan(u)
  BY DEF Goto, ArgTypes, PcType, KeepsRow, KeepsScan
<1> QED BY <1>1, ScanQuiet DEF scanVars

\* ... or goes on reading a row.
LEMMA ScanRead ==
    ASSUME ScanInv, ArgTypes, PcType, NEW t \in Threads, NEW l, Goto(t, l),
           pc[t] \in AttemptPhase \union {"rd_gen"}, l \in AttemptPhase \union {"rd_gen"},
           l = "rd_gen" => op[t] # "scan",
           UNCHANGED <<free_next, free_head, chunk_cnt, pubgen, state, op, idx, exp, ret, scanVars>>
    PROVE  ScanInv'
<1>1. pc'[t] = l /\ \A u \in Threads \ {t} : pc'[u] = pc[u]
  BY DEF Goto, PcType
<1>2. \A u \in Threads \ {t} : KeepsRow(u) /\ KeepsScan(u)
  BY <1>1 DEF KeepsRow, KeepsScan
<1>3. l \notin RowPhase /\ pc[t] # "done" /\ l # "sc_next" /\ (pc[t] = "rd_gen" => pc[t] \notin ScanPhase)
  BY DEF AttemptPhase, ScanPhase, RowPhase, InsPhase, DelPhase
<1>4. KeepsRow(t) /\ KeepsScan(t)
  BY <1>1, <1>3 DEF KeepsRow, KeepsScan
<1> QED BY <1>2, <1>4, ScanQuiet DEF scanVars

\* A step that moves one cursor.
LEMMA ScanOne ==
    ASSUME ScanInv, NEW t \in Threads, ScanOK(t)', pc'[t] \notin RowPhase,
           UNCHANGED <<free_next, free_head, chunk_cnt, pubgen, state>>,
           \A u \in Threads \ {t} :
                /\ pc'[u] = pc[u] /\ op'[u] = op[u] /\ exp'[u] = exp[u] /\ idx'[u] = idx[u]
                /\ ret'[u] = ret[u] /\ pos'[u] = pos[u] /\ bound'[u] = bound[u]
                /\ stable'[u] = stable[u] /\ seen'[u] = seen[u]
    PROVE  ScanInv'
<1>1. InChunks'
  BY DEF ScanInv, InChunks, SlotCount
<1>2. ASSUME NEW u \in Threads \ {t} PROVE ScanOK(u)'
  <2>1. stable'[u] \subseteq stable[u] /\ stable'[u] \subseteq ActiveSlots' /\ KeepsScan(u)
    BY DEF ScanInv, ScanOK, ActiveSlots, KeepsScan
  <2> QED BY <2>1, ScanOKFrame DEF ScanInv
<1> QED BY <1>1, <1>2 DEF ScanInv

\* A scan_next call starts: what the scan owes lies below its end.
LEMMA ScanStart ==
    ASSUME ScanInv, ArgTypes, PcType, NEW t \in Threads,
           Begin(t, "scan", FM_NULL_SLOT, NoGen, NoRec, "sc_next"),
           UNCHANGED <<pos, seen>>, bound \in [Threads -> Nat], stable \in [Threads -> SUBSET Slots],
           bound' = [bound EXCEPT ![t] = SlotCount],
           NEW S, stable' = [stable EXCEPT ![t] = S] \/ (stable' = stable /\ S = stable[t]),
           S \subseteq ActiveSlots, \A i \in ActiveSlots : i < SlotCount,
           \A i \in S : i < pos[t] => i \in seen[t]
    PROVE  ScanInv'
<1>1. /\ pc[t] = "idle" /\ pc'[t] = "sc_next" /\ op'[t] = "scan" /\ exp'[t] = NoGen /\ ret' = ret
      /\ UNCHANGED <<free_next, free_head, chunk_cnt, pubgen, state>>
      /\ bound'[t] = SlotCount /\ stable'[t] = S
  BY DEF Begin, Goto, ArgTypes, PcType, slotVars, shareVars, histVars
<1>2. \A u \in Threads \ {t} :
        /\ pc'[u] = pc[u] /\ op'[u] = op[u] /\ exp'[u] = exp[u] /\ idx'[u] = idx[u]
        /\ bound'[u] = bound[u] /\ stable'[u] = stable[u]
  BY DEF Begin, Goto, ArgTypes, PcType
<1>3. ScanOK(t)'
  BY <1>1 DEF ScanInv, ScanOK, ActiveSlots, ScanPhase, AttemptPhase
<1> QED BY <1>1, <1>2, <1>3, ScanOne DEF RowPhase, InsPhase, DelPhase

\* A step that moves no cursor and takes no row away.
LEMMA ScanStays ==
    ASSUME ScanInv, InChunks', ActiveSlots \subseteq ActiveSlots', UNCHANGED scanVars,
           \A t \in Threads : KeepsScan(t)
    PROVE  ScanInv'
<1>1. ASSUME NEW t \in Threads PROVE ScanOK(t)'
  <2>1. stable'[t] \subseteq stable[t] /\ stable'[t] \subseteq ActiveSlots'
    BY DEF ScanInv, ScanOK, scanVars
  <2> QED BY <2>1, ScanOKFrame DEF ScanInv, scanVars
<1> QED BY <1>1 DEF ScanInv

\* A step that takes slot i away from the scans.
LEMMA ScanLeave ==
    ASSUME ScanInv, ScanTypes, NEW i \in Slots, NEW s, s # "ACTIVE",
           state \in [Slots -> {"FREE", "ACTIVE", "DELETED", "DELETING"}],
           state' = [state EXCEPT ![i] = s], LeaveActive(i),
           UNCHANGED <<free_next, free_head, chunk_cnt, pubgen, pos, bound, seen>>,
           \A t \in Threads : KeepsRow(t) /\ KeepsScan(t)
    PROVE  ScanInv'
<1>1. \A j \in Slots : state'[j] = "ACTIVE" => state[j] = "ACTIVE"
  OBVIOUS
<1>2. ASSUME NEW t \in Threads
      PROVE  stable'[t] \subseteq stable[t] /\ stable'[t] \subseteq ActiveSlots'
  BY DEF ScanInv, ScanOK, ActiveSlots, LeaveActive, ScanTypes
<1> QED BY <1>1, <1>2, ScanFrame

\* The freelist of a fresh chunk stays in the chunk.
LEMMA GrowInChunks ==
    ASSUME ShareTypes, NEW t \in Threads, AllocGrow(t), \A i \in Slots : free_next[i] < SlotCount
    PROVE  /\ SlotCount < SlotCount' /\ SlotCount \in Nat /\ SlotCount' \in Nat
           /\ free_head' < SlotCount' /\ \A i \in Slots : free_next'[i] < SlotCount'
<1>1. SlotCount \in Nat /\ chunk_cnt \in Nat /\ FM_CHUNK_SIZE \in Nat \ {0}
  BY SMTT(30), CountOK, CapOK, SizesAssumption DEF ShareTypes
<1>2. SlotCount' = SlotCount + FM_CHUNK_SIZE
  BY SMTT(30), <1>1 DEF AllocGrow, ChunkEnd, GrowTo, SlotCount
<1> DEFINE end == IF SlotCount + FM_CHUNK_SIZE > max_records
                  THEN max_records ELSE SlotCount + FM_CHUNK_SIZE
<1>3. PICK n \in Nat, m \in Nat, e \in Nat : /\ n = SlotCount /\ m = SlotCount' /\ e = end
                                             /\ n < m /\ e <= m
  BY SMTT(30), <1>1, <1>2, SizesAssumption
<1> HIDE DEF end
<1>4. /\ free_head' = IF n + 1 < e THEN n + 1 ELSE FM_NULL_SLOT
      /\ free_next' = [i \in Slots |->
                IF i \in n + 1 .. e - 2 THEN i + 1
                ELSE IF i = e - 1 /\ i > n THEN FM_NULL_SLOT
                ELSE free_next[i]]
  BY SMTT(30), <1>3 DEF AllocGrow, ChunkEnd, GrowTo, end
<1>5. free_head' < m
  BY SMTT(30), <1>3, <1>4 DEF FM_NULL_SLOT
<1>6. ASSUME NEW i \in Slots PROVE free_next'[i] < m
  <2>1. free_next[i] \in Int /\ i \in Int /\ free_next[i] < n
    BY SMTT(30), <1>3 DEF ShareTypes, FM_NULL_SLOT, Slots
  <2>2. free_next'[i] = IF i \in n + 1 .. e - 2 THEN i + 1
                        ELSE IF i = e - 1 /\ i > n THEN FM_NULL_SLOT
                        ELSE free_next[i]
    BY <1>4
  <2> QED BY SMTT(30), <1>3, <2>1, <2>2 DEF FM_NULL_SLOT
<1> QED BY SMTT(30), <1>1, <1>3, <1>5, <1>6

\* A read attempt that finds the row gone: a scan does not owe it.
LEMMA ScanDeleted ==
    ASSUME ScanInv, ArgTypes, PcType, LocalTypes, NEW t \in Threads,
           pc[t] \in {"rd_state", "rd_gen"}, ReadDeleted(t),
           pc[t] = "rd_state" => state[idx[t]] # "ACTIVE",
           UNCHANGED <<free_next, free_head, chunk_cnt, pubgen, state, op, idx, exp>>
    PROVE  ScanInv'
<1>1. CASE op[t] # "scan"
  <2>1. \A u \in Threads : KeepsRow(u) /\ KeepsScan(u)
    BY <1>1 DEF ReadDeleted, Goto, PcType, LocalTypes, KeepsRow, KeepsScan,
       ScanPhase, AttemptPhase, RowPhase, InsPhase, DelPhase
  <2> QED BY <2>1, ScanQuiet DEF ReadDeleted
<1>2. CASE op[t] = "scan"
  <2>1. /\ pc[t] = "rd_state" /\ exp[t] = NoGen /\ idx[t] \notin stable[t]
        /\ stable[t] \subseteq ActiveSlots /\ ret[t] # "EOF"
        /\ \A i \in stable[t] : i < bound[t] /\ (i < pos[t] => i \in seen[t] \/ idx[t] = i)
    BY <1>2 DEF ScanInv, ScanOK, ScanPhase, AttemptPhase, ActiveSlots
  <2>2. /\ pc' = [pc EXCEPT ![t] = "sc_next"]
        /\ UNCHANGED <<ret, pos, bound, stable, seen>>
    BY <1>2 DEF ReadDeleted, Goto, scanVars
  <2>3. ScanOK(t)'
    BY <1>2, <2>1, <2>2 DEF ScanOK, ScanPhase, AttemptPhase, PcType, ActiveSlots
  <2> QED BY <2>2, <2>3, ScanOne DEF PcType, RowPhase, InsPhase, DelPhase
<1> QED BY <1>1, <1>2

LEMMA ScanInit == Init => ScanInv
<1> SUFFICES ASSUME Init PROVE ScanInv
  BY SMTT(30)
<1>1. SlotCount = 0
  BY SMTT(30), SizesAssumption DEF Init, SlotCount
<1>2. InChunks
  BY SMTT(30), <1>1 DEF Init, InChunks, RowPhase, InsPhase, DelPhase, NoGen, FM_NULL_SLOT
<1>3. ASSUME NEW t \in Threads PROVE ScanOK(t)
  BY SMTT(30) DEF Init, ScanOK, ActiveSlots
<1> QED BY <1>2, <1>3 DEF ScanInv
\* Every step keeps ScanInv.
LEMMA ScanInvStep == ASSUME Types, ScanInv, [Next]_vars PROVE ScanInv'
<1> USE DEF ScanPhase, AttemptPhase, RowPhase, InsPhase, DelPhase
<1>0. /\ ArgTypes /\ PcType /\ LocalTypes /\ ScanTypes /\ ShareTypes
      /\ state \in [Slots -> {"FREE", "ACTIVE", "DELETED", "DELETING"}]
      /\ pubgen \in [Slots -> Nat \union {NoGen}]
      /\ pc \in [Threads -> Labels] /\ op \in [Threads -> AllCalls \union {"none"}]
      /\ exp \in [Threads -> Nat \union {NoGen}]
      /\ idx \in [Threads -> Slots \union {FM_NULL_SLOT}]
      /\ ret \in [Threads -> {"none", "OK", "DELETED", "EOF", "FULL", "NOMEM"}]
      /\ \A t \in Threads : pc[t] \in SlotPhase => idx[t] \in Slots
  BY DEF Types, TypeOK, SlotTypes, PcType, ArgTypes, LocalTypes, ScanTypes, HistTypes, ArgsOK
<1>1. ASSUME NEW t \in Threads, CallRead(t) PROVE ScanInv'
  BY <1>0, <1>1, ScanBegin DEF CallRead
<1>2. ASSUME NEW t \in Threads, CallInsert(t) PROVE ScanInv'
  BY <1>0, <1>2, ScanBegin DEF CallInsert
<1>3. ASSUME NEW t \in Threads, CallUpdate(t) PROVE ScanInv'
  BY <1>0, <1>3, ScanBegin DEF CallUpdate
<1>4. ASSUME NEW t \in Threads, CallDelete(t) PROVE ScanInv'
  BY <1>0, <1>4, ScanBegin DEF CallDelete, Ref, ScanInv, InChunks
<1>5. ASSUME NEW t \in Threads, CallLock(t) PROVE ScanInv'
  BY <1>0, <1>5, ScanBegin DEF CallLock, ScanInv, InChunks
<1>6. ASSUME NEW t \in Threads, CallClear(t) PROVE ScanInv'
  BY <1>0, <1>6, ScanBegin DEF CallClear
<1>7. ASSUME NEW t \in Threads, CallScanFirst(t) PROVE ScanInv'
  <2>1. /\ Begin(t, "scan", FM_NULL_SLOT, NoGen, NoRec, "sc_next")
        /\ pos[t] = 0
        /\ bound' = [bound EXCEPT ![t] = SlotCount] /\ stable' = [stable EXCEPT ![t] = ActiveSlots]
        /\ UNCHANGED <<pos, seen>>
    BY <1>7 DEF CallScanFirst
  <2>2. \A i \in ActiveSlots : i < SlotCount
    BY DEF ScanInv, InChunks, ActiveSlots
  <2>3. \A i \in ActiveSlots : ~(i < pos[t])
    BY SMTT(30), <2>1 DEF ActiveSlots, Slots
  <2> QED BY <1>0, <2>1, <2>2, <2>3, ScanStart DEF ScanTypes
<1>8. ASSUME NEW t \in Threads, CallScanNext(t) PROVE ScanInv'
  <2>1. /\ Begin(t, "scan", FM_NULL_SLOT, NoGen, NoRec, "sc_next")
        /\ bound' = [bound EXCEPT ![t] = SlotCount]
        /\ UNCHANGED <<pos, stable, seen>>
    BY <1>8 DEF CallScanNext
  <2>2. /\ stable[t] \subseteq ActiveSlots /\ \A i \in ActiveSlots : i < SlotCount
        /\ \A i \in stable[t] : i < pos[t] => i \in seen[t]
    BY <2>1 DEF ScanInv, ScanOK, InChunks, ActiveSlots, Begin
  <2> QED BY <1>0, <2>1, <2>2, ScanStart DEF ScanTypes
<1>9. ASSUME NEW t \in Threads, InsertAlloc(t) PROVE ScanInv'
  <2>1. /\ pc[t] = "ins_alloc" /\ UNCHANGED <<state, pubgen, op, exp, ret, scanVars>>
    BY <1>9 DEF InsertAlloc, slotVars
  <2>2. CASE AllocPop(t)
    <3>1. /\ free_head \in Slots /\ free_head < SlotCount /\ free_next[free_head] < SlotCount
          /\ free_head' = free_next[free_head] /\ UNCHANGED <<free_next, chunk_cnt>>
          /\ pc' = [pc EXCEPT ![t] = "ins_copy"] /\ idx' = [idx EXCEPT ![t] = free_head]
      BY <1>0, <2>2 DEF AllocPop, TakeSlot, Goto, ShareTypes, ScanInv, InChunks
    <3>2. \A u \in Threads : KeepsScan(u) /\ (KeepsRow(u) \/ (u = t /\ idx'[u] = free_head))
      BY <1>0, <2>1, <3>1 DEF KeepsScan, KeepsRow
    <3>3. InChunks'
      BY <2>1, <3>1, <3>2 DEF ScanInv, InChunks, SlotCount, KeepsRow
    <3> QED BY <2>1, <3>2, <3>3, ScanStays DEF ActiveSlots
  <2>3. CASE AllocGrow(t)
    <3>1. /\ pc' = [pc EXCEPT ![t] = "ins_copy"] /\ idx' = [idx EXCEPT ![t] = SlotCount]
      BY <2>3 DEF AllocGrow, ChunkEnd, GrowTo, TakeSlot, Goto
    <3>2. \A u \in Threads : KeepsScan(u) /\ (KeepsRow(u) \/ (u = t /\ idx'[u] = SlotCount))
      BY <1>0, <2>1, <3>1 DEF KeepsScan, KeepsRow
    <3>3. /\ SlotCount < SlotCount' /\ SlotCount \in Nat /\ SlotCount' \in Nat
          /\ free_head' < SlotCount' /\ \A i \in Slots : free_next'[i] < SlotCount'
      BY <1>0, <2>3, GrowInChunks DEF ScanInv, InChunks
    <3>4. \A i \in Slots \union {FM_NULL_SLOT} : i < SlotCount => i < SlotCount'
      BY SMTT(30), <3>3 DEF Slots, FM_NULL_SLOT
    <3>5. InChunks'
      BY <1>0, <2>1, <3>2, <3>3, <3>4 DEF ScanInv, InChunks, KeepsRow
    <3> QED BY <2>1, <3>2, <3>5, ScanStays DEF ActiveSlots
  <2>4. CASE AllocFail(t)
    BY <1>0, <2>1, <2>4, ScanMove DEF AllocFail
  <2> QED BY <1>9, <2>2, <2>3, <2>4 DEF InsertAlloc
<1>10. ASSUME NEW t \in Threads, UpdateLock(t) PROVE ScanInv'
  BY <1>0, <1>10, ScanMove
  DEF UpdateLock, LockSlot, Exchange, slotVars, shareVars, argVars, histVars
<1>11. ASSUME NEW t \in Threads, DeleteLock(t) PROVE ScanInv'
  BY <1>0, <1>11, ScanMove
  DEF DeleteLock, LockSlot, Exchange, slotVars, shareVars, argVars, histVars
<1>12. ASSUME NEW t \in Threads, DeletePush(t) PROVE ScanInv'
  <2>1. /\ pc[t] = "dl_push" /\ idx[t] \in Slots /\ idx[t] < SlotCount
        /\ free_next' = [free_next EXCEPT ![idx[t]] = free_head] /\ free_head' = idx[t]
        /\ UNCHANGED <<state, pubgen, chunk_cnt, op, idx, exp, scanVars>>
    BY <1>0, <1>12
    DEF DeletePush, Push, ScanInv, InChunks, SlotPhase, slotVars, argVars, histVars
  <2>2. \A u \in Threads : KeepsRow(u) /\ KeepsScan(u)
    BY <1>0, <1>12 DEF DeletePush, Push, Goto, argVars, KeepsRow, KeepsScan
  <2>3. \A i \in Slots : free_next'[i] \in {free_next[i], free_head}
    BY <1>0, <2>1 DEF ShareTypes
  <2>4. InChunks'
    BY <2>1, <2>2, <2>3 DEF ScanInv, InChunks, SlotCount, KeepsRow
  <2> QED BY <2>1, <2>2, <2>4, ScanStays DEF ActiveSlots
<1>13. ASSUME NEW t \in Threads, LockRow(t) PROVE ScanInv'
  BY <1>0, <1>13, ScanMove
  DEF LockRow, LockSlot, Exchange, slotVars, shareVars, argVars, histVars
<1>14. ASSUME NEW t \in Threads, ClearLock(t) PROVE ScanInv'
  <2>1. \A u \in Threads : KeepsRow(u) /\ KeepsScan(u)
    BY <1>0, <1>14 DEF ClearLock, Goto, KeepsRow, KeepsScan
  <2> QED BY <1>14, <2>1, ScanQuiet DEF ClearLock, slotVars, histVars
<1>15. ASSUME NEW t \in Threads, ClearSlot(t) PROVE ScanInv'
  <2>1. \A u \in Threads : KeepsRow(u) /\ KeepsScan(u)
    BY <1>0, <1>15 DEF ClearSlot, FreeSlotStores, Goto, KeepsRow, KeepsScan
  <2>2. idx[t] \in Slots
    BY <1>0, <1>15 DEF ClearSlot, SlotPhase
  <2> QED BY <1>0, <1>15, <2>1, <2>2, ScanLeave
    DEF ClearSlot, FreeSlotStores, shareVars, histVars
<1>16. ASSUME NEW t \in Threads, ReadState(t) PROVE ScanInv'
  <2>0. /\ pc[t] = "rd_state"
        /\ UNCHANGED <<free_next, free_head, chunk_cnt, pubgen, state, op, idx, exp>>
    BY <1>16 DEF ReadState, slotVars, shareVars, argVars
  <2>1. CASE state[idx[t]] = "ACTIVE"
    <3>1. /\ Goto(t, IF exp[t] = NoGen THEN "rd_seq" ELSE "rd_gen")
          /\ UNCHANGED <<ret, scanVars>>
      BY <1>16, <2>1 DEF ReadState
    <3>2. op[t] = "scan" => exp[t] = NoGen
      BY DEF ScanInv, ScanOK
    <3> QED BY <1>0, <2>0, <3>1, <3>2, ScanRead
  <2>2. CASE state[idx[t]] # "ACTIVE"
    <3>1. ReadDeleted(t)
      BY <1>16, <2>2 DEF ReadState
    <3> QED BY <1>0, <2>0, <2>2, <3>1, ScanDeleted
  <2> QED BY <2>1, <2>2
<1>17. ASSUME NEW t \in Threads, ReadGen(t) PROVE ScanInv'
  <2>0. /\ pc[t] = "rd_gen"
        /\ UNCHANGED <<free_next, free_head, chunk_cnt, pubgen, state, op, idx, exp>>
    BY <1>17 DEF ReadGen, slotVars, shareVars, argVars, histVars
  <2>1. CASE Goto(t, "rd_seq") /\ UNCHANGED <<ret, scanVars>>
    BY <1>0, <2>0, <2>1, ScanRead
  <2>2. CASE ReadDeleted(t)
    BY <1>0, <2>0, <2>2, ScanDeleted
  <2> QED BY <1>17, <2>1, <2>2 DEF ReadGen
<1>18. ASSUME NEW t \in Threads, ReadSeq(t) PROVE ScanInv'
  BY <1>0, <1>18, ScanRead DEF ReadSeq, slotVars, shareVars, argVars
<1>19. ASSUME NEW t \in Threads, ReadCopy(t) PROVE ScanInv'
  BY <1>0, <1>19, ScanRead DEF ReadCopy, slotVars, shareVars, argVars, histVars
<1>20. ASSUME NEW t \in Threads, ReadCheck(t) PROVE ScanInv'
  <2>0. /\ pc[t] = "rd_check"
        /\ UNCHANGED <<free_next, free_head, chunk_cnt, pubgen, state, op, idx, exp>>
    BY <1>20 DEF ReadCheck, slotVars, shareVars, argVars
  <2>1. CASE ReadOK(t)
    <3>1. /\ pc' = [pc EXCEPT ![t] = "done"] /\ ret' = [ret EXCEPT ![t] = "OK"]
          /\ UNCHANGED <<pos, bound, stable>>
      BY <2>1 DEF ReadOK, Return, Goto
    <3>2. /\ \A u \in Threads \ {t} : seen'[u] = seen[u]
          /\ op[t] = "scan" => seen'[t] = seen[t] \union {idx[t]}
          /\ op[t] # "scan" => seen' = seen
      BY <1>0, <2>1 DEF ReadOK, ScanTypes
    <3>3. ScanOK(t)'
      BY <1>0, <2>0, <3>1, <3>2 DEF ScanInv, ScanOK, ActiveSlots
    <3> QED BY <1>0, <2>0, <3>1, <3>2, <3>3, ScanOne
  <2>2. CASE Goto(t, "rd_state") /\ UNCHANGED <<ret, scanVars>>
    BY <1>0, <2>0, <2>2, ScanRead
  <2> QED BY <1>20, <2>1, <2>2 DEF ReadCheck
<1>21. ASSUME NEW t \in Threads, ScanStep(t) PROVE ScanInv'
  <2>0. /\ pc[t] = "sc_next" /\ op[t] = "scan" /\ exp[t] = NoGen /\ ret[t] # "EOF"
        /\ stable[t] \subseteq ActiveSlots
        /\ \A i \in stable[t] : i < bound[t] /\ (i < pos[t] => i \in seen[t])
    BY <1>21 DEF ScanStep, ScanUpTo, ScanInv, ScanOK
  <2>1. UNCHANGED <<free_next, free_head, chunk_cnt, pubgen, state, op, exp, bound, stable, seen>>
    BY <1>21 DEF ScanStep, ScanUpTo, slotVars, shareVars, histVars
  <2>2. CASE /\ pos[t] < bound[t] /\ idx' = [idx EXCEPT ![t] = pos[t]]
             /\ pos' = [pos EXCEPT ![t] = pos[t] + 1] /\ Goto(t, "rd_state") /\ UNCHANGED ret
    <3>1. pc'[t] = "rd_state" /\ idx'[t] = pos[t] /\ pos'[t] = pos[t] + 1
      BY <1>0, <2>2 DEF Goto, ScanTypes
    <3>2. /\ idx'[t] = pos'[t] - 1
          /\ \A i \in stable[t] : i < pos'[t] => i < pos[t] \/ idx'[t] = i
      <4>1. pos[t] \in Int /\ \A i \in stable[t] : i \in Int
        BY SMTT(30), <1>0 DEF ScanTypes, Slots
      <4> QED BY SMTT(30), <3>1, <4>1
    <3>3. ScanOK(t)'
      BY <2>0, <2>1, <2>2, <3>1, <3>2 DEF ScanOK, ActiveSlots
    <3> QED BY <1>0, <2>1, <2>2, <3>1, <3>3, ScanOne DEF Goto, ScanTypes
  <2>3. CASE pos[t] >= bound[t] /\ Return(t, "EOF") /\ UNCHANGED <<idx, pos>>
    <3>1. pc'[t] = "done" /\ ret'[t] = "EOF"
      BY <1>0, <2>3 DEF Goto, Return
    <3>2. \A i \in stable[t] : i < pos[t]
      BY SMTT(30), <1>0, <2>0, <2>3 DEF ScanTypes, Slots
    <3>3. ScanOK(t)'
      BY <2>0, <2>1, <2>3, <3>1, <3>2 DEF ScanOK, ActiveSlots
    <3> QED BY <1>0, <2>1, <2>3, <3>1, <3>3, ScanOne DEF Return, Goto
  <2> QED BY <1>21, <2>2, <2>3 DEF ScanStep, ScanUpTo
<1>22. ASSUME NEW t \in Threads, InsertFail(t) PROVE ScanInv'
  BY <1>0, <1>22, ScanMove
  DEF InsertFail, Return, slotVars, shareVars, argVars, histVars
<1>23. ASSUME NEW t \in Threads, InsertCopy(t) PROVE ScanInv'
  BY <1>0, <1>23, ScanMove
  DEF InsertCopy, CopyIn, slotVars, shareVars, argVars, histVars
<1>24. ASSUME NEW t \in Threads, InsertPublish(t) PROVE ScanInv'
  <2>1. /\ pc[t] = "ins_publish" /\ idx[t] \in Slots /\ idx[t] < SlotCount
        /\ pc' = [pc EXCEPT ![t] = "ins_count"]
        /\ state' = [state EXCEPT ![idx[t]] = "ACTIVE"]
        /\ pubgen' = [pubgen EXCEPT ![idx[t]] = gen[idx[t]]]
        /\ UNCHANGED <<free_next, free_head, chunk_cnt, op, idx, exp, ret, scanVars>>
    BY <1>0, <1>24 DEF InsertPublish, Goto, ScanInv, InChunks, SlotPhase, shareVars, argVars
  <2>2. \A u \in Threads : KeepsRow(u) /\ KeepsScan(u)
    BY <1>0, <2>1 DEF KeepsRow, KeepsScan
  <2>3. ActiveSlots \subseteq ActiveSlots'
    BY <1>0, <2>1 DEF ActiveSlots
  <2>4. \A i \in Slots : i # idx[t] => state'[i] = state[i] /\ pubgen'[i] = pubgen[i]
    BY <1>0, <2>1
  <2>5. InChunks'
    BY <2>1, <2>2, <2>4 DEF ScanInv, InChunks, SlotCount, KeepsRow
  <2> QED BY <2>1, <2>2, <2>3, <2>5, ScanStays
<1>25. ASSUME NEW t \in Threads, InsertCount(t) PROVE ScanInv'
  BY <1>0, <1>25, ScanMove
  DEF InsertCount, Return, slotVars, shareVars, argVars, histVars
<1>26. ASSUME NEW t \in Threads, UpdateState(t) PROVE ScanInv'
  BY <1>0, <1>26, ScanMove
 
  DEF UpdateState, VerifyState, Unlock, KeepLock, DropLock, Return, slotVars, shareVars, argVars,
      histVars
<1>27. ASSUME NEW t \in Threads, UpdateGen(t) PROVE ScanInv'
  BY <1>0, <1>27, ScanMove
 
  DEF UpdateGen, VerifyGen, Unlock, KeepLock, DropLock, Return, slotVars, shareVars, argVars,
      histVars
<1>28. ASSUME NEW t \in Threads, UpdateOdd(t) PROVE ScanInv'
  BY <1>0, <1>28, ScanMove
  DEF UpdateOdd, BumpSeq, slotVars, shareVars, argVars, histVars
<1>29. ASSUME NEW t \in Threads, UpdateCopy(t) PROVE ScanInv'
  BY <1>0, <1>29, ScanMove
  DEF UpdateCopy, CopyIn, slotVars, shareVars, argVars, histVars
<1>30. ASSUME NEW t \in Threads, UpdateEven(t) PROVE ScanInv'
  BY <1>0, <1>30, ScanMove
 
  DEF UpdateEven, BumpSeq, Unlock, KeepLock, DropLock, Return, slotVars, shareVars, argVars,
      histVars
<1>31. ASSUME NEW t \in Threads, DeleteState(t) PROVE ScanInv'
  BY <1>0, <1>31, ScanMove
 
  DEF DeleteState, VerifyState, Unlock, KeepLock, DropLock, Return, slotVars, shareVars, argVars,
      histVars
<1>32. ASSUME NEW t \in Threads, DeleteGen(t) PROVE ScanInv'
  BY <1>0, <1>32, ScanMove
 
  DEF DeleteGen, VerifyGen, Unlock, KeepLock, DropLock, Return, slotVars, shareVars, argVars,
      histVars
<1>33. ASSUME NEW t \in Threads, DeleteMark(t) PROVE ScanInv'
  <2>1. \A u \in Threads : KeepsRow(u) /\ KeepsScan(u)
    BY <1>0, <1>33 DEF DeleteMark, Goto, argVars, KeepsRow, KeepsScan
  <2>2. idx[t] \in Slots
    BY <1>0, <1>33 DEF DeleteMark, SlotPhase
  <2> QED BY <1>0, <1>33, <2>1, <2>2, ScanLeave DEF DeleteMark, shareVars, histVars
<1>34. ASSUME NEW t \in Threads, DeleteDead(t) PROVE ScanInv'
  <2>1. \A u \in Threads : KeepsRow(u) /\ KeepsScan(u)
    BY <1>0, <1>34 DEF DeleteDead, Goto, argVars, KeepsRow, KeepsScan
  <2>2. idx[t] \in Slots
    BY <1>0, <1>34 DEF DeleteDead, SlotPhase
  <2> QED BY <1>0, <1>34, <2>1, <2>2, ScanLeave DEF DeleteDead, shareVars, histVars
<1>35. ASSUME NEW t \in Threads, DeleteBump(t) PROVE ScanInv'
  BY <1>0, <1>35, ScanMove
  DEF DeleteBump, slotVars, shareVars, argVars, histVars
<1>36. ASSUME NEW t \in Threads, DeleteCount(t) PROVE ScanInv'
  BY <1>0, <1>36, ScanMove
  DEF DeleteCount, slotVars, shareVars, argVars, histVars
<1>37. ASSUME NEW t \in Threads, UpdateLocked(t) PROVE ScanInv'
  BY <1>0, <1>37, ScanMove
  DEF UpdateLocked, StartLocked, slotVars, shareVars, argVars, histVars
<1>38. ASSUME NEW t \in Threads, DeleteLocked(t) PROVE ScanInv'
  BY <1>0, <1>38, ScanMove
  DEF DeleteLocked, StartLocked, slotVars, shareVars, argVars, histVars
<1>39. ASSUME NEW t \in Threads, UnlockRow(t) PROVE ScanInv'
  BY <1>0, <1>39, ScanMove
  DEF UnlockRow, slotVars, shareVars, argVars, histVars
<1>40. ASSUME NEW t \in Threads, ClearRebuild(t) PROVE ScanInv'
  <2>1. /\ free_next' = [i \in Slots |-> IF i < SlotCount THEN i - 1 ELSE free_next[i]]
        /\ free_head' = SlotCount - 1
        /\ UNCHANGED <<state, pubgen, chunk_cnt, op, idx, exp, scanVars>>
    BY <1>40 DEF ClearRebuild, Rebuild, slotVars, argVars, histVars
  <2>2. \A u \in Threads : KeepsRow(u) /\ KeepsScan(u)
    BY <1>0, <1>40 DEF ClearRebuild, Rebuild, Return, Goto, argVars, KeepsRow, KeepsScan
  <2>3. PICK n \in Nat : n = SlotCount
    BY SMTT(30), <1>0, CountOK DEF ShareTypes
  <2>4. free_head' < n /\ \A i \in Slots : i < n => i - 1 < n
    BY SMTT(30), <2>1, <2>3 DEF Slots
  <2>5. free_head' < SlotCount /\ \A i \in Slots : free_next'[i] < SlotCount
    BY <2>1, <2>3, <2>4 DEF ScanInv, InChunks
  <2>6. InChunks'
    BY <2>1, <2>2, <2>5 DEF ScanInv, InChunks, SlotCount, KeepsRow
  <2> QED BY <2>1, <2>2, <2>6, ScanStays DEF ActiveSlots
<1>41. ASSUME NEW t \in Threads, Finish(t) PROVE ScanInv'
  <2>1. /\ pc[t] = "done" /\ pc'[t] = "idle" /\ op'[t] = "none" /\ ret'[t] = "none"
        /\ UNCHANGED <<free_next, free_head, chunk_cnt, pubgen, state>>
    BY <1>0, <1>41 DEF Finish, Goto, slotVars, shareVars
  <2>2. /\ pos'[t] = pos[t] /\ stable'[t] = stable[t] /\ seen'[t] = seen[t]
        \/ stable'[t] = {}
    BY <1>0, <1>41 DEF Finish, ScanTypes
  <2>3. ASSUME NEW u \in Threads \ {t}
        PROVE  /\ pc'[u] = pc[u] /\ op'[u] = op[u] /\ exp'[u] = exp[u] /\ idx'[u] = idx[u]
               /\ ret'[u] = ret[u] /\ pos'[u] = pos[u] /\ bound'[u] = bound[u]
               /\ stable'[u] = stable[u] /\ seen'[u] = seen[u]
    BY <1>0, <1>41 DEF Finish, Goto, ScanTypes
  <2>4. ScanOK(t)'
    BY <2>1, <2>2 DEF ScanInv, ScanOK, ActiveSlots
  <2> QED BY <2>1, <2>3, <2>4, ScanOne
<1>42. CASE UNCHANGED vars
  BY <1>42, ScanQuiet DEF KeepsRow, KeepsScan, vars, slotVars, shareVars, argVars, histVars
<1> QED
  BY <1>1, <1>2, <1>3, <1>4, <1>5, <1>6, <1>7, <1>8, <1>9, <1>10, <1>11, <1>12,
     <1>13, <1>14, <1>15, <1>16, <1>17, <1>18, <1>19, <1>20, <1>21, <1>22, <1>23, <1>24, <1>25,
     <1>26, <1>27, <1>28, <1>29, <1>30, <1>31, <1>32, <1>33, <1>34, <1>35, <1>36, <1>37, <1>38,
     <1>39, <1>40, <1>41, <1>42
  DEF Next, Call, Acquire, Run

LEMMA ScanCorrect == Spec => [](Types /\ ScanInv)
<1>1. Init => Types /\ ScanInv
  BY TypesInit, ScanInit
<1>2. Types /\ ScanInv /\ [Next]_vars => (Types /\ ScanInv)'
  BY TypesStep, ScanInvStep
<1> QED BY <1>1, <1>2, PTL DEF Spec

\* fm_core_scan_next against every other call, clear included: when a scan
\* reports EOF it has returned every row that was live from its first call on.
THEOREM ScanMissesNoRow == Spec => []ScanComplete
<1>1. ScanInv => ScanComplete
  BY DEF ScanInv, ScanOK, ScanComplete
<1> QED BY <1>1, ScanCorrect, PTL

-----------------------------------------------------------------------------
(* The life cycle of a slot.                                              *)

\* Steps at which a thread owns a slot that is neither live nor free.
OwnPhase == InsPhase \union DelPhase

WritePhase == {"up_odd", "up_copy", "up_even"}

-----------------------------------------------------------------------------
(* The inductive invariant.                                                *)

\* Inserts use the slots below max_records only.  A clear, though, puts every
\* slot of the last chunk on the freelist.
NoClear == \A t \in Threads : "clear" \notin Calls[t]

Limited(i) == NoClear => i < max_records

\* The generation of a slot, and slots of chunks that do not exist yet.
GensOK ==
    \A i \in Slots :
        /\ gen[i] >= pubgen[i]
        /\ state[i] \in {"ACTIVE", "DELETING"} => gen[i] = pubgen[i]
        /\ ~(i < SlotCount) => state[i] = "FREE" /\ gen[i] > pubgen[i]
        /\ ~Limited(i) => state[i] = "FREE"

\* Steps at which a thread counts on the state of slot idx[t].
Busy == {"up_gen", "dl_gen", "dl_mark"} \union WritePhase \union OwnPhase

\* The state of the slot a thread works on.
WorkAt(t) ==
    /\ pc[t] \in {"up_gen", "dl_gen", "dl_mark"} \union WritePhase
          => state[idx[t]] = "ACTIVE"
    /\ pc[t] \in {"dl_mark"} \union WritePhase => gen[idx[t]] = exp[t]
    /\ pc[t] \in InsPhase => /\ state[idx[t]] \in {"FREE", "DELETED"}
                             /\ gen[idx[t]] > pubgen[idx[t]]
    /\ pc[t] = "dl_dead" => state[idx[t]] = "DELETING"
    /\ pc[t] = "dl_bump" => state[idx[t]] = "DELETED"
    /\ pc[t] \in {"dl_count", "dl_push"} =>
          state[idx[t]] = "DELETED" /\ gen[idx[t]] > pubgen[idx[t]]
    /\ pc[t] \in OwnPhase => idx[t] < SlotCount /\ Limited(idx[t])

WorkOK == \A t \in Threads : WorkAt(t)

\* No two threads own the same slot.
OwnOK ==
    \A t, u \in Threads :
        t # u /\ pc[t] \in OwnPhase /\ pc[u] \in OwnPhase => idx[t] # idx[u]

\* A slot that is neither live nor owned by a thread, and one of the table's.
Vacant(i) ==
    /\ i < SlotCount /\ Limited(i) /\ state[i] # "ACTIVE"
    /\ \A t \in Threads : pc[t] \in OwnPhase => idx[t] # i

Unused(i) == Vacant(i) /\ i < max_records

\* A slot that alloc_slot may hand out: its last row is dead, and references
\* to that row are stale.
Spare(i) == Vacant(i) /\ state[i] \in {"FREE", "DELETED"} /\ gen[i] > pubgen[i]

\* F is the freelist from head to tail: free_next links its nodes in order,
\* all of them are spare, none occurs twice, and no unused slot is missing.
FreeList(F) ==
    /\ free_head = IF Len(F) = 0 THEN FM_NULL_SLOT ELSE F[1]
    /\ \A m \in 1 .. Len(F) :
        free_next[F[m]] = IF m = Len(F) THEN FM_NULL_SLOT ELSE F[m + 1]
    /\ \A m \in 1 .. Len(F) : F[m] \in Slots /\ Spare(F[m])
    /\ \A l, m \in 1 .. Len(F) : F[l] = F[m] => l = m
    /\ \A i \in Slots : Unused(i) => \E m \in 1 .. Len(F) : F[m] = i

\* The inserts and deletes between their state store and their counter
\* update, and the row count they have still to correct.
Inserted == {t \in Threads : pc[t] = "ins_count"}
Deleting == {t \in Threads : pc[t] \in {"dl_dead", "dl_bump", "dl_count"}}

Counted ==
    /\ IsFiniteSet(Inserted) /\ IsFiniteSet(Deleting)
    /\ records + Cardinality(Inserted) = Cardinality(ActiveSlots) + Cardinality(Deleting)

\* A clear has freed the slots it has passed.
Freed(i) == state[i] = "FREE" /\ gen[i] > pubgen[i]

Swept ==
    \A t \in Threads :
        /\ pc[t] = "cl_slot" => /\ idx[t] < SlotCount
                                /\ \A i \in Slots : i < idx[t] => Freed(i)
        /\ pc[t] = "cl_rebuild" => \A i \in Slots : Freed(i)

Work == GensOK /\ WorkOK /\ OwnOK

Life(F) == GensOK /\ WorkOK /\ OwnOK /\ FreeList(F) /\ Counted

Listed == \E F \in Seq(Slots) : Life(F)

\* Between its lock of struct_mutex and its rebuild of the freelist, a clear
\* leaves list and counter behind what it did to the slots.
LifeInv == IF Clearing THEN Work /\ Swept ELSE Listed

\* What every state has of it.
LEMMA LifeWork == LifeInv => Work
BY DEF LifeInv, Listed, Life, Work

-----------------------------------------------------------------------------
(* Finite sets.                                                            *)

\* What counting rests on: lemma Counts of FmRows_proofs, and an assumption of
\* the lemmas here that count.
Counting ==
    /\ IsFiniteSet({}) /\ Cardinality({}) = 0
    /\ \A S \in SUBSET Slots : IsFiniteSet(S)
    /\ \A S : IsFiniteSet(S) => Cardinality(S) \in Nat
    /\ \A S, x : IsFiniteSet(S) /\ x \notin S =>
          IsFiniteSet(S \union {x}) /\ Cardinality(S \union {x}) = Cardinality(S) + 1
    /\ \A S, x : IsFiniteSet(S) /\ x \in S =>
          IsFiniteSet(S \ {x}) /\ Cardinality(S \ {x}) = Cardinality(S) - 1

\* Adding a new element or removing an old one changes a finite set's size by
\* one.
LEMMA OneMore ==
    ASSUME Counting, NEW S, NEW x, IsFiniteSet(S), x \notin S
    PROVE  /\ IsFiniteSet(S \union {x}) /\ Cardinality(S) \in Nat
           /\ Cardinality(S \union {x}) = Cardinality(S) + 1
BY DEF Counting

LEMMA OneLess ==
    ASSUME Counting, NEW S, NEW x, IsFiniteSet(S), x \in S
    PROVE  /\ IsFiniteSet(S \ {x}) /\ Cardinality(S) \in Nat
           /\ Cardinality(S \ {x}) = Cardinality(S) - 1
BY DEF Counting

LEMMA SizeInNat == ASSUME Counting, NEW S, IsFiniteSet(S) PROVE Cardinality(S) \in Nat
BY DEF Counting

LEMMA ActiveFinite == ASSUME Counting PROVE IsFiniteSet(ActiveSlots)
<1>1. ActiveSlots \in SUBSET Slots
  BY DEF ActiveSlots
<1> QED BY <1>1 DEF Counting

-----------------------------------------------------------------------------
(* Steps that touch neither slots nor the freelist.                        *)

\* Thread t enters no step that says more about its slot than the last one.
KeepsPlace(t) ==
    pc'[t] \in Busy =>
        /\ idx'[t] = idx[t] /\ exp'[t] = exp[t]
        /\ \/ pc'[t] = pc[t]
           \/ \E P \in {WritePhase, InsPhase} : pc[t] \in P /\ pc'[t] \in P

\* Thread t keeps the slot it owns, and the counters' sets of threads do not
\* change.
KeepsOwn(t) ==
    /\ pc[t] \in OwnPhase => pc'[t] \in OwnPhase /\ idx'[t] = idx[t]
    /\ pc'[t] = "ins_count" <=> pc[t] = "ins_count"
    /\ pc'[t] \in {"dl_dead", "dl_bump", "dl_count"} <=> pc[t] \in {"dl_dead", "dl_bump", "dl_count"}

\* Thread t begins and ends no clear and does not move on in one.
KeepsClear(t) ==
    /\ pc'[t] \in {"cl_slot", "cl_rebuild"} <=> pc[t] \in {"cl_slot", "cl_rebuild"}
    /\ pc'[t] \in {"cl_slot", "cl_rebuild"} => pc'[t] = pc[t] /\ idx'[t] = idx[t]

\* A step that leaves the links alone, spoils no spare slot and leaves no new
\* one behind keeps the freelist.
LEMMA FreeListFrame ==
    ASSUME NEW F, FreeList(F), UNCHANGED <<free_next, free_head>>,
           \A i \in Slots : (Spare(i) => Spare(i)') /\ (Unused(i)' => Unused(i))
    PROVE  FreeList(F)'
BY DEF FreeList

\* A step that changes no live row, no counter and no thread between them
\* keeps the count.
LEMMA CountFrame ==
    ASSUME Counted, ActiveSlots' = ActiveSlots, records' = records,
           \A t \in Threads : /\ pc'[t] = "ins_count" <=> pc[t] = "ins_count"
                              /\ pc'[t] \in {"dl_dead", "dl_bump", "dl_count"}
                                   <=> pc[t] \in {"dl_dead", "dl_bump", "dl_count"}
    PROVE  Counted'
<1>1. Inserted' = Inserted /\ Deleting' = Deleting
  BY DEF Inserted, Deleting
<1> QED BY <1>1 DEF Counted

\* Nothing changes for thread u, or it counts on nothing.
LEMMA WorkAtSame ==
    ASSUME NEW u \in Threads, WorkAt(u), idx[u] < SlotCount => idx[u] < SlotCount',
           pc'[u] = pc[u], idx'[u] = idx[u], exp'[u] = exp[u],
           state'[idx[u]] = state[idx[u]], gen'[idx[u]] = gen[idx[u]],
           pubgen'[idx[u]] = pubgen[idx[u]]
    PROVE  WorkAt(u)'
BY DEF WorkAt

LEMMA WorkAtIdle == ASSUME NEW u \in Threads, pc'[u] \notin Busy PROVE WorkAt(u)'
BY DEF WorkAt, Busy, OwnPhase, InsPhase, DelPhase

\* No thread comes to own a slot.
LEMMA OwnSame ==
    ASSUME OwnOK,
           \A u \in Threads : pc'[u] \in OwnPhase => pc[u] \in OwnPhase /\ idx'[u] = idx[u]
    PROVE  OwnOK'
BY DEF OwnOK

\* A step that changes no slot state or generation and leaves every thread its
\* slot keeps Work ...
LEMMA WorkFrame ==
    ASSUME Work, UNCHANGED <<state, gen, pubgen, chunk_cnt>>, \A t \in Threads : KeepsPlace(t)
    PROVE  Work'
<1>1. GensOK'
  BY DEF Work, GensOK, SlotCount
<1>2. ASSUME NEW u \in Threads PROVE WorkAt(u)'
  <2>1. WorkAt(u) /\ KeepsPlace(u) /\ SlotCount' = SlotCount
    BY DEF Work, WorkOK, SlotCount
  <2>2. CASE pc'[u] \notin Busy
    BY <2>2, WorkAtIdle
  <2>3. CASE pc'[u] \in Busy /\ pc'[u] = pc[u]
    BY <2>1, <2>3, WorkAtSame DEF KeepsPlace
  <2>4. CASE pc'[u] \in Busy /\ pc[u] \in WritePhase /\ pc'[u] \in WritePhase
    BY <2>1, <2>4 DEF KeepsPlace, WorkAt, WritePhase, OwnPhase, InsPhase, DelPhase
  <2>5. CASE pc'[u] \in Busy /\ pc[u] \in InsPhase /\ pc'[u] \in InsPhase
    BY <2>1, <2>5 DEF KeepsPlace, WorkAt, WritePhase, OwnPhase, InsPhase, DelPhase
  <2> QED BY <2>1, <2>2, <2>3, <2>4, <2>5 DEF KeepsPlace
<1>3. OwnOK'
  <2>1. ASSUME NEW u \in Threads, pc'[u] \in OwnPhase PROVE pc[u] \in OwnPhase /\ idx'[u] = idx[u]
    BY <2>1 DEF KeepsPlace, Busy, OwnPhase, InsPhase, DelPhase, WritePhase
  <2> QED BY <2>1, OwnSame DEF Work
<1> QED BY <1>1, <1>2, <1>3 DEF Work, WorkOK

\* ... and, if it leaves the freelist alone, LifeInv.
LEMMA RestFrame ==
    ASSUME LifeInv, Work', UNCHANGED <<state, gen, pubgen, free_next, free_head, chunk_cnt, records>>,
           \A t \in Threads : KeepsOwn(t) /\ KeepsClear(t),
           \A t \in Threads : pc'[t] \in OwnPhase => pc[t] \in OwnPhase /\ idx'[t] = idx[t]
    PROVE  LifeInv'
<1>1. Clearing' <=> Clearing
  BY DEF Clearing, KeepsClear
<1>2. CASE Clearing
  <2>1. Swept'
    <3>1. ASSUME NEW t \in Threads, pc'[t] \in {"cl_slot", "cl_rebuild"}
          PROVE  pc'[t] = pc[t] /\ idx'[t] = idx[t]
      BY <3>1 DEF KeepsClear
    <3> QED BY <1>2, <3>1 DEF LifeInv, Swept, Freed, SlotCount
  <2> QED BY <1>1, <1>2, <2>1 DEF LifeInv
<1>3. CASE ~Clearing
  <2>1. PICK F \in Seq(Slots) : Life(F)
    BY <1>3 DEF LifeInv, Listed
  <2>2. FreeList(F)'
    <3>1. ASSUME NEW i \in Slots PROVE (Spare(i) => Spare(i)') /\ (Unused(i)' => Unused(i))
      BY DEF KeepsOwn, Spare, Unused, Vacant, SlotCount
    <3> QED BY <2>1, <3>1, FreeListFrame DEF Life
  <2>3. Counted'
    BY <2>1, CountFrame DEF KeepsOwn, Life, ActiveSlots
  <2> QED BY <1>1, <1>3, <2>1, <2>2, <2>3 DEF LifeInv, Listed, Life, Work
<1> QED BY <1>2, <1>3

LEMMA LifeFrame ==
    ASSUME LifeInv,
           UNCHANGED <<state, gen, pubgen, free_next, free_head, chunk_cnt, records>>,
           \A t \in Threads : KeepsPlace(t) /\ KeepsOwn(t) /\ KeepsClear(t)
    PROVE  LifeInv'
<1>1. Work'
  BY LifeWork, WorkFrame
<1>2. ASSUME NEW t \in Threads, pc'[t] \in OwnPhase PROVE pc[t] \in OwnPhase /\ idx'[t] = idx[t]
  BY <1>2 DEF KeepsPlace, Busy, KeepsOwn, OwnPhase, InsPhase, DelPhase, WritePhase
<1> QED BY <1>1, <1>2, RestFrame

\* What the life-cycle proofs use of the types ...
SlotFacts ==
    /\ state \in [Slots -> {"FREE", "ACTIVE", "DELETED", "DELETING"}]
    /\ gen \in [Slots -> Nat] /\ pubgen \in [Slots -> Nat \union {-1}]
    /\ free_next \in [Slots -> Slots \union {-1}] /\ -1 \notin Slots /\ records \in Int
    /\ pc \in [Threads -> Labels] /\ idx \in [Threads -> Slots \union {-1}]
    /\ exp \in [Threads -> Nat \union {-1}]
    /\ \A t \in Threads : pc[t] \in SlotPhase => idx[t] \in Slots

\* ... and of the locks.
LockFacts ==
    \A t \in Threads :
        /\ pc[t] \in {"cl_slot", "cl_rebuild"} =>
              /\ struct_mutex = t /\ "clear" \in Calls[t]
              /\ \A u \in Threads : pc[u] \notin DelPhase \union {"dl_mark"}
        /\ pc[t] \in InsPhase \union {"ins_count"} => struct_mutex = t
        /\ pc[t] \in {"up_state", "up_gen", "dl_state", "dl_gen", "dl_mark"} \union WritePhase
              => wlock[idx[t]] = t

LEMMA Facts == ASSUME ClearsApart, Types, LocksOK PROVE SlotFacts /\ LockFacts
<1>1. SlotFacts
  BY SMTT(30) DEF SlotFacts, Types, TypeOK, SlotTypes, ShareTypes, HistTypes, PcType, ArgTypes, ArgsOK,
     Slots, FM_NULL_SLOT, NoGen
<1>2. ASSUME NEW t \in Threads, pc[t] \in {"cl_slot", "cl_rebuild"}, NEW u \in Threads
      PROVE  pc[u] \notin DelPhase \union {"dl_mark"}
  <2>1. "clear" \in Calls[t] /\ t # u => ~Deletes(u)
    BY DEF ClearsApart
  <2> QED BY <1>2, <2>1 DEF LocksOK, ClearPhase, DeletePhase, DelPhase
<1>3. LockFacts
  BY SMTT(30), <1>1, <1>2 DEF SlotFacts, LockFacts, LocksOK, MutexPhase, InsPhase, Holds, HoldPhase,
     WritePhase, SlotPhase, ClearPhase
<1> QED BY <1>1, <1>3

\* A step that needs struct_mutex or a row of its own to delete does not fall
\* into a clear.
LEMMA NotClearing ==
    ASSUME LockFacts, NEW t \in Threads,
           \/ struct_mutex = NoThread
           \/ pc[t] \in InsPhase \union DelPhase \union {"ins_count", "dl_mark"}
    PROVE  ~Clearing
<1>1. ASSUME NEW u \in Threads, pc[u] \in {"cl_slot", "cl_rebuild"} PROVE FALSE
  <2>1. struct_mutex = u /\ pc[t] \notin DelPhase \union {"dl_mark"}
    BY <1>1 DEF LockFacts
  <2>2. pc[t] \in InsPhase \union {"ins_count"}
    BY <2>1, ThreadsAssumption
  <2>3. t = u
    BY <2>1, <2>2 DEF LockFacts
  <2> QED BY <1>1, <2>2, <2>3 DEF InsPhase
<1> QED BY <1>1 DEF Clearing

\* The step of a thread that does not enter a clear leaves no clear running.
LEMMA StillNotClearing ==
    ASSUME ~Clearing, pc \in [Threads -> Labels], NEW t \in Threads, NEW l,
           pc' = [pc EXCEPT ![t] = l], l \notin {"cl_slot", "cl_rebuild"}
    PROVE  ~Clearing'
BY DEF Clearing

LEMMA LifeInit == ASSUME Counting PROVE Init => LifeInv
<1>0. <<>> \in Seq(Slots)
  BY SMTT(30)
<1> SUFFICES ASSUME Init PROVE Life(<<>>)
  <2>1. Init => ~Clearing
    BY DEF Init, Clearing
  <2> QED BY <1>0, <2>1 DEF LifeInv, Listed
<1>1. SlotCount = 0
  BY SMTT(30), SizesAssumption DEF Init, SlotCount
<1>2. GensOK /\ WorkOK /\ OwnOK
  BY SMTT(30) DEF Init, GensOK, WorkOK, WorkAt, OwnOK, OwnPhase, InsPhase, DelPhase, WritePhase, NoGen
<1>3. FreeList(<<>>)
  BY SMTT(30), <1>1 DEF Init, FreeList, Unused, Vacant, Slots
<1>4. Inserted = {} /\ Deleting = {} /\ ActiveSlots = {} /\ records = 0
  BY DEF Init, Inserted, Deleting, ActiveSlots
<1>5. Counted
  BY <1>4 DEF Counted, Counting
<1> QED BY <1>2, <1>3, <1>5 DEF Life

-----------------------------------------------------------------------------
(* Steps that change slots.                                                *)

\* Thread t changes its slot, on which no other thread counts.
LEMMA WorkAlone ==
    ASSUME SlotFacts, WorkOK, NEW t \in Threads, WorkAt(t)', UNCHANGED <<idx, exp, chunk_cnt>>,
           \A u \in Threads : u # t => pc'[u] = pc[u],
           \A u \in Threads : u # t /\ pc[u] \in Busy => idx[u] # idx[t],
           \A i \in Slots : i # idx[t] =>
               state'[i] = state[i] /\ gen'[i] = gen[i] /\ pubgen'[i] = pubgen[i]
    PROVE  WorkOK'
<1>1. ASSUME NEW u \in Threads, u # t, pc[u] \in Busy PROVE WorkAt(u)'
  <2>1. idx[u] \in Slots /\ idx[u] # idx[t]
    BY <1>1 DEF SlotFacts, Busy, SlotPhase, OwnPhase, InsPhase, DelPhase, WritePhase
  <2>2. WorkAt(u) /\ SlotCount' = SlotCount
    BY DEF WorkOK, SlotCount
  <2> QED BY <1>1, <2>1, <2>2, WorkAtSame
<1>2. ASSUME NEW u \in Threads, u # t, pc[u] \notin Busy PROVE WorkAt(u)'
  BY <1>2, WorkAtIdle
<1> QED BY <1>1, <1>2 DEF WorkOK

\* insert_row publishes its slot.
LEMMA LifePublish ==
    ASSUME Counting, SlotFacts, LockFacts, NEW F, Life(F),
           NEW t \in Threads, InsertPublish(t)
    PROVE  Life(F)'
<1> USE DEF SlotFacts, OwnPhase, InsPhase, DelPhase, WritePhase
<1>1. /\ pc[t] = "ins_publish" /\ pc' = [pc EXCEPT ![t] = "ins_count"] /\ idx[t] \in Slots
      /\ state' = [state EXCEPT ![idx[t]] = "ACTIVE"]
      /\ pubgen' = [pubgen EXCEPT ![idx[t]] = gen[idx[t]]]
      /\ UNCHANGED <<gen, idx, exp, free_next, free_head, chunk_cnt, records>>
  BY DEF SlotPhase, InsertPublish, Goto, shareVars, argVars
<1>2. GensOK'
  BY SMTT(30), <1>1 DEF Life, GensOK, WorkOK, WorkAt, SlotCount
<1>3. WorkOK'
  <2>1. ASSUME NEW u \in Threads, u # t, pc[u] \in Busy PROVE idx[u] # idx[t]
    BY <1>1, <2>1 DEF Life, OwnOK, WorkOK, WorkAt, Busy
  <2>2. WorkAt(t)'
    BY <1>1 DEF WorkAt
  <2> QED BY <1>1, <2>1, <2>2, WorkAlone DEF Life
<1>4. OwnOK'
  BY <1>1 DEF Life, OwnOK
<1>5. FreeList(F)'
  <2>1. ASSUME NEW i \in Slots PROVE (Spare(i) => Spare(i)') /\ (Unused(i)' => Unused(i))
    BY <1>1 DEF Spare, Unused, Vacant, SlotCount
  <2> QED BY <1>1, <2>1, FreeListFrame DEF Life
<1>6. Counted'
  <2>1. /\ Inserted' = Inserted \union {t} /\ t \notin Inserted
        /\ Deleting' = Deleting
        /\ ActiveSlots' = ActiveSlots \union {idx[t]} /\ idx[t] \notin ActiveSlots
    BY SMTT(30), <1>1 DEF Inserted, Deleting, ActiveSlots, Life, WorkOK, WorkAt
  <2>2. /\ IsFiniteSet(Inserted') /\ Cardinality(Inserted') = Cardinality(Inserted) + 1
        /\ Cardinality(Inserted) \in Nat
    BY <2>1, OneMore DEF Life, Counted
  <2>3. /\ Cardinality(ActiveSlots') = Cardinality(ActiveSlots) + 1
        /\ Cardinality(ActiveSlots) \in Nat
    BY <2>1, OneMore, ActiveFinite
  <2>4. Cardinality(Deleting) \in Nat
    BY SizeInNat DEF Life, Counted
  <2>5. records + Cardinality(Inserted) = Cardinality(ActiveSlots) + Cardinality(Deleting)
    BY DEF Life, Counted
  <2>6. records' + Cardinality(Inserted') = Cardinality(ActiveSlots') + Cardinality(Deleting')
    <3>1. records' = records /\ records \in Int
      BY <1>1
    <3> HIDE DEF SlotFacts, OwnPhase, InsPhase, DelPhase, WritePhase
    <3>2. records + (Cardinality(Inserted) + 1)
            = (Cardinality(ActiveSlots) + 1) + Cardinality(Deleting)
      BY SMTT(30), <2>2, <2>3, <2>4, <2>5, <3>1
    <3> QED BY <2>1, <2>2, <2>3, <3>1, <3>2
  <2> QED BY <2>1, <2>2, <2>6 DEF Life, Counted
<1> QED BY <1>2, <1>3, <1>4, <1>5, <1>6 DEF Life

\* delete_row's three stores: DELETING, DELETED and the new generation.
LEMMA LifeDelete ==
    ASSUME Counting, SlotFacts, LockFacts, NEW F, Life(F), NEW t \in Threads,
           DeleteMark(t) \/ DeleteDead(t) \/ DeleteBump(t)
    PROVE  Life(F)'
<1> USE DEF SlotFacts, OwnPhase, InsPhase, DelPhase, WritePhase
<1>1. CASE DeleteMark(t)
  <2>1. /\ pc[t] = "dl_mark" /\ pc' = [pc EXCEPT ![t] = "dl_dead"] /\ idx[t] \in Slots
        /\ state' = [state EXCEPT ![idx[t]] = "DELETING"]
        /\ UNCHANGED <<gen, pubgen, idx, exp, free_next, free_head, chunk_cnt, records>>
    BY <1>1 DEF SlotPhase, DeleteMark, Goto, shareVars, argVars, histVars
  <2>2. GensOK'
    BY SMTT(30), <2>1 DEF Life, GensOK, WorkOK, WorkAt, SlotCount
  <2>7. ASSUME NEW u \in Threads, u # t, pc[u] \in Busy PROVE idx[u] # idx[t]
    BY <2>1, <2>7 DEF LockFacts, Life, WorkOK, WorkAt, Busy
  <2>3. WorkOK'
    <3>1. WorkAt(t)'
      <4>1. idx[t] < SlotCount /\ Limited(idx[t])
        BY <2>1 DEF Life, GensOK, WorkOK, WorkAt
      <4>2. /\ pc'[t] = "dl_dead" /\ state'[idx[t]] = "DELETING" /\ idx'[t] = idx[t]
            /\ SlotCount' = SlotCount
        BY <2>1 DEF SlotCount
      <4> QED BY <4>1, <4>2 DEF WorkAt
    <3> QED BY <2>1, <2>7, <3>1, WorkAlone DEF Life
  <2>4. OwnOK'
    BY <2>1, <2>7 DEF Life, OwnOK, Busy
  <2>5. FreeList(F)'
    <3>1. ASSUME NEW i \in Slots PROVE (Spare(i) => Spare(i)') /\ (Unused(i)' => Unused(i))
      BY <2>1 DEF Life, WorkOK, WorkAt, Spare, Unused, Vacant, SlotCount
    <3> QED BY <2>1, <3>1, FreeListFrame DEF Life
  <2>6. Counted'
    <3>1. /\ Inserted' = Inserted
          /\ Deleting' = Deleting \union {t} /\ t \notin Deleting
          /\ ActiveSlots' = ActiveSlots \ {idx[t]} /\ idx[t] \in ActiveSlots
      BY SMTT(30), <2>1 DEF Inserted, Deleting, ActiveSlots, Life, WorkOK, WorkAt
    <3>2. /\ IsFiniteSet(Deleting') /\ Cardinality(Deleting') = Cardinality(Deleting) + 1
          /\ Cardinality(Deleting) \in Nat
      BY <3>1, OneMore DEF Life, Counted
    <3>3. /\ Cardinality(ActiveSlots') = Cardinality(ActiveSlots) - 1
          /\ Cardinality(ActiveSlots) \in Nat
      BY <3>1, OneLess, ActiveFinite
    <3>4. Cardinality(Inserted) \in Nat
      BY SizeInNat DEF Life, Counted
    <3>5. records + Cardinality(Inserted) = Cardinality(ActiveSlots) + Cardinality(Deleting)
      BY DEF Life, Counted
    <3>6. records' + Cardinality(Inserted') = Cardinality(ActiveSlots') + Cardinality(Deleting')
      <4>1. records' = records /\ records \in Int
        BY <2>1
      <4> HIDE DEF SlotFacts, OwnPhase, InsPhase, DelPhase, WritePhase
      <4>2. records + Cardinality(Inserted)
              = (Cardinality(ActiveSlots) - 1) + (Cardinality(Deleting) + 1)
        BY SMTT(30), <3>2, <3>3, <3>4, <3>5, <4>1
      <4> QED BY <3>1, <3>2, <3>3, <4>1, <4>2
    <3> QED BY <3>1, <3>2, <3>6 DEF Life, Counted
  <2> QED BY <2>2, <2>3, <2>4, <2>5, <2>6 DEF Life
<1>2. CASE DeleteDead(t)
  <2>1. /\ pc[t] = "dl_dead" /\ pc' = [pc EXCEPT ![t] = "dl_bump"] /\ idx[t] \in Slots
        /\ state' = [state EXCEPT ![idx[t]] = "DELETED"]
        /\ UNCHANGED <<gen, pubgen, idx, exp, free_next, free_head, chunk_cnt, records>>
    BY <1>2 DEF SlotPhase, DeleteDead, Goto, shareVars, argVars, histVars
  <2>2. GensOK'
    BY SMTT(30), <2>1 DEF Life, GensOK, WorkOK, WorkAt, SlotCount
  <2>3. WorkOK'
    <3>1. ASSUME NEW u \in Threads, u # t, pc[u] \in Busy PROVE idx[u] # idx[t]
      BY <2>1, <3>1 DEF Life, OwnOK, WorkOK, WorkAt, Busy
    <3>2. WorkAt(t)'
      <4>1. idx[t] < SlotCount /\ Limited(idx[t])
        BY <2>1 DEF Life, GensOK, WorkOK, WorkAt
      <4>2. /\ pc'[t] = "dl_bump" /\ state'[idx[t]] = "DELETED" /\ idx'[t] = idx[t]
            /\ SlotCount' = SlotCount
        BY <2>1 DEF SlotCount
      <4> QED BY <4>1, <4>2 DEF WorkAt
    <3> QED BY <2>1, <3>1, <3>2, WorkAlone DEF Life
  <2>4. OwnOK'
    BY <2>1, OwnSame DEF Life
  <2>5. FreeList(F)'
    <3>1. ASSUME NEW i \in Slots PROVE (Spare(i) => Spare(i)') /\ (Unused(i)' => Unused(i))
      BY <2>1 DEF Life, WorkOK, WorkAt, Spare, Unused, Vacant, SlotCount
    <3> QED BY <2>1, <3>1, FreeListFrame DEF Life
  <2>6. Counted'
    <3>1. ActiveSlots' = ActiveSlots
      BY <2>1 DEF ActiveSlots, Life, WorkOK, WorkAt
    <3> QED BY <2>1, <3>1, CountFrame DEF Life
  <2> QED BY <2>2, <2>3, <2>4, <2>5, <2>6 DEF Life
<1>3. CASE DeleteBump(t)
  <2>1. /\ pc[t] = "dl_bump" /\ pc' = [pc EXCEPT ![t] = "dl_count"] /\ idx[t] \in Slots
        /\ gen' = [gen EXCEPT ![idx[t]] = @ + 1]
        /\ UNCHANGED <<state, pubgen, idx, exp, free_next, free_head, chunk_cnt, records>>
    BY <1>3 DEF SlotPhase, DeleteBump, Goto, shareVars, argVars, histVars
  <2>2. GensOK'
    BY SMTT(30), <2>1 DEF Life, GensOK, WorkOK, WorkAt, SlotCount
  <2>3. WorkOK'
    <3>1. ASSUME NEW u \in Threads, u # t, pc[u] \in Busy PROVE idx[u] # idx[t]
      BY <2>1, <3>1 DEF Life, OwnOK, WorkOK, WorkAt, Busy
    <3>2. WorkAt(t)'
      <4>1. idx[t] < SlotCount /\ Limited(idx[t])
        BY <2>1 DEF Life, GensOK, WorkOK, WorkAt
      <4>2. /\ pc'[t] = "dl_count" /\ state'[idx[t]] = "DELETED" /\ idx'[t] = idx[t]
            /\ SlotCount' = SlotCount
        BY <2>1 DEF SlotCount, Life, WorkOK, WorkAt
      <4>3. gen'[idx[t]] > pubgen'[idx[t]]
        <5>1. gen[idx[t]] >= pubgen[idx[t]]
          BY <2>1 DEF Life, GensOK
        <5>2. gen'[idx[t]] = gen[idx[t]] + 1 /\ pubgen'[idx[t]] = pubgen[idx[t]]
          BY <2>1
        <5> QED BY SMTT(30), <2>1, <5>1, <5>2
      <4> QED BY <4>1, <4>2, <4>3 DEF WorkAt
    <3> QED BY <2>1, <3>1, <3>2, WorkAlone DEF Life
  <2>4. OwnOK'
    BY <2>1, OwnSame DEF Life
  <2>5. FreeList(F)'
    <3>1. ASSUME NEW i \in Slots PROVE (Spare(i) => Spare(i)') /\ (Unused(i)' => Unused(i))
      BY <2>1 DEF Spare, Unused, Vacant, SlotCount
    <3> QED BY <2>1, <3>1, FreeListFrame DEF Life
  <2>6. Counted'
    BY <2>1, CountFrame DEF Life, ActiveSlots
  <2> QED BY <2>2, <2>3, <2>4, <2>5, <2>6 DEF Life
<1> QED BY <1>1, <1>2, <1>3

\* alloc_slot pops the head of the freelist ...
LEMMA LifePop ==
    ASSUME SlotFacts, LockFacts, NEW F \in Seq(Slots), Life(F), NEW t \in Threads,
           InsertAlloc(t), AllocPop(t)
    PROVE  Listed'
<1> USE DEF SlotFacts, OwnPhase, InsPhase, DelPhase, WritePhase
<1>0. Len(F) > 0 /\ free_head = F[1] /\ 1 \in 1 .. Len(F) /\ F[1] \in Slots /\ Spare(F[1])
  <2>1. Len(F) # 0
    BY DEF AllocPop, Life, FreeList
  <2>2. Len(F) > 0 /\ 1 \in 1 .. Len(F) /\ F[1] \in Slots
    BY SMTT(30), <2>1
  <2> QED BY <2>1, <2>2 DEF Life, FreeList
<1>1. /\ struct_mutex = NoThread /\ pc[t] = "ins_alloc"
      /\ pc' = [pc EXCEPT ![t] = "ins_copy"] /\ idx' = [idx EXCEPT ![t] = F[1]]
      /\ free_head' = free_next[F[1]]
      /\ UNCHANGED <<state, gen, pubgen, exp, free_next, chunk_cnt, records>>
  BY <1>0 DEF InsertAlloc, AllocPop, TakeSlot, Goto, slotVars
<1>2. GensOK'
  BY <1>1 DEF Life, GensOK, SlotCount
<1>3. WorkOK'
  BY SMTT(30), <1>0, <1>1 DEF Life, Spare, Unused, Vacant, WorkOK, WorkAt, SlotCount
<1>4. OwnOK'
  BY <1>0, <1>1 DEF Life, Spare, Unused, Vacant, OwnOK
<1>5. PICK G \in Seq(Slots) : Len(G) = Len(F) - 1 /\ \A m \in 1 .. Len(G) : G[m] = F[m + 1]
  <2> HIDE DEF SlotFacts
  <2> QED BY <1>0, SeqTail
<1>6. ASSUME NEW m \in 1 .. Len(G)
      PROVE  m + 1 \in 1 .. Len(F) /\ G[m] = F[m + 1] /\ G[m] # F[1] /\ G[m] \in Slots
  <2>0. Len(G) = Len(F) - 1 /\ Len(F) \in Nat
    BY SMTT(30), <1>5
  <2>1. m + 1 \in 1 .. Len(F) /\ m + 1 # 1
    BY SMTT(30), <2>0
  <2>2. G[m] = F[m + 1] /\ F[m + 1] # F[1]
    BY <1>0, <1>5, <2>1 DEF Life, FreeList
  <2> QED BY SMTT(30), <2>1, <2>2
<1>7. FreeList(G)'
  <2>1. free_head' = IF Len(G) = 0 THEN FM_NULL_SLOT ELSE G[1]
    <3>1. CASE Len(F) = 1
      BY SMTT(30), <1>0, <1>1, <1>5, <3>1 DEF Life, FreeList
    <3>2. CASE Len(F) # 1
      <4>1. 1 \in 1 .. Len(G) /\ Len(G) # 0 /\ 1 + 1 = 2
        BY SMTT(30), <1>0, <1>5, <3>2
      <4>2. free_next[F[1]] = F[1 + 1]
        BY <1>0, <3>2 DEF Life, FreeList
      <4> QED BY <1>1, <1>5, <4>1, <4>2
    <3> QED BY <3>1, <3>2
  <2>2. ASSUME NEW m \in 1 .. Len(G)
        PROVE  free_next'[G[m]] = IF m = Len(G) THEN FM_NULL_SLOT ELSE G[m + 1]
    <3>1. free_next[F[m + 1]] = IF m + 1 = Len(F) THEN FM_NULL_SLOT ELSE F[m + 1 + 1]
      BY <1>6 DEF Life, FreeList
    <3>4. m # Len(G) => m + 1 \in 1 .. Len(G)
      BY SMTT(30)
    <3>2. m # Len(G) => G[m + 1] = F[m + 1 + 1]
      BY <1>5, <3>4
    <3>3. m + 1 = Len(F) <=> m = Len(G)
      BY SMTT(30), <1>5
    <3> QED BY <1>1, <1>6, <3>1, <3>2, <3>3
  <2>3. ASSUME NEW m \in 1 .. Len(G) PROVE G[m] \in Slots /\ Spare(G[m])'
    <3>0. Spare(F[m + 1])
      BY <1>6 DEF Life, FreeList
    <3>1. Spare(G[m]) /\ G[m] # F[1] /\ G[m] \in Slots
      BY <1>6, <3>0
    <3> QED BY <1>1, <3>1 DEF Spare, Unused, Vacant, SlotCount
  <2>4. ASSUME NEW l \in 1 .. Len(G), NEW m \in 1 .. Len(G), G[l] = G[m] PROVE l = m
    <3>0. l + 1 \in 1 .. Len(F) /\ m + 1 \in 1 .. Len(F) /\ F[l + 1] = F[m + 1]
      BY <1>6, <2>4
    <3>1. l + 1 = m + 1
      BY <3>0 DEF Life, FreeList
    <3> QED BY SMTT(30), <3>1
  <2>5. ASSUME NEW i \in Slots, Unused(i)' PROVE \E m \in 1 .. Len(G) : G[m] = i
    <3>1. i # F[1] /\ Unused(i)
      BY <1>1, <2>5 DEF Unused, Vacant, SlotCount
    <3>2. PICK m \in 1 .. Len(F) : F[m] = i
      BY <3>1 DEF Life, FreeList
    <3>3. m - 1 \in 1 .. Len(G) /\ m - 1 + 1 = m
      BY SMTT(30), <1>5, <3>1, <3>2
    <3> QED BY <1>5, <3>2, <3>3
  <2> QED BY <1>1, <2>1, <2>2, <2>3, <2>4, <2>5 DEF FreeList
<1>8. Counted'
  BY <1>1, CountFrame DEF Life, ActiveSlots
<1> QED BY <1>2, <1>3, <1>4, <1>7, <1>8 DEF Life, Listed

\* ... or takes the first slot of a new chunk and threads the others.
LEMMA LifeGrow ==
    ASSUME SlotFacts, LockFacts, chunk_cnt \in 0 .. chunk_cap, NEW F \in Seq(Slots), Life(F),
           NEW t \in Threads, InsertAlloc(t), AllocGrow(t)
    PROVE  Listed'
<1> USE DEF SlotFacts, OwnPhase, InsPhase, DelPhase, WritePhase
<1> DEFINE total == SlotCount
           end == IF total + FM_CHUNK_SIZE > max_records THEN max_records
                  ELSE total + FM_CHUNK_SIZE
<1>1. /\ pc' = [pc EXCEPT ![t] = "ins_copy"] /\ idx' = [idx EXCEPT ![t] = total]
      /\ pc[t] = "ins_alloc" /\ free_head = FM_NULL_SLOT
      /\ chunk_cnt' = chunk_cnt + 1 /\ chunk_cnt < chunk_cap /\ total < max_records
      /\ free_next' = [i \in Slots |->
              IF i \in total + 1 .. end - 2 THEN i + 1
              ELSE IF i = end - 1 /\ i > total THEN FM_NULL_SLOT ELSE free_next[i]]
      /\ free_head' = IF total + 1 < end THEN total + 1 ELSE FM_NULL_SLOT
      /\ UNCHANGED <<state, gen, pubgen, exp, records>>
  BY DEF InsertAlloc, AllocGrow, ChunkEnd, GrowTo, TakeSlot, Goto, slotVars
<1>2. /\ total \in Nat /\ total \in Slots /\ total + FM_CHUNK_SIZE <= chunk_cap * FM_CHUNK_SIZE
      /\ FM_CHUNK_SIZE \in Nat \ {0} /\ max_records \in Nat \ {0}
      /\ chunk_cap * FM_CHUNK_SIZE \in Nat
  BY SMTT(30), <1>1, CountOK, CapOK, SizesAssumption DEF Slots
<1>3. SlotCount' = total + FM_CHUNK_SIZE
  <2>1. (chunk_cnt + 1) * FM_CHUNK_SIZE = chunk_cnt * FM_CHUNK_SIZE + FM_CHUNK_SIZE
    BY SMTT(30), CapOK, SizesAssumption
  <2> QED BY <1>1, <2>1 DEF SlotCount
<1> HIDE DEF total
<1>4. /\ total + 1 .. end - 1 \subseteq Slots /\ end \in Nat /\ end <= total + FM_CHUNK_SIZE
      /\ total < end /\ end <= max_records
      /\ \A i \in Slots : i < total + FM_CHUNK_SIZE /\ i < max_records => i < end
  BY SMTT(30), <1>1, <1>2 DEF Slots
<1>5. \A i \in Slots : ~(i < total) => state[i] = "FREE" /\ gen[i] > pubgen[i]
  BY DEF Life, GensOK, total
<1>6. GensOK'
  BY SMTT(30), <1>1, <1>2, <1>3, <1>5 DEF Life, GensOK, total, Slots
<1>7. \A u \in Threads : pc[u] \in OwnPhase => idx[u] < total /\ Limited(idx[u])
  BY DEF Life, WorkOK, WorkAt, total
<1>15. ~(total < total)
  BY SMTT(30), <1>2
<1>14. Limited(total)
  BY <1>1 DEF Limited
<1>8. WorkOK'
  <2>1. total < SlotCount' /\ \A i \in Slots : i < SlotCount => i < SlotCount'
    BY SMTT(30), <1>2, <1>3 DEF Slots, total
  <2>2. ASSUME NEW u \in Threads, u # t, pc[u] \in Busy PROVE WorkAt(u)'
    <3>1. idx[u] \in Slots /\ WorkAt(u) /\ pc'[u] = pc[u] /\ idx'[u] = idx[u]
      BY <1>1, <2>2 DEF Life, WorkOK, SlotPhase, Busy
    <3> QED BY <1>1, <2>1, <3>1, WorkAtSame
  <2>3. ASSUME NEW u \in Threads, u # t, pc[u] \notin Busy PROVE WorkAt(u)'
    BY <1>1, <2>3, WorkAtIdle
  <2>4. WorkAt(t)'
    <3>1. pc'[t] = "ins_copy" /\ idx'[t] = total /\ state'[total] = "FREE"
          /\ gen'[total] > pubgen'[total]
      BY <1>1, <1>2, <1>15, <1>5
    <3> QED BY <1>14, <2>1, <3>1 DEF WorkAt
  <2> QED BY <2>2, <2>3, <2>4 DEF WorkOK
<1>9. OwnOK'
  BY SMTT(30), <1>1, <1>2, <1>7 DEF Life, OwnOK
<1> HIDE DEF end
<1>10. PICK G \in Seq(Slots) : Len(G) = end - 1 - total /\ \A m \in 1 .. Len(G) : G[m] = total + m
  <2>1. end - 1 - total \in Nat /\ \A m \in 1 .. end - 1 - total : total + m \in Slots
    BY SMTT(30), <1>2, <1>4
  <2> HIDE DEF SlotFacts
  <2>2. PICK G \in Seq(Slots) : Len(G) = end - 1 - total /\ \A m \in 1 .. end - 1 - total : G[m] = total + m
    <3>1. PICK n \in Nat : n = end - 1 - total
      BY <2>1
    <3> QED BY <1>2, <2>1, <3>1, SeqRun
  <2> QED BY <2>2
<1>11. ASSUME NEW m \in 1 .. Len(G)
       PROVE  /\ G[m] = total + m /\ m \in Nat /\ G[m] \in Slots /\ G[m] > total
              /\ G[m] < end /\ (m = Len(G) <=> G[m] = end - 1)
  <2>1. G[m] = total + m
    BY <1>10
  <2>2. G[m] \in Slots /\ m \in Nat
    BY SMTT(30)
  <2>3. Len(G) = end - 1 - total
    BY <1>10
  <2> QED BY SMTT(30), <1>2, <1>4, <2>1, <2>2, <2>3
<1>12. FreeList(G)'
  <2>1. free_head' = IF Len(G) = 0 THEN FM_NULL_SLOT ELSE G[1]
    BY SMTT(30), <1>1, <1>2, <1>4, <1>10
  <2>2. ASSUME NEW m \in 1 .. Len(G)
        PROVE  free_next'[G[m]] = IF m = Len(G) THEN FM_NULL_SLOT ELSE G[m + 1]
    <3>1. m # Len(G) => m + 1 \in 1 .. Len(G) /\ G[m + 1] = total + (m + 1)
      BY SMTT(30), <1>10
    <3>2. PICK i \in Slots : i = G[m] /\ i = total + m /\ i > total /\ i < end /\ (m = Len(G) <=> i = end - 1)
      BY <1>11
    <3>3. i \in Nat
      BY SMTT(30), <3>2 DEF Slots
    <3>4. free_next'[i] = IF i = end - 1 THEN FM_NULL_SLOT ELSE i + 1
      BY SMTT(30), <1>1, <1>2, <1>4, <3>2, <3>3
    <3>5. i + 1 = total + (m + 1)
      BY SMTT(30), <1>2, <3>2
    <3> QED BY <3>1, <3>2, <3>4, <3>5
  <2>3. ASSUME NEW m \in 1 .. Len(G) PROVE G[m] \in Slots /\ Spare(G[m])'
    <3>0. PICK i \in Slots : i = G[m] /\ i > total /\ i < end
      BY <1>11
    <3>1. i \in Nat
      BY SMTT(30), <3>0 DEF Slots
    <3>2. state'[i] = "FREE" /\ gen'[i] > pubgen'[i]
      BY SMTT(30), <1>1, <1>2, <1>5, <3>0, <3>1
    <3>3. i < SlotCount' /\ i < max_records /\ Limited(i)
      <4>1. /\ end \in Nat /\ end <= total + FM_CHUNK_SIZE /\ end <= max_records
            /\ SlotCount' = total + FM_CHUNK_SIZE /\ i < end
        BY <1>3, <1>4, <3>0
      <4> HIDE DEF SlotFacts
      <4>2. i < SlotCount' /\ i < max_records
        BY SMTT(30), <1>2, <3>1, <4>1
      <4> QED BY <4>2 DEF Limited
    <3>4. ASSUME NEW u \in Threads, pc'[u] \in OwnPhase PROVE idx'[u] # i
      <4>1. idx'[u] = total \/ idx'[u] < total
        BY <1>1, <1>7, <3>4
      <4>2. i # total /\ ~(i < total)
        BY SMTT(30), <1>2, <3>0, <3>1
      <4> QED BY <4>1, <4>2
    <3> QED BY <1>1, <1>5, <3>0, <3>2, <3>3, <3>4 DEF Spare, Unused, Vacant
  <2>4. ASSUME NEW l \in 1 .. Len(G), NEW m \in 1 .. Len(G), G[l] = G[m] PROVE l = m
    BY SMTT(30), <1>2, <1>11, <2>4
  <2>5. ASSUME NEW i \in Slots, Unused(i)' PROVE \E m \in 1 .. Len(G) : G[m] = i
    <3>1. /\ i # total /\ i < SlotCount' /\ i < max_records
          /\ i < total => Unused(i)
      BY <1>1, <2>5 DEF Unused, Vacant, total
    <3>2. ~(i < total)
      <4>1. free_head = IF Len(F) = 0 THEN FM_NULL_SLOT ELSE F[1]
        BY DEF Life, FreeList
      <4>2. ASSUME Len(F) # 0 PROVE F[1] \in Slots
        BY SMTT(30), <4>2
      <4>3. Len(F) = 0
        BY <1>1, <4>1, <4>2 DEF FM_NULL_SLOT
      <4>4. ~ \E m \in 1 .. Len(F) : F[m] = i
        BY SMTT(30), <4>3
      <4> QED BY <3>1, <4>4 DEF Life, FreeList
    <3>3. i < end /\ i \in Nat /\ i > total
      BY SMTT(30), <1>2, <1>3, <1>4, <3>1, <3>2 DEF Slots
    <3>4. i - total \in 1 .. Len(G) /\ total + (i - total) = i
      BY SMTT(30), <1>2, <1>4, <1>10, <3>3
    <3> QED BY <1>10, <3>4
  <2> QED BY <2>1, <2>2, <2>3, <2>4, <2>5 DEF FreeList
<1>13. Counted'
  BY <1>1, CountFrame DEF Life, ActiveSlots
<1> QED BY <1>6, <1>8, <1>9, <1>12, <1>13 DEF Life, Listed

\* free_slot pushes the slot a delete owned.
LEMMA LifePush ==
    ASSUME SlotFacts, NEW F \in Seq(Slots), Life(F), NEW t \in Threads, DeletePush(t)
    PROVE  Listed'
<1> USE DEF SlotFacts, OwnPhase, InsPhase, DelPhase, WritePhase, SlotPhase
<1>1. /\ idx[t] \in Slots /\ pc[t] = "dl_push"
      /\ pc' = [pc EXCEPT ![t] = IF locked[t] THEN "lk_unlock" ELSE "done"]
      /\ free_next' = [free_next EXCEPT ![idx[t]] = free_head] /\ free_head' = idx[t]
      /\ UNCHANGED <<state, gen, pubgen, idx, exp, chunk_cnt, records>>
  BY DEF DeletePush, Push, Goto, slotVars, argVars, histVars
<1>2. GensOK'
  BY <1>1 DEF Life, GensOK, SlotCount
<1>3. WorkOK'
  BY <1>1 DEF Life, WorkOK, WorkAt, SlotCount
<1>4. OwnOK'
  BY <1>1 DEF Life, OwnOK
<1>0. PICK i0 \in Slots : i0 = idx[t]
  BY <1>1
<1>5. PICK G \in Seq(Slots) : /\ Len(G) = Len(F) + 1 /\ G[1] = i0
                              /\ \A m \in 1 .. Len(F) : G[m + 1] = F[m]
  <2> HIDE DEF SlotFacts
  <2> QED BY <1>0, SeqCons
<1>6. ASSUME NEW m \in 1 .. Len(G), m # 1
      PROVE  /\ m - 1 \in 1 .. Len(F) /\ G[m] = F[m - 1] /\ G[m] # i0 /\ G[m] \in Slots
             /\ Spare(G[m])
  <2>1. m - 1 \in 1 .. Len(F) /\ m - 1 + 1 = m
    BY SMTT(30), <1>5, <1>6
  <2>2. G[m] = F[m - 1] /\ Spare(F[m - 1])
    BY <1>5, <2>1 DEF Life, FreeList
  <2>3. F[m - 1] \in Slots
    BY SMTT(30), <2>1
  <2>4. F[m - 1] # i0
    BY <1>0, <1>1, <2>2 DEF Spare, Unused, Vacant
  <2> QED BY <2>1, <2>2, <2>3, <2>4
<1>7. FreeList(G)'
  <2>1. free_head' = IF Len(G) = 0 THEN FM_NULL_SLOT ELSE G[1]
    BY SMTT(30), <1>0, <1>1, <1>5
  <2>2. ASSUME NEW m \in 1 .. Len(G)
        PROVE  free_next'[G[m]] = IF m = Len(G) THEN FM_NULL_SLOT ELSE G[m + 1]
    <3>1. CASE m = 1
      <4>1. free_next'[i0] = free_head
        BY <1>0, <1>1
      <4>2. CASE Len(F) = 0
        BY SMTT(30), <1>5, <3>1, <4>1, <4>2 DEF Life, FreeList
      <4>3. CASE Len(F) # 0
        <5>1. 1 \in 1 .. Len(F) /\ m # Len(G)
          BY SMTT(30), <1>5, <3>1, <4>3
        <5> QED BY <1>5, <3>1, <4>1, <4>3, <5>1 DEF Life, FreeList
      <4> QED BY <4>2, <4>3
    <3>2. CASE m # 1
      <4>1. free_next'[G[m]] = free_next[F[m - 1]] /\ m - 1 \in 1 .. Len(F)
        BY <1>0, <1>1, <1>6, <3>2
      <4>2. free_next[F[m - 1]] = IF m - 1 = Len(F) THEN FM_NULL_SLOT ELSE F[m - 1 + 1]
        BY <4>1 DEF Life, FreeList
      <4>3. (m - 1 = Len(F) <=> m = Len(G)) /\ m - 1 + 1 = m
        BY SMTT(30), <1>5
      <4>4. m # Len(G) => m \in 1 .. Len(F)
        BY SMTT(30), <1>5
      <4> QED BY <1>5, <4>1, <4>2, <4>3, <4>4
    <3> QED BY <3>1, <3>2
  <2>3. ASSUME NEW m \in 1 .. Len(G) PROVE G[m] \in Slots /\ Spare(G[m])'
    <3>1. CASE m = 1
      <4>1. \A u \in Threads : pc'[u] \in OwnPhase => idx'[u] # i0
        BY <1>0, <1>1 DEF Life, OwnOK
      <4>2. /\ state[i0] = "DELETED" /\ gen[i0] > pubgen[i0] /\ i0 < SlotCount /\ Limited(i0)
        BY <1>0, <1>1 DEF Life, WorkOK, WorkAt
      <4> QED BY <1>1, <1>5, <3>1, <4>1, <4>2 DEF Spare, Unused, Vacant, SlotCount
    <3>2. CASE m # 1
      BY <1>1, <1>6, <3>2 DEF Spare, Unused, Vacant, SlotCount
    <3> QED BY <3>1, <3>2
  <2>4. ASSUME NEW l \in 1 .. Len(G), NEW m \in 1 .. Len(G), G[l] = G[m] PROVE l = m
    <3>1. CASE l = 1 \/ m = 1
      BY <1>5, <1>6, <2>4, <3>1
    <3>2. CASE l # 1 /\ m # 1
      <4>1. l - 1 \in 1 .. Len(F) /\ m - 1 \in 1 .. Len(F) /\ F[l - 1] = F[m - 1]
        BY <1>6, <2>4, <3>2
      <4>2. l - 1 = m - 1
        BY <4>1 DEF Life, FreeList
      <4> QED BY SMTT(30), <4>2
    <3> QED BY <3>1, <3>2
  <2>5. ASSUME NEW i \in Slots, Unused(i)' PROVE \E m \in 1 .. Len(G) : G[m] = i
    <3>1. CASE i = i0
      <4>1. 1 \in 1 .. Len(G)
        BY SMTT(30), <1>5
      <4> QED BY <1>5, <3>1, <4>1
    <3>2. CASE i # i0
      <4>1. Unused(i)
        BY <1>0, <1>1, <2>5, <3>2 DEF Unused, Vacant, SlotCount
      <4>2. PICK m \in 1 .. Len(F) : F[m] = i
        BY <4>1 DEF Life, FreeList
      <4>3. m + 1 \in 1 .. Len(G)
        BY SMTT(30), <1>5
      <4> QED BY <1>5, <4>2, <4>3
    <3> QED BY <3>1, <3>2
  <2> QED BY <1>1, <2>1, <2>2, <2>3, <2>4, <2>5 DEF FreeList
<1>8. Counted'
  BY <1>1, CountFrame DEF Life, ActiveSlots
<1> QED BY <1>2, <1>3, <1>4, <1>7, <1>8 DEF Life, Listed

\* The two counter updates: insert_row counts its row, delete_row discounts it.
LEMMA LifeCount ==
    ASSUME Counting, SlotFacts, NEW F, Life(F), NEW t \in Threads,
           InsertCount(t) \/ DeleteCount(t)
    PROVE  Life(F)'
<1> USE DEF SlotFacts, OwnPhase, InsPhase, DelPhase, WritePhase, Goto
<1>1. /\ UNCHANGED <<state, gen, pubgen, idx, exp, free_next, free_head, chunk_cnt>>
      /\ \/ /\ pc[t] = "ins_count" /\ pc' = [pc EXCEPT ![t] = "done"] /\ records' = records + 1
         \/ /\ pc[t] = "dl_count" /\ pc' = [pc EXCEPT ![t] = "dl_push"] /\ records' = records - 1
  BY DEF InsertCount, DeleteCount, Return, slotVars, shareVars, argVars, histVars
<1>2. GensOK'
  BY <1>1 DEF Life, GensOK, SlotCount
<1>6. OwnOK'
  BY <1>1, OwnSame DEF Life
<1>5. WorkOK'
  <2>1. SlotCount' = SlotCount /\ WorkOK
    BY <1>1 DEF Life, SlotCount
  <2>2. ASSUME NEW u \in Threads, u # t PROVE WorkAt(u)'
    BY <1>1, <2>1, <2>2, WorkAtSame DEF WorkOK
  <2>3. WorkAt(t)'
    BY <1>1, <2>1 DEF WorkOK, WorkAt
  <2> QED BY <2>2, <2>3 DEF WorkOK
<1>3. FreeList(F)'
  <2>1. ASSUME NEW i \in Slots PROVE (Spare(i) => Spare(i)') /\ (Unused(i)' => Unused(i))
    BY <1>1 DEF Spare, Unused, Vacant, SlotCount
  <2> QED BY <1>1, <2>1, FreeListFrame DEF Life
<1>4. Counted'
  <2>1. CASE pc[t] = "ins_count"
    <3>1. /\ Inserted' = Inserted \ {t} /\ t \in Inserted /\ Deleting' = Deleting
          /\ ActiveSlots' = ActiveSlots /\ records' = records + 1
      BY <1>1, <2>1 DEF Inserted, Deleting, ActiveSlots
    <3>2. /\ IsFiniteSet(Inserted') /\ Cardinality(Inserted') = Cardinality(Inserted) - 1
          /\ Cardinality(Inserted) \in Nat
      BY <3>1, OneLess DEF Life, Counted
    <3>3. Cardinality(Deleting) \in Nat /\ Cardinality(ActiveSlots) \in Nat
      BY SizeInNat, ActiveFinite DEF Life, Counted
    <3>5. records + Cardinality(Inserted) = Cardinality(ActiveSlots) + Cardinality(Deleting)
      BY DEF Life, Counted
    <3>6. records' + Cardinality(Inserted') = Cardinality(ActiveSlots') + Cardinality(Deleting')
      BY SMTT(30), <3>1, <3>2, <3>3, <3>5
    <3> QED BY <3>1, <3>2, <3>6 DEF Life, Counted
  <2>2. CASE pc[t] = "dl_count"
    <3>1. /\ Deleting' = Deleting \ {t} /\ t \in Deleting /\ Inserted' = Inserted
          /\ ActiveSlots' = ActiveSlots /\ records' = records - 1
      BY <1>1, <2>2 DEF Inserted, Deleting, ActiveSlots
    <3>2. /\ IsFiniteSet(Deleting') /\ Cardinality(Deleting') = Cardinality(Deleting) - 1
          /\ Cardinality(Deleting) \in Nat
      BY <3>1, OneLess DEF Life, Counted
    <3>3. Cardinality(Inserted) \in Nat /\ Cardinality(ActiveSlots) \in Nat
      BY SizeInNat, ActiveFinite DEF Life, Counted
    <3>5. records + Cardinality(Inserted) = Cardinality(ActiveSlots) + Cardinality(Deleting)
      BY DEF Life, Counted
    <3>6. records' + Cardinality(Inserted') = Cardinality(ActiveSlots') + Cardinality(Deleting')
      BY SMTT(30), <3>1, <3>2, <3>3, <3>5
    <3> QED BY <3>1, <3>2, <3>6 DEF Life, Counted
  <2> QED BY <1>1, <2>1, <2>2
<1> QED BY <1>2, <1>3, <1>4, <1>5, <1>6 DEF Life

\* A writer that verified its row enters the next step.
LEMMA LifeVerify ==
    ASSUME SlotFacts, LifeInv, NEW t \in Threads,
           NEW l \in {"up_gen", "dl_gen", "up_odd", "dl_mark"}, Goto(t, l),
           pc[t] \in {"up_state", "dl_state", "up_gen", "dl_gen"},
           state[idx[t]] = "ACTIVE", l \in {"up_odd", "dl_mark"} => gen[idx[t]] = exp[t],
           UNCHANGED <<state, gen, pubgen, idx, exp, free_next, free_head, chunk_cnt, records>>
    PROVE  LifeInv'
<1> USE DEF SlotFacts, OwnPhase, InsPhase, DelPhase, WritePhase, Goto
<1>0. Work
  BY LifeWork
<1>1. GensOK'
  BY <1>0 DEF Work, GensOK, SlotCount
<1>2. WorkOK'
  BY <1>0 DEF Work, WorkOK, WorkAt, SlotCount
<1>3. OwnOK'
  BY <1>0 DEF Work, OwnOK
<1>4. ASSUME NEW u \in Threads
      PROVE  /\ KeepsOwn(u) /\ KeepsClear(u)
             /\ pc'[u] \in OwnPhase => pc[u] \in OwnPhase /\ idx'[u] = idx[u]
  BY DEF KeepsOwn, KeepsClear
<1> QED BY <1>1, <1>2, <1>3, <1>4, RestFrame DEF Work

-----------------------------------------------------------------------------
(* Clear.                                                                  *)

\* fm_core_clear takes struct_mutex ...
LEMMA ClearBegins ==
    ASSUME SlotFacts, LockFacts, chunk_cnt \in 0 .. chunk_cap, LifeInv,
           NEW t \in Threads, ClearLock(t)
    PROVE  LifeInv'
<1> USE DEF SlotFacts, OwnPhase, InsPhase, DelPhase, WritePhase
<1>1. /\ struct_mutex = NoThread /\ idx' = [idx EXCEPT ![t] = 0] /\ pc[t] = "cl_lock"
      /\ pc' = [pc EXCEPT ![t] = IF SlotCount = 0 THEN "cl_rebuild" ELSE "cl_slot"]
      /\ UNCHANGED <<state, gen, pubgen, exp, chunk_cnt>>
  BY DEF ClearLock, Goto, slotVars, histVars
<1>2. Work /\ ~Clearing
  BY <1>1, LifeWork, NotClearing
<1>3. Clearing'
  BY <1>1 DEF Clearing
<1>4. GensOK'
  BY <1>1, <1>2 DEF Work, GensOK, SlotCount
<1>5. WorkOK'
  BY <1>1, <1>2 DEF Work, WorkOK, WorkAt, SlotCount
<1>6. OwnOK'
  BY <1>1, <1>2 DEF Work, OwnOK
<1>7. Swept'
  <2>1. SlotCount \in Nat /\ \A i \in Slots : i \in Nat
    BY SMTT(30), CountOK, CapOK DEF Slots
  <2>2. \A u \in Threads \ {t} : pc'[u] \notin {"cl_slot", "cl_rebuild"}
    BY <1>1, <1>2 DEF Clearing
  <2>3. CASE SlotCount = 0
    <3>1. \A i \in Slots : ~(i < SlotCount)
      BY SMTT(30), <2>1, <2>3
    <3>2. \A i \in Slots : Freed(i)'
      BY <1>1, <1>2, <3>1 DEF Work, GensOK, Freed
    <3> QED BY <1>1, <2>2, <2>3, <3>2 DEF Swept
  <2>4. CASE SlotCount # 0
    <3>1. 0 < SlotCount /\ \A i \in Slots : ~(i < 0)
      BY SMTT(30), <2>1, <2>4
    <3>2. pc'[t] = "cl_slot" /\ idx'[t] = 0 /\ SlotCount' = SlotCount
      BY <1>1, <2>4 DEF SlotCount
    <3> QED BY <2>2, <3>1, <3>2 DEF Swept
  <2> QED BY <2>3, <2>4
<1> QED BY <1>3, <1>4, <1>5, <1>6, <1>7 DEF LifeInv, Work

\* ... frees one slot after the other, each under its wlock ...
LEMMA ClearFrees ==
    ASSUME SlotFacts, LockFacts, chunk_cnt \in 0 .. chunk_cap, LifeInv,
           NEW t \in Threads, ClearSlot(t)
    PROVE  LifeInv'
<1> USE DEF SlotFacts, OwnPhase, InsPhase, DelPhase, WritePhase
<1>1. /\ pc[t] = "cl_slot" /\ wlock[idx[t]] = NoThread /\ idx[t] \in Slots
      /\ state' = [state EXCEPT ![idx[t]] = "FREE"]
      /\ gen' = [gen EXCEPT ![idx[t]] = gen[idx[t]] + 1]
      /\ UNCHANGED <<pubgen, exp, chunk_cnt>>
      /\ \/ /\ idx[t] + 1 < SlotCount /\ idx' = [idx EXCEPT ![t] = idx[t] + 1] /\ pc' = pc
         \/ /\ ~(idx[t] + 1 < SlotCount) /\ idx' = idx /\ pc' = [pc EXCEPT ![t] = "cl_rebuild"]
  BY DEF ClearSlot, FreeSlotStores, Goto, shareVars, histVars, SlotPhase
<1>0. PICK i0 \in Slots : i0 = idx[t]
  BY <1>1
<1>2. Clearing
  BY <1>1 DEF Clearing
<1>3. Work /\ Swept
  BY <1>2 DEF LifeInv
<1>4. \A u \in Threads \ {t} : pc'[u] = pc[u] /\ idx'[u] = idx[u]
  BY <1>1
<1>5. pc'[t] \in {"cl_slot", "cl_rebuild"}
  BY <1>1
<1>6. ASSUME NEW u \in Threads,
             pc'[u] \in {"up_gen", "dl_gen", "dl_mark"} \union WritePhase \union OwnPhase
      PROVE  u # t /\ idx[u] # i0
  <2>1. u # t /\ pc[u] = pc'[u]
    BY <1>4, <1>5, <1>6
  <2>2. pc[u] \notin OwnPhase
    BY <1>1, <2>1 DEF LockFacts
  <2>3. wlock[idx[u]] = u
    BY <1>6, <2>1, <2>2 DEF LockFacts
  <2> QED BY <1>0, <1>1, <2>1, <2>3, ThreadsAssumption
<1>7. Freed(i0)' /\ \A i \in Slots \ {i0} : state'[i] = state[i] /\ gen'[i] = gen[i]
  <2>1. gen[i0] \in Nat /\ pubgen[i0] \in Nat \union {-1} /\ gen[i0] >= pubgen[i0]
    BY <1>3 DEF Work, GensOK
  <2>2. gen[i0] + 1 > pubgen[i0]
    BY SMTT(30), <2>1
  <2>3. state'[i0] = "FREE" /\ gen'[i0] = gen[i0] + 1 /\ pubgen'[i0] = pubgen[i0]
    BY <1>0, <1>1
  <2> QED BY <1>0, <1>1, <2>2, <2>3 DEF Freed
<1>8. GensOK'
  <2>1. ASSUME NEW i \in Slots, i # i0
        PROVE  /\ gen'[i] >= pubgen'[i]
               /\ state'[i] \in {"ACTIVE", "DELETING"} => gen'[i] = pubgen'[i]
               /\ ~(i < SlotCount') => state'[i] = "FREE" /\ gen'[i] > pubgen'[i]
               /\ ~Limited(i) => state'[i] = "FREE"
    BY <1>1, <1>3, <1>7, <2>1 DEF Work, GensOK, SlotCount
  <2>2. gen'[i0] \in Nat /\ pubgen'[i0] \in Nat \union {-1} /\ gen'[i0] > pubgen'[i0]
        /\ state'[i0] = "FREE"
    BY SMTT(30), <1>0, <1>1, <1>7 DEF Freed
  <2>3. gen'[i0] >= pubgen'[i0]
    BY SMTT(30), <2>2
  <2> QED BY <2>1, <2>2, <2>3 DEF GensOK
<1>9. WorkOK'
  <2>1. ASSUME NEW u \in Threads, pc'[u] \in Busy PROVE WorkAt(u)'
    <3>1. u # t /\ idx[u] # i0
      BY <1>6, <2>1 DEF Busy
    <3>2. pc'[u] = pc[u] /\ idx'[u] = idx[u]
      BY <1>4, <3>1
    <3>3. idx[u] \in Slots
      BY <2>1, <3>2 DEF SlotPhase, Busy
    <3>4. WorkAt(u) /\ SlotCount' = SlotCount
      BY <1>1, <1>3 DEF Work, WorkOK, SlotCount
    <3> QED BY <1>1, <1>7, <3>1, <3>2, <3>3, <3>4, WorkAtSame
  <2> QED BY <2>1, WorkAtIdle DEF WorkOK
<1>10. OwnOK'
  BY <1>3, <1>4, <1>5 DEF Work, OwnOK
<1>11. Swept'
  <2>1. \A u \in Threads \ {t} : pc'[u] \notin {"cl_slot", "cl_rebuild"}
    BY <1>1, <1>4 DEF LockFacts
  <2>2. SlotCount \in Nat /\ \A i \in Slots : i \in Nat
    BY SMTT(30), CountOK, CapOK DEF Slots
  <2>3. ASSUME NEW i \in Slots, i < i0 + 1 PROVE Freed(i)'
    <3>1. CASE i = i0
      BY <1>7, <3>1
    <3>2. CASE i # i0
      <4>1. i < i0
        BY SMTT(30), <1>1, <2>2, <2>3, <3>2
      <4> QED BY <1>0, <1>1, <1>3, <1>7, <3>2, <4>1 DEF Swept, Freed
    <3> QED BY <3>1, <3>2
  <2>4. CASE i0 + 1 < SlotCount
    <3>1. pc'[t] = "cl_slot" /\ idx'[t] = i0 + 1 /\ SlotCount' = SlotCount
      BY <1>0, <1>1, <2>4 DEF SlotCount
    <3> QED BY <2>1, <2>3, <2>4, <3>1 DEF Swept
  <2>5. CASE ~(i0 + 1 < SlotCount)
    <3>1. pc'[t] = "cl_rebuild" /\ SlotCount' = SlotCount
      BY <1>0, <1>1, <2>5 DEF SlotCount
    <3>2. ASSUME NEW i \in Slots PROVE Freed(i)'
      <4>1. CASE i < i0 + 1
        BY <2>3, <4>1
      <4>2. CASE ~(i < i0 + 1)
        <5>1. ~(i < SlotCount) /\ i # i0
          BY SMTT(30), <1>1, <2>2, <2>5, <4>2
        <5> QED BY <1>1, <1>3, <1>7, <5>1 DEF Work, GensOK, Freed
      <4> QED BY <4>1, <4>2
    <3> QED BY <2>1, <3>1, <3>2 DEF Swept
  <2> QED BY <2>4, <2>5
<1>12. Clearing'
  BY <1>5 DEF Clearing
<1> QED BY <1>8, <1>9, <1>10, <1>11, <1>12 DEF LifeInv, Work

\* ... and puts all of them on a new freelist, the last one first.
LEMMA ClearEnds ==
    ASSUME Counting, SlotFacts, LockFacts, chunk_cnt \in 0 .. chunk_cap, LifeInv,
           NEW t \in Threads, ClearRebuild(t)
    PROVE  LifeInv'
<1> USE DEF SlotFacts, OwnPhase, InsPhase, DelPhase, WritePhase
<1>1. /\ pc[t] = "cl_rebuild" /\ pc' = [pc EXCEPT ![t] = "done"]
      /\ free_next' = [i \in Slots |-> IF i < SlotCount THEN i - 1 ELSE free_next[i]]
      /\ free_head' = SlotCount - 1 /\ records' = 0
      /\ UNCHANGED <<state, gen, pubgen, idx, exp, chunk_cnt>>
  BY DEF ClearRebuild, Rebuild, Return, Goto, slotVars, argVars, histVars
<1>2. Work /\ \A i \in Slots : Freed(i)
  <2>1. Clearing
    BY <1>1 DEF Clearing
  <2> QED BY <1>1, <2>1 DEF LifeInv, Swept
<1>3. \A u \in Threads :
        /\ pc[u] \notin OwnPhase \union {"ins_count"}
        /\ u # t => pc[u] \notin {"cl_slot", "cl_rebuild"}
  BY <1>1 DEF LockFacts
<1>4. ~Clearing'
  BY <1>1, <1>3 DEF Clearing
<1>5. GensOK'
  BY <1>1, <1>2 DEF Work, GensOK, SlotCount
<1>6. WorkOK'
  BY <1>1, <1>2 DEF Work, WorkOK, WorkAt, SlotCount
<1>7. OwnOK'
  BY <1>1, <1>2 DEF Work, OwnOK
<1>8. SlotCount \in Nat /\ (\A i \in Slots : i \in Nat) /\ \A i \in 0 .. SlotCount - 1 : i \in Slots
  BY SMTT(30), CountOK, CapOK DEF Slots
<1>9. PICK G \in Seq(Slots) : Len(G) = SlotCount /\ \A m \in 1 .. SlotCount : G[m] = SlotCount - m
  <2> HIDE DEF SlotFacts
  <2>1. PICK n \in Nat : n = SlotCount
    BY <1>8
  <2>2. \A i \in 0 .. n - 1 : i \in Slots
    BY <1>8, <2>1
  <2> QED BY <2>1, <2>2, SeqDown
<1>10. ASSUME NEW m \in 1 .. Len(G)
       PROVE  /\ G[m] = SlotCount - m /\ m \in Nat /\ G[m] \in Slots /\ G[m] < SlotCount
              /\ (m = Len(G) <=> G[m] - 1 = -1)
              /\ m # Len(G) => m + 1 \in 1 .. Len(G) /\ SlotCount - (m + 1) = G[m] - 1
  <2>1. m \in 1 .. SlotCount
    BY <1>9
  <2>2. G[m] = SlotCount - m
    BY <1>9, <2>1
  <2>3. G[m] \in Slots
    BY SMTT(30)
  <2>4. Len(G) = SlotCount
    BY <1>9
  <2> HIDE DEF SlotFacts
  <2> QED BY SMTT(30), <1>8, <2>1, <2>2, <2>3, <2>4
<1>11. FreeList(G)'
  <2>1. free_head' = IF Len(G) = 0 THEN FM_NULL_SLOT ELSE G[1]
    <3>1. CASE SlotCount = 0
      <4>1. SlotCount - 1 = -1
        BY SMTT(30), <3>1
      <4> QED BY <1>1, <1>9, <3>1, <4>1 DEF FM_NULL_SLOT
    <3>2. CASE SlotCount # 0
      <4>1. 1 \in 1 .. SlotCount
        BY SMTT(30), <1>8, <3>2
      <4> QED BY <1>1, <1>9, <3>2, <4>1
    <3> QED BY <3>1, <3>2
  <2>2. ASSUME NEW m \in 1 .. Len(G)
        PROVE  free_next'[G[m]] = IF m = Len(G) THEN FM_NULL_SLOT ELSE G[m + 1]
    <3>1. free_next'[G[m]] = G[m] - 1
      BY <1>1, <1>10
    <3>2. m # Len(G) => G[m + 1] = G[m] - 1
      BY <1>9, <1>10
    <3> QED BY <1>10, <3>1, <3>2 DEF FM_NULL_SLOT
  <2>3. ASSUME NEW m \in 1 .. Len(G) PROVE G[m] \in Slots /\ Spare(G[m])'
    <3>1. G[m] \in Slots /\ G[m] < SlotCount /\ Freed(G[m])
      BY <1>2, <1>10
    <3>2. Limited(G[m])
      <4>1. ~NoClear
        BY <1>1 DEF LockFacts, NoClear
      <4> QED BY <4>1 DEF Limited
    <3>3. \A u \in Threads : pc'[u] \notin OwnPhase
      BY <1>1, <1>3
    <3> QED BY <1>1, <3>1, <3>2, <3>3 DEF Spare, Vacant, Freed, SlotCount
  <2>4. ASSUME NEW l \in 1 .. Len(G), NEW m \in 1 .. Len(G), G[l] = G[m] PROVE l = m
    <3>1. SlotCount - l = SlotCount - m /\ l \in Nat /\ m \in Nat
      BY <1>10, <2>4
    <3> QED BY SMTT(30), <1>8, <3>1
  <2>5. ASSUME NEW i \in Slots, Unused(i)' PROVE \E m \in 1 .. Len(G) : G[m] = i
    <3>1. i < SlotCount /\ i \in Nat
      BY <1>1, <1>8, <2>5 DEF Unused, Vacant, SlotCount
    <3>2. SlotCount - i \in 1 .. SlotCount /\ SlotCount - (SlotCount - i) = i
      BY SMTT(30), <1>8, <3>1
    <3> QED BY <1>9, <3>2
  <2> QED BY <2>1, <2>2, <2>3, <2>4, <2>5 DEF FreeList
<1>12. Counted'
  <2>1. Inserted' = {} /\ Deleting' = {} /\ ActiveSlots' = {}
    BY <1>1, <1>2, <1>3 DEF Inserted, Deleting, ActiveSlots, Freed
  <2> QED BY <1>1, <2>1 DEF Counted, Counting
<1> QED BY <1>4, <1>5, <1>6, <1>7, <1>11, <1>12 DEF LifeInv, Listed, Life

\* Every step keeps LifeInv.
LEMMA LifeStep ==
    ASSUME Counting, ClearsApart, Types, LocksOK, LifeInv, [Next]_vars
    PROVE  LifeInv'
<1> USE DEF KeepsPlace, Busy, KeepsOwn, KeepsClear, OwnPhase, InsPhase, DelPhase, WritePhase, Goto
<1>1. SlotFacts /\ LockFacts
  BY Facts
<1>2. /\ pc \in [Threads -> Labels] /\ idx \in [Threads -> Slots \union {-1}]
      /\ exp \in [Threads -> Nat \union {-1}]
  BY <1>1 DEF SlotFacts
<1>3. LifeInv /\ WorkOK /\ chunk_cnt \in 0 .. chunk_cap
  BY LifeWork DEF Work, Types, TypeOK, ShareTypes
<1>4. ASSUME NEW t \in Threads, NEW l \in Labels \ {"cl_slot", "cl_rebuild"}, Goto(t, l),
             Listed => Listed',
             \/ struct_mutex = NoThread
             \/ pc[t] \in InsPhase \union DelPhase \union {"ins_count", "dl_mark"}
      PROVE  LifeInv'
  <2>1. ~Clearing
    BY <1>1, <1>4, NotClearing
  <2>2. ~Clearing'
    BY <1>2, <1>4, <2>1, StillNotClearing
  <2> QED BY <1>4, <2>1, <2>2 DEF LifeInv
<1>5. ASSUME NEW t \in Threads, CallRead(t) PROVE LifeInv'
  BY <1>2, <1>3, <1>5, LifeFrame DEF CallRead, Begin, slotVars, shareVars, argVars, histVars
<1>6. ASSUME NEW t \in Threads, CallInsert(t) PROVE LifeInv'
  BY <1>2, <1>3, <1>6, LifeFrame
  DEF CallInsert, Begin, slotVars, shareVars, argVars, histVars
<1>7. ASSUME NEW t \in Threads, CallUpdate(t) PROVE LifeInv'
  BY <1>2, <1>3, <1>7, LifeFrame
  DEF CallUpdate, Begin, slotVars, shareVars, argVars, histVars
<1>8. ASSUME NEW t \in Threads, CallDelete(t) PROVE LifeInv'
  BY <1>2, <1>3, <1>8, LifeFrame
  DEF CallDelete, Begin, slotVars, shareVars, argVars, histVars
<1>9. ASSUME NEW t \in Threads, CallLock(t) PROVE LifeInv'
  BY <1>2, <1>3, <1>9, LifeFrame DEF CallLock, Begin, slotVars, shareVars, argVars, histVars
<1>10. ASSUME NEW t \in Threads, CallClear(t) PROVE LifeInv'
  BY <1>2, <1>3, <1>10, LifeFrame
  DEF CallClear, Begin, slotVars, shareVars, argVars, histVars
<1>11. ASSUME NEW t \in Threads, CallScanFirst(t) PROVE LifeInv'
  BY <1>2, <1>3, <1>11, LifeFrame
  DEF CallScanFirst, Begin, slotVars, shareVars, argVars, histVars
<1>12. ASSUME NEW t \in Threads, CallScanNext(t) PROVE LifeInv'
  BY <1>2, <1>3, <1>12, LifeFrame
  DEF CallScanNext, Begin, slotVars, shareVars, argVars, histVars
<1>13. ASSUME NEW t \in Threads, InsertAlloc(t) PROVE LifeInv'
  <2>1. CASE AllocPop(t)
    <3>1. Listed => Listed'
      BY <1>1, <1>13, <2>1, LifePop DEF Listed
    <3> QED BY <1>4, <1>13, <2>1, <3>1 DEF InsertAlloc, AllocPop, TakeSlot, Labels
  <2>2. CASE AllocGrow(t)
    <3>1. Listed => Listed'
      BY <1>1, <1>3, <1>13, <2>2, LifeGrow DEF Listed
    <3> QED BY <1>4, <1>13, <2>2, <3>1 DEF InsertAlloc, AllocGrow, ChunkEnd, GrowTo, TakeSlot, Labels
  <2>3. CASE AllocFail(t)
    BY <1>2, <1>3, <1>13, <2>3, LifeFrame DEF InsertAlloc, AllocFail, slotVars
  <2> QED BY <1>13, <2>1, <2>2, <2>3 DEF InsertAlloc
<1>14. ASSUME NEW t \in Threads, UpdateLock(t) PROVE LifeInv'
  BY <1>2, <1>3, <1>14, LifeFrame
  DEF UpdateLock, LockSlot, Exchange, slotVars, shareVars, argVars, histVars
<1>15. ASSUME NEW t \in Threads, DeleteLock(t) PROVE LifeInv'
  BY <1>2, <1>3, <1>15, LifeFrame
  DEF DeleteLock, LockSlot, Exchange, slotVars, shareVars, argVars, histVars
<1>16. ASSUME NEW t \in Threads, DeletePush(t) PROVE LifeInv'
  <2>1. Listed => Listed'
    BY <1>1, <1>16, LifePush DEF Listed
  <2>2. Goto(t, "lk_unlock") \/ Goto(t, "done")
    BY <1>16 DEF DeletePush, Push
  <2> QED BY <1>4, <1>16, <2>1, <2>2 DEF DeletePush, Push, Labels
<1>17. ASSUME NEW t \in Threads, LockRow(t) PROVE LifeInv'
  BY <1>2, <1>3, <1>17, LifeFrame
  DEF LockRow, LockSlot, Exchange, slotVars, shareVars, argVars, histVars
<1>18. ASSUME NEW t \in Threads, ClearLock(t) PROVE LifeInv'
  BY <1>1, <1>3, <1>18, ClearBegins
<1>19. ASSUME NEW t \in Threads, ClearSlot(t) PROVE LifeInv'
  BY <1>1, <1>3, <1>19, ClearFrees
<1>20. ASSUME NEW t \in Threads, ReadState(t) PROVE LifeInv'
  BY <1>2, <1>3, <1>20, LifeFrame
  DEF ReadState, ReadDeleted, Return, slotVars, shareVars, argVars, histVars
<1>21. ASSUME NEW t \in Threads, ReadGen(t) PROVE LifeInv'
  BY <1>2, <1>3, <1>21, LifeFrame
  DEF ReadGen, ReadDeleted, Return, slotVars, shareVars, argVars, histVars
<1>22. ASSUME NEW t \in Threads, ReadSeq(t) PROVE LifeInv'
  BY <1>2, <1>3, <1>22, LifeFrame DEF ReadSeq, slotVars, shareVars, argVars, histVars
<1>23. ASSUME NEW t \in Threads, ReadCopy(t) PROVE LifeInv'
  BY <1>2, <1>3, <1>23, LifeFrame DEF ReadCopy, slotVars, shareVars, argVars, histVars
<1>24. ASSUME NEW t \in Threads, ReadCheck(t) PROVE LifeInv'
  BY <1>2, <1>3, <1>24, LifeFrame
  DEF ReadCheck, ReadOK, Return, slotVars, shareVars, argVars, histVars
<1>25. ASSUME NEW t \in Threads, ScanStep(t) PROVE LifeInv'
  BY <1>2, <1>3, <1>25, LifeFrame
  DEF ScanStep, ScanUpTo, Return, slotVars, shareVars, argVars, histVars
<1>26. ASSUME NEW t \in Threads, InsertFail(t) PROVE LifeInv'
  BY <1>2, <1>3, <1>26, LifeFrame
  DEF InsertFail, Return, slotVars, shareVars, argVars, histVars
<1>27. ASSUME NEW t \in Threads, InsertCopy(t) PROVE LifeInv'
  BY <1>2, <1>3, <1>27, LifeFrame
  DEF InsertCopy, CopyIn, slotVars, shareVars, argVars, histVars
<1>28. ASSUME NEW t \in Threads, InsertPublish(t) PROVE LifeInv'
  <2>1. Listed => Listed'
    BY <1>1, <1>28, LifePublish DEF Listed
  <2> QED BY <1>4, <1>28, <2>1 DEF InsertPublish, Labels
<1>29. ASSUME NEW t \in Threads, InsertCount(t) PROVE LifeInv'
  <2>1. Listed => Listed'
    BY <1>1, <1>29, LifeCount DEF Listed
  <2> QED BY <1>4, <1>29, <2>1 DEF InsertCount, Return, Labels
<1>30. ASSUME NEW t \in Threads, UpdateState(t) PROVE LifeInv'
  <2>1. CASE state[idx[t]] = "ACTIVE" /\ Goto(t, "up_gen")
    BY <1>1, <1>3, <1>30, <2>1, LifeVerify
    DEF UpdateState, VerifyState, shareVars, argVars, histVars, WorkOK, WorkAt
  <2>2. CASE Unlock(t, "DELETED")
    BY <1>2, <1>3, <1>30, <2>2, LifeFrame
    DEF UpdateState, VerifyState, Unlock, KeepLock, DropLock, Return, shareVars, argVars,
        histVars
  <2> QED BY <1>30, <2>1, <2>2 DEF UpdateState, VerifyState
<1>31. ASSUME NEW t \in Threads, UpdateGen(t) PROVE LifeInv'
  <2>1. CASE gen[idx[t]] = exp[t] /\ Goto(t, "up_odd")
    BY <1>1, <1>3, <1>31, <2>1, LifeVerify
    DEF UpdateGen, VerifyGen, shareVars, argVars, histVars, WorkOK, WorkAt
  <2>2. CASE Unlock(t, "DELETED")
    BY <1>2, <1>3, <1>31, <2>2, LifeFrame
    DEF UpdateGen, VerifyGen, Unlock, KeepLock, DropLock, Return, shareVars, argVars, histVars
  <2> QED BY <1>31, <2>1, <2>2 DEF UpdateGen, VerifyGen
<1>32. ASSUME NEW t \in Threads, UpdateOdd(t) PROVE LifeInv'
  BY <1>2, <1>3, <1>32, LifeFrame
  DEF UpdateOdd, BumpSeq, slotVars, shareVars, argVars, histVars
<1>33. ASSUME NEW t \in Threads, UpdateCopy(t) PROVE LifeInv'
  BY <1>2, <1>3, <1>33, LifeFrame
  DEF UpdateCopy, CopyIn, slotVars, shareVars, argVars, histVars
<1>34. ASSUME NEW t \in Threads, UpdateEven(t) PROVE LifeInv'
  BY <1>2, <1>3, <1>34, LifeFrame
  DEF UpdateEven, BumpSeq, Unlock, KeepLock, DropLock, Return, slotVars, shareVars, argVars,
      histVars
<1>35. ASSUME NEW t \in Threads, DeleteState(t) PROVE LifeInv'
  <2>1. CASE state[idx[t]] = "ACTIVE" /\ Goto(t, "dl_gen")
    BY <1>1, <1>3, <1>35, <2>1, LifeVerify
    DEF DeleteState, VerifyState, shareVars, argVars, histVars, WorkOK, WorkAt
  <2>2. CASE Unlock(t, "DELETED")
    BY <1>2, <1>3, <1>35, <2>2, LifeFrame
    DEF DeleteState, VerifyState, Unlock, KeepLock, DropLock, Return, shareVars, argVars,
        histVars
  <2> QED BY <1>35, <2>1, <2>2 DEF DeleteState, VerifyState
<1>36. ASSUME NEW t \in Threads, DeleteGen(t) PROVE LifeInv'
  <2>1. CASE gen[idx[t]] = exp[t] /\ Goto(t, "dl_mark")
    BY <1>1, <1>3, <1>36, <2>1, LifeVerify
    DEF DeleteGen, VerifyGen, shareVars, argVars, histVars, WorkOK, WorkAt
  <2>2. CASE Unlock(t, "DELETED")
    BY <1>2, <1>3, <1>36, <2>2, LifeFrame
    DEF DeleteGen, VerifyGen, Unlock, KeepLock, DropLock, Return, shareVars, argVars, histVars
  <2> QED BY <1>36, <2>1, <2>2 DEF DeleteGen, VerifyGen
<1>37. ASSUME NEW t \in Threads, DeleteMark(t) PROVE LifeInv'
  <2>1. Listed => Listed'
    BY <1>1, <1>37, LifeDelete DEF Listed
  <2> QED BY <1>4, <1>37, <2>1 DEF DeleteMark, Labels
<1>38. ASSUME NEW t \in Threads, DeleteDead(t) PROVE LifeInv'
  <2>1. Listed => Listed'
    BY <1>1, <1>38, LifeDelete DEF Listed
  <2> QED BY <1>4, <1>38, <2>1 DEF DeleteDead, Labels
<1>39. ASSUME NEW t \in Threads, DeleteBump(t) PROVE LifeInv'
  <2>1. Listed => Listed'
    BY <1>1, <1>39, LifeDelete DEF Listed
  <2> QED BY <1>4, <1>39, <2>1 DEF DeleteBump, Labels
<1>40. ASSUME NEW t \in Threads, DeleteCount(t) PROVE LifeInv'
  <2>1. Listed => Listed'
    BY <1>1, <1>40, LifeCount DEF Listed
  <2> QED BY <1>4, <1>40, <2>1 DEF DeleteCount, Labels
<1>41. ASSUME NEW t \in Threads, UpdateLocked(t) PROVE LifeInv'
  BY <1>2, <1>3, <1>41, LifeFrame
  DEF UpdateLocked, StartLocked, slotVars, shareVars, argVars, histVars
<1>42. ASSUME NEW t \in Threads, DeleteLocked(t) PROVE LifeInv'
  BY <1>2, <1>3, <1>42, LifeFrame
  DEF DeleteLocked, StartLocked, slotVars, shareVars, argVars, histVars
<1>43. ASSUME NEW t \in Threads, UnlockRow(t) PROVE LifeInv'
  BY <1>2, <1>3, <1>43, LifeFrame DEF UnlockRow, slotVars, shareVars, argVars, histVars
<1>44. ASSUME NEW t \in Threads, ClearRebuild(t) PROVE LifeInv'
  BY <1>1, <1>3, <1>44, ClearEnds
<1>45. ASSUME NEW t \in Threads, Finish(t) PROVE LifeInv'
  BY <1>2, <1>3, <1>45, LifeFrame DEF Finish, slotVars, shareVars, argVars, histVars
<1>46. CASE UNCHANGED vars
  BY <1>3, <1>46, LifeFrame DEF vars, slotVars, shareVars, argVars, histVars
<1> QED
  BY <1>5, <1>6, <1>7, <1>8, <1>9, <1>10, <1>11, <1>12, <1>13, <1>14,
     <1>15, <1>16, <1>17, <1>18, <1>19, <1>20, <1>21, <1>22, <1>23, <1>24, <1>25,
     <1>26, <1>27, <1>28, <1>29, <1>30, <1>31, <1>32, <1>33, <1>34, <1>35, <1>36,
     <1>37, <1>38, <1>39, <1>40, <1>41, <1>42, <1>43, <1>44, <1>45, <1>46
  DEF Next, Call, Acquire, Run
=============================================================================
