------------------------------- MODULE FmRows -------------------------------
(***************************************************************************)
(* The row store of fm_core.h: the slot array, the seqlock that protects a *)
(* row image, the per-slot writer spinlock, the generations that validate  *)
(* row references, the freelist with chunk growth, and table clear, for a  *)
(* table without keys (keys = 0).  The hash chains of keyed tables are the *)
(* subject of FmIndex.                                                     *)
(*                                                                         *)
(* Every thread runs one core function at a time, one shared access per    *)
(* step.  A lock acquisition is merged with the step after it and a        *)
(* release with the step before it.  Data guarded by struct_mutex          *)
(* (freelist, chunk growth) moves in one step while the mutex is held.     *)
(* A row image is a tuple of words; memcpy moves one word per step, in any *)
(* order.                                                                  *)
(***************************************************************************)
EXTENDS Integers, FiniteSets

CONSTANTS
    Threads,        \* server threads
    NoThread,       \* "nobody" as the owner of a spinlock
    Words,          \* the parts of a row image that memcpy moves separately
    Recs,           \* record contents a client writes
    NoRec,          \* the content of memory that was never written
    FM_CHUNK_SIZE,  \* slots per chunk (4096 in the code)
    max_records,    \* the row limit of the table
    SEQ_MOD,        \* width of the sequence counter (2^32 in the code)
    MaxGen,         \* bound: rows of this generation are not deleted again
    Calls           \* the workload: the entry points each thread uses

AllCalls == {"read", "scan", "insert", "update", "delete", "lock", "clear"}

ASSUME ThreadsAssumption == NoThread \notin Threads
ASSUME RecsAssumption == NoRec \notin Recs
ASSUME WordsAssumption == Words # {}
ASSUME SizesAssumption == FM_CHUNK_SIZE \in Nat \ {0} /\ max_records \in Nat \ {0}
ASSUME SeqAssumption == SEQ_MOD \in Nat \ {0} /\ SEQ_MOD % 2 = 0
ASSUME GenAssumption == MaxGen \in Nat
ASSUME CallsAssumption == Calls \in [Threads -> SUBSET AllCalls]

FM_NULL_SLOT == -1
NoGen == -1          \* check_gen = false; also "never published" in pubgen

chunk_cap == (max_records + FM_CHUNK_SIZE - 1) \div FM_CHUNK_SIZE
Slots == 0 .. chunk_cap * FM_CHUNK_SIZE - 1

VARIABLES
    \* FM_SLOT and the record image behind it
    state,          \* "FREE" | "ACTIVE" | "DELETED" | "DELETING"
    wlock,          \* owner of the slot's spinlock
    seq,            \* seqlock counter, odd while an update is in progress
    gen,            \* generation
    image,          \* the words of the record image
    \* FM_SHARE_CORE
    free_next, free_head, chunk_cnt, records, struct_mutex,
    \* the running call of each thread: its arguments and locals
    pc,
    op,             \* the entry point
    idx,            \* slot argument, or the slot allocated by an insert
    exp,            \* expect_gen
    rec,            \* record argument
    locked,         \* the caller already holds the slot's wlock (*_locked)
    s1, buf,        \* read_row's first sequence load and the output buffer
    left,           \* words memcpy has still to move
    ret,            \* return code
    pos, bound,     \* scan cursor of the handle, slot count of this call
    \* history, read by the properties only
    pubgen,         \* generation under which the slot was last published
    hist,           \* <<generation, record>> pairs ever published in a slot
    recycled,       \* the slot was re-allocated during this read attempt
    since,          \* seq increments since s1 was loaded (up to SEQ_MOD)
    stable,         \* rows ACTIVE ever since the scan began
    seen            \* slots the scan has returned

Labels ==
    {"idle", "done", "rd_state", "rd_gen", "rd_seq", "rd_copy", "rd_check", "sc_next",
     "ins_alloc", "ins_fail", "ins_copy", "ins_publish", "ins_count",
     "up_lock", "up_state", "up_gen", "up_odd", "up_copy", "up_even",
     "dl_lock", "dl_state", "dl_gen", "dl_mark", "dl_dead", "dl_bump", "dl_count",
     "dl_push", "lk_lock", "lk_held", "lk_unlock", "cl_lock", "cl_slot", "cl_rebuild"}

slotVars  == <<state, wlock, seq, gen, image>>
shareVars == <<free_next, free_head, chunk_cnt, records, struct_mutex>>
argVars   == <<op, idx, exp, rec, locked>>
readVars  == <<s1, buf>>
histVars  == <<pubgen, hist, recycled, since>>
scanVars  == <<pos, bound, stable, seen>>
vars == <<slotVars, shareVars, pc, argVars, readVars, left, ret, histVars, scanVars>>

-----------------------------------------------------------------------------
Whole(r) == [w \in Words |-> r]

SlotCount == chunk_cnt * FM_CHUNK_SIZE          \* fm_core_slot_count

ActiveSlots == {i \in Slots : state[i] = "ACTIVE"}

\* Steps at which a read attempt has seen the slot ACTIVE and is not over.
Reading(t) == pc[t] \in {"rd_gen", "rd_seq", "rd_copy", "rd_check"}

\* fetch_add(1) on the 32-bit sequence counter.
SeqInc(n) == IF n + 1 = SEQ_MOD THEN 0 ELSE n + 1

Goto(t, l) == pc' = [pc EXCEPT ![t] = l]

Return(t, r) == ret' = [ret EXCEPT ![t] = r] /\ Goto(t, "done")

Init ==
    /\ state = [i \in Slots |-> "FREE"]
    /\ wlock = [i \in Slots |-> NoThread]
    /\ seq = [i \in Slots |-> 0]
    /\ gen = [i \in Slots |-> 0]
    /\ image = [i \in Slots |-> Whole(NoRec)]
    /\ free_next = [i \in Slots |-> FM_NULL_SLOT]
    /\ free_head = FM_NULL_SLOT
    /\ chunk_cnt = 0
    /\ records = 0
    /\ struct_mutex = NoThread
    /\ pc = [t \in Threads |-> "idle"]
    /\ op = [t \in Threads |-> "none"]
    /\ idx = [t \in Threads |-> FM_NULL_SLOT]
    /\ exp = [t \in Threads |-> NoGen]
    /\ rec = [t \in Threads |-> NoRec]
    /\ locked = [t \in Threads |-> FALSE]
    /\ s1 = [t \in Threads |-> 0]
    /\ buf = [t \in Threads |-> Whole(NoRec)]
    /\ left = [t \in Threads |-> {}]
    /\ ret = [t \in Threads |-> "none"]
    /\ pos = [t \in Threads |-> 0]
    /\ bound = [t \in Threads |-> 0]
    /\ pubgen = [i \in Slots |-> NoGen]
    /\ hist = [i \in Slots |-> {}]
    /\ recycled = [t \in Threads |-> FALSE]
    /\ since = [t \in Threads |-> 0]
    /\ stable = [t \in Threads |-> {}]
    /\ seen = [t \in Threads |-> {}]

-----------------------------------------------------------------------------
(* Calls and returns.  A reference names a slot that held a row and a      *)
(* generation the slot has or had; it may be stale.                        *)

Begin(t, o, i, g, r, l) ==
    /\ o \in Calls[t]
    /\ pc[t] = "idle"
    /\ op' = [op EXCEPT ![t] = o]
    /\ idx' = [idx EXCEPT ![t] = i]
    /\ exp' = [exp EXCEPT ![t] = g]
    /\ rec' = [rec EXCEPT ![t] = r]
    /\ Goto(t, l)
    /\ UNCHANGED <<slotVars, shareVars, locked, readVars, left, ret, histVars>>

Ref(i, g) == pubgen[i] # NoGen /\ g \in 0 .. gen[i]

CallRead(t) ==
    \E i \in Slots : \E g \in 0 .. gen[i] :
        Ref(i, g) /\ Begin(t, "read", i, g, NoRec, "rd_state") /\ UNCHANGED scanVars

CallInsert(t) ==
    \E r \in Recs :
        Begin(t, "insert", FM_NULL_SLOT, NoGen, r, "ins_alloc") /\ UNCHANGED scanVars

CallUpdate(t) ==
    \E i \in Slots, r \in Recs : \E g \in 0 .. gen[i] :
        Ref(i, g) /\ Begin(t, "update", i, g, r, "up_lock") /\ UNCHANGED scanVars

CallDelete(t) ==
    \E i \in Slots : \E g \in 0 .. gen[i] :
        /\ Ref(i, g) /\ g < MaxGen
        /\ Begin(t, "delete", i, g, NoRec, "dl_lock")
        /\ UNCHANGED scanVars

CallLock(t) ==
    \E i \in Slots :
        /\ pubgen[i] # NoGen
        /\ Begin(t, "lock", i, NoGen, NoRec, "lk_lock")
        /\ UNCHANGED scanVars

CallClear(t) ==
    /\ \A i \in Slots : gen[i] < MaxGen
    /\ Begin(t, "clear", FM_NULL_SLOT, NoGen, NoRec, "cl_lock")
    /\ UNCHANGED scanVars

\* fm_scan_init followed by the first fm_core_scan_next ...
CallScanFirst(t) ==
    /\ seen[t] = {} /\ pos[t] = 0
    /\ Begin(t, "scan", FM_NULL_SLOT, NoGen, NoRec, "sc_next")
    /\ bound' = [bound EXCEPT ![t] = SlotCount]
    /\ stable' = [stable EXCEPT ![t] = ActiveSlots]
    /\ UNCHANGED <<pos, seen>>

\* ... and each further fm_core_scan_next with the cursor of the handle.
CallScanNext(t) ==
    /\ pos[t] > 0
    /\ Begin(t, "scan", FM_NULL_SLOT, NoGen, NoRec, "sc_next")
    /\ bound' = [bound EXCEPT ![t] = SlotCount]
    /\ UNCHANGED <<pos, stable, seen>>

\* The caller takes the result and drops its locals; a scan ends at EOF.
Finish(t) ==
    /\ pc[t] = "done"
    /\ Goto(t, "idle")
    /\ op' = [op EXCEPT ![t] = "none"]
    /\ idx' = [idx EXCEPT ![t] = FM_NULL_SLOT]
    /\ exp' = [exp EXCEPT ![t] = NoGen]
    /\ rec' = [rec EXCEPT ![t] = NoRec]
    /\ locked' = [locked EXCEPT ![t] = FALSE]
    /\ buf' = [buf EXCEPT ![t] = Whole(NoRec)]
    /\ s1' = [s1 EXCEPT ![t] = 0]
    /\ left' = [left EXCEPT ![t] = {}]
    /\ ret' = [ret EXCEPT ![t] = "none"]
    /\ recycled' = [recycled EXCEPT ![t] = FALSE]
    /\ since' = [since EXCEPT ![t] = 0]
    /\ bound' = [bound EXCEPT ![t] = 0]
    /\ IF ret[t] = "EOF"
       THEN /\ pos' = [pos EXCEPT ![t] = 0]
            /\ stable' = [stable EXCEPT ![t] = {}]
            /\ seen' = [seen EXCEPT ![t] = {}]
       ELSE UNCHANGED <<pos, stable, seen>>
    /\ UNCHANGED <<slotVars, shareVars, pubgen, hist>>

-----------------------------------------------------------------------------
(* fm_core_read_row                                                        *)

\* Where a read attempt ends: a plain read returns, a scan returns the row
\* or moves on to the next slot.
ReadOK(t) ==
    /\ Return(t, "OK")
    /\ seen' = IF op[t] = "scan" THEN [seen EXCEPT ![t] = @ \union {idx[t]}] ELSE seen
    /\ UNCHANGED <<pos, bound, stable>>

ReadDeleted(t) ==
    /\ Goto(t, IF op[t] = "scan" THEN "sc_next" ELSE "done")
    /\ ret' = IF op[t] = "scan" THEN ret ELSE [ret EXCEPT ![t] = "DELETED"]
    /\ UNCHANGED scanVars

ReadState(t) ==
    /\ pc[t] = "rd_state"
    /\ \/ /\ state[idx[t]] = "ACTIVE"
          /\ Goto(t, IF exp[t] = NoGen THEN "rd_seq" ELSE "rd_gen")
          /\ recycled' = [recycled EXCEPT ![t] = FALSE]
          /\ UNCHANGED <<ret, scanVars>>
       \/ /\ state[idx[t]] # "ACTIVE"
          /\ ReadDeleted(t)
          /\ UNCHANGED recycled
    /\ UNCHANGED <<slotVars, shareVars, argVars, readVars, left, pubgen, hist, since>>

ReadGen(t) ==
    /\ pc[t] = "rd_gen"
    /\ \/ gen[idx[t]] = exp[t] /\ Goto(t, "rd_seq") /\ UNCHANGED <<ret, scanVars>>
       \/ gen[idx[t]] # exp[t] /\ ReadDeleted(t)
    /\ UNCHANGED <<slotVars, shareVars, argVars, readVars, left, histVars>>

ReadSeq(t) ==
    /\ pc[t] = "rd_seq"
    /\ \/ /\ seq[idx[t]] % 2 = 1                 \* update in progress: retry
          /\ Goto(t, "rd_state")
          /\ UNCHANGED <<s1, left, since>>
       \/ /\ seq[idx[t]] % 2 = 0
          /\ Goto(t, "rd_copy")
          /\ s1' = [s1 EXCEPT ![t] = seq[idx[t]]]
          /\ left' = [left EXCEPT ![t] = Words]
          /\ since' = [since EXCEPT ![t] = 0]
    /\ UNCHANGED <<slotVars, shareVars, argVars, buf, ret, pubgen, hist, recycled, scanVars>>

ReadCopy(t) ==
    /\ pc[t] = "rd_copy"
    /\ \E w \in left[t] :
        /\ buf' = [buf EXCEPT ![t][w] = image[idx[t]][w]]
        /\ left' = [left EXCEPT ![t] = @ \ {w}]
        /\ Goto(t, IF left[t] = {w} THEN "rd_check" ELSE "rd_copy")
    /\ UNCHANGED <<slotVars, shareVars, argVars, s1, ret, histVars, scanVars>>

\* Mutant: no second look at seq.
ReadCheck_NoRetry(t) ==
    /\ pc[t] = "rd_check"
    /\ ReadOK(t)
    /\ UNCHANGED <<slotVars, shareVars, argVars, readVars, left, histVars>>

ReadCheck(t) ==
    /\ pc[t] = "rd_check"
    /\ \/ seq[idx[t]] = s1[t] /\ ReadOK(t) /\ UNCHANGED <<s1, since>>
       \/ /\ seq[idx[t]] # s1[t]                 \* changed: retry, s1 is forgotten
          /\ Goto(t, "rd_state")
          /\ s1' = [s1 EXCEPT ![t] = 0]
          /\ since' = [since EXCEPT ![t] = 0]
          /\ UNCHANGED <<ret, scanVars>>
    /\ UNCHANGED <<slotVars, shareVars, argVars, buf, left, pubgen, hist, recycled>>

\* fm_core_scan_next: the next slot below the end, or EOF.
ScanUpTo(t, end) ==
    /\ pc[t] = "sc_next"
    /\ \/ /\ pos[t] < end
          /\ idx' = [idx EXCEPT ![t] = pos[t]]
          /\ pos' = [pos EXCEPT ![t] = @ + 1]
          /\ Goto(t, "rd_state")
          /\ UNCHANGED ret
       \/ /\ pos[t] >= end
          /\ Return(t, "EOF")
          /\ UNCHANGED <<idx, pos>>
    /\ UNCHANGED <<slotVars, shareVars, op, exp, rec, locked, readVars, left,
                   histVars, bound, stable, seen>>

ScanStep_OffByOne(t) == ScanUpTo(t, bound[t] - 1)
ScanStep(t) == ScanUpTo(t, bound[t])

-----------------------------------------------------------------------------
(* fm_core_insert_row                                                      *)

\* alloc_slot hands slot i to t; the image is copied next, without wlock
\* and without touching seq.
TakeSlot(t, i) ==
    /\ struct_mutex' = t
    /\ idx' = [idx EXCEPT ![t] = i]
    /\ left' = [left EXCEPT ![t] = Words]
    /\ recycled' = [u \in Threads |-> recycled[u] \/ (Reading(u) /\ idx[u] = i)]
    /\ Goto(t, "ins_copy")

AllocPop(t) ==
    /\ free_head # FM_NULL_SLOT
    /\ free_head' = free_next[free_head]
    /\ TakeSlot(t, free_head)
    /\ UNCHANGED <<free_next, chunk_cnt>>

\* A fresh chunk: its first slot is handed out, the others below end go on
\* the (empty) freelist in ascending order.
GrowTo(t, end) ==
    LET total == SlotCount
    IN  /\ free_head = FM_NULL_SLOT
        /\ total < max_records
        /\ chunk_cnt < chunk_cap
        /\ chunk_cnt' = chunk_cnt + 1
        /\ free_next' = [i \in Slots |->
                IF i \in total + 1 .. end - 2 THEN i + 1
                ELSE IF i = end - 1 /\ i > total THEN FM_NULL_SLOT
                ELSE free_next[i]]
        /\ free_head' = IF total + 1 < end THEN total + 1 ELSE FM_NULL_SLOT
        /\ TakeSlot(t, total)

\* The end of the fresh chunk, cut to max_records.
ChunkEnd == IF SlotCount + FM_CHUNK_SIZE > max_records
            THEN max_records ELSE SlotCount + FM_CHUNK_SIZE

\* Mutants: the end is not cut to max_records; the loop that fills the freelist
\* starts at the end and not below it.
AllocGrow_NoLimit(t) == GrowTo(t, SlotCount + FM_CHUNK_SIZE)
AllocGrow_PastEnd(t) == GrowTo(t, ChunkEnd + 1)

AllocGrow(t) == GrowTo(t, ChunkEnd)

\* The table is full, or the allocation of a chunk failed.
AllocFail(t) ==
    /\ free_head = FM_NULL_SLOT
    /\ Goto(t, "ins_fail")
    /\ UNCHANGED <<free_next, free_head, chunk_cnt, struct_mutex, idx, left, recycled>>

InsertAlloc(t) ==
    /\ pc[t] = "ins_alloc"
    /\ struct_mutex = NoThread
    /\ AllocPop(t) \/ AllocGrow(t) \/ AllocFail(t)
    /\ UNCHANGED <<slotVars, records, op, exp, rec, locked, readVars, ret,
                   pubgen, hist, since, scanVars>>

\* Mutant: an insert that finds no slot tries again.
InsertFail_Retries(t) ==
    /\ pc[t] = "ins_fail"
    /\ Goto(t, "ins_alloc")
    /\ UNCHANGED <<slotVars, shareVars, argVars, readVars, left, ret, histVars, scanVars>>

\* The error code is derived from chunk_cnt after the mutex was released.
InsertFail(t) ==
    /\ pc[t] = "ins_fail"
    /\ Return(t, IF chunk_cnt >= chunk_cap THEN "FULL" ELSE "NOMEM")
    /\ UNCHANGED <<slotVars, shareVars, argVars, readVars, left, histVars, scanVars>>

\* One word of a memcpy from the thread's record into its slot.
CopyIn(t, copying, next) ==
    /\ pc[t] = copying
    /\ \E w \in left[t] :
        /\ image' = [image EXCEPT ![idx[t]][w] = rec[t]]
        /\ left' = [left EXCEPT ![t] = @ \ {w}]
        /\ Goto(t, IF left[t] = {w} THEN next ELSE copying)
    /\ UNCHANGED <<state, wlock, seq, gen, shareVars, argVars, readVars, ret,
                   histVars, scanVars>>

InsertCopy(t) == CopyIn(t, "ins_copy", "ins_publish")

InsertPublish(t) ==
    /\ pc[t] = "ins_publish"
    /\ state' = [state EXCEPT ![idx[t]] = "ACTIVE"]
    /\ pubgen' = [pubgen EXCEPT ![idx[t]] = gen[idx[t]]]
    /\ hist' = [hist EXCEPT ![idx[t]] = @ \union {<<gen[idx[t]], rec[t]>>}]
    /\ Goto(t, "ins_count")
    /\ UNCHANGED <<wlock, seq, gen, image, shareVars, argVars, readVars, left,
                   ret, recycled, since, scanVars>>

InsertCount(t) ==
    /\ pc[t] = "ins_count"
    /\ records' = records + 1
    /\ struct_mutex' = NoThread
    /\ Return(t, "OK")
    /\ UNCHANGED <<slotVars, free_next, free_head, chunk_cnt, argVars, readVars,
                   left, histVars, scanVars>>

-----------------------------------------------------------------------------
(* fm_core_update_row and fm_core_update_row_locked, no key changed.  The  *)
(* _locked variant starts at up_state: its caller took the wlock and keeps *)
(* it.                                                                     *)

\* Leave a function that verified the slot under wlock: the caller of a
\* _locked variant keeps the lock, the others release it.
KeepLock(t, r) ==
    /\ locked[t]
    /\ ret' = [ret EXCEPT ![t] = r]
    /\ Goto(t, "lk_unlock")
    /\ UNCHANGED wlock

DropLock(t, r) ==
    /\ ~locked[t]
    /\ wlock' = [wlock EXCEPT ![idx[t]] = NoThread]
    /\ Return(t, r)

Unlock(t, r) == KeepLock(t, r) \/ DropLock(t, r)

\* FM_SPIN::lock() on a slot's wlock: the exchange, and the wait for it.
Exchange(t, waiting, next) ==
    /\ pc[t] = waiting
    /\ wlock' = [wlock EXCEPT ![idx[t]] = t]
    /\ Goto(t, next)
    /\ UNCHANGED <<state, seq, gen, image, shareVars, argVars, readVars, left,
                   ret, histVars, scanVars>>

LockSlot(t, waiting, next) ==
    pc[t] = waiting /\ wlock[idx[t]] = NoThread /\ Exchange(t, waiting, next)

\* state = ACTIVE and gen = expect_gen, or FM_ERR_DELETED.
VerifyState(t, here, next) ==
    /\ pc[t] = here
    /\ \/ state[idx[t]] = "ACTIVE" /\ Goto(t, next) /\ UNCHANGED <<ret, wlock>>
       \/ state[idx[t]] # "ACTIVE" /\ Unlock(t, "DELETED")
    /\ UNCHANGED <<state, seq, gen, image, shareVars, argVars, readVars, left,
                   histVars, scanVars>>

VerifyGen(t, here, next) ==
    /\ pc[t] = here
    /\ \/ gen[idx[t]] = exp[t] /\ Goto(t, next) /\ UNCHANGED <<ret, wlock>>
       \/ gen[idx[t]] # exp[t] /\ Unlock(t, "DELETED")
    /\ UNCHANGED <<state, seq, gen, image, shareVars, argVars, readVars, left,
                   histVars, scanVars>>

BumpSeq(i) ==
    /\ seq' = [seq EXCEPT ![i] = SeqInc(@)]
    /\ since' = [u \in Threads |->
            IF pc[u] \in {"rd_copy", "rd_check"} /\ idx[u] = i /\ since[u] < SEQ_MOD
            THEN since[u] + 1 ELSE since[u]]

UpdateLock(t) == LockSlot(t, "up_lock", "up_state")
UpdateState(t) == VerifyState(t, "up_state", "up_gen")
UpdateGen(t) == VerifyGen(t, "up_gen", "up_odd")

UpdateOdd(t) ==
    /\ pc[t] = "up_odd"
    /\ BumpSeq(idx[t])
    /\ left' = [left EXCEPT ![t] = Words]
    /\ Goto(t, "up_copy")
    /\ UNCHANGED <<state, wlock, gen, image, shareVars, argVars, readVars, ret,
                   pubgen, hist, recycled, scanVars>>

UpdateCopy(t) == CopyIn(t, "up_copy", "up_even")

\* Mutant: seq stays odd after the write.
UpdateEven_StaysOdd(t) ==
    /\ pc[t] = "up_even"
    /\ hist' = [hist EXCEPT ![idx[t]] = @ \union {<<exp[t], rec[t]>>}]
    /\ Unlock(t, "OK")
    /\ UNCHANGED <<state, seq, gen, image, shareVars, argVars, readVars, left,
                   pubgen, recycled, since, scanVars>>

UpdateEven(t) ==
    /\ pc[t] = "up_even"
    /\ BumpSeq(idx[t])
    /\ hist' = [hist EXCEPT ![idx[t]] = @ \union {<<exp[t], rec[t]>>}]
    /\ Unlock(t, "OK")
    /\ UNCHANGED <<state, gen, image, shareVars, argVars, readVars, left,
                   pubgen, recycled, scanVars>>

-----------------------------------------------------------------------------
(* fm_core_delete_row and fm_core_delete_row_locked, no keys.              *)

DeleteLock(t) == LockSlot(t, "dl_lock", "dl_state")
DeleteState(t) == VerifyState(t, "dl_state", "dl_gen")
DeleteGen(t) == VerifyGen(t, "dl_gen", "dl_mark")

\* The scan guarantee no longer covers a row that left ACTIVE.
LeaveActive(i) == stable' = [u \in Threads |-> stable[u] \ {i}]

DeleteMark(t) ==
    /\ pc[t] = "dl_mark"
    /\ state' = [state EXCEPT ![idx[t]] = "DELETING"]
    /\ wlock' = IF locked[t] THEN wlock ELSE [wlock EXCEPT ![idx[t]] = NoThread]
    /\ LeaveActive(idx[t])
    /\ Goto(t, "dl_dead")
    /\ UNCHANGED <<seq, gen, image, shareVars, argVars, readVars, left, ret,
                   histVars, pos, bound, seen>>

DeleteDead(t) ==
    /\ pc[t] = "dl_dead"
    /\ state' = [state EXCEPT ![idx[t]] = "DELETED"]
    /\ LeaveActive(idx[t])
    /\ Goto(t, "dl_bump")
    /\ UNCHANGED <<wlock, seq, gen, image, shareVars, argVars, readVars, left,
                   ret, histVars, pos, bound, seen>>

\* Mutant: the slot is recycled under the same generation.
DeleteBump_Forgotten(t) ==
    /\ pc[t] = "dl_bump"
    /\ Goto(t, "dl_count")
    /\ UNCHANGED <<slotVars, shareVars, argVars, readVars, left, ret, histVars, scanVars>>

DeleteBump(t) ==
    /\ pc[t] = "dl_bump"
    /\ gen' = [gen EXCEPT ![idx[t]] = @ + 1]
    /\ Goto(t, "dl_count")
    /\ UNCHANGED <<state, wlock, seq, image, shareVars, argVars, readVars, left,
                   ret, histVars, scanVars>>

DeleteCount(t) ==
    /\ pc[t] = "dl_count"
    /\ records' = records - 1
    /\ Goto(t, "dl_push")
    /\ UNCHANGED <<slotVars, free_next, free_head, chunk_cnt, struct_mutex,
                   argVars, readVars, left, ret, histVars, scanVars>>

\* struct_mutex is taken and released around fm_core_free_slot.
Push(t, head, owner) ==
    /\ pc[t] = "dl_push"
    /\ struct_mutex = NoThread
    /\ struct_mutex' = owner
    /\ free_next' = [free_next EXCEPT ![idx[t]] = free_head]
    /\ free_head' = head
    /\ ret' = [ret EXCEPT ![t] = "OK"]
    /\ Goto(t, IF locked[t] THEN "lk_unlock" ELSE "done")
    /\ UNCHANGED <<slotVars, chunk_cnt, records, argVars, readVars, left, histVars, scanVars>>

DeletePush_Lost(t) == Push(t, free_head, NoThread)
DeletePush_KeepsMutex(t) == Push(t, idx[t], t)
DeletePush(t) == Push(t, idx[t], NoThread)

-----------------------------------------------------------------------------
(* A write statement: the handler holds the row's wlock across one         *)
(* fm_core_update_row_locked or fm_core_delete_row_locked, or none.        *)

LockRow(t) == LockSlot(t, "lk_lock", "lk_held")

StartLocked(t, g, r, l) ==
    /\ pc[t] = "lk_held"
    /\ locked' = [locked EXCEPT ![t] = TRUE]
    /\ exp' = [exp EXCEPT ![t] = g]
    /\ rec' = [rec EXCEPT ![t] = r]
    /\ Goto(t, l)
    /\ UNCHANGED <<slotVars, shareVars, op, idx, readVars, left, ret, histVars, scanVars>>

UpdateLocked(t) ==
    pc[t] = "lk_held" /\ \E g \in 0 .. gen[idx[t]], r \in Recs : StartLocked(t, g, r, "up_state")

DeleteLocked(t) ==
    /\ pc[t] = "lk_held"
    /\ \E g \in 0 .. gen[idx[t]] : g < MaxGen /\ StartLocked(t, g, NoRec, "dl_state")

UnlockRow(t) ==
    /\ pc[t] \in {"lk_held", "lk_unlock"}
    /\ wlock' = [wlock EXCEPT ![idx[t]] = NoThread]
    /\ Goto(t, "done")
    /\ UNCHANGED <<state, seq, gen, image, shareVars, argVars, readVars, left,
                   ret, histVars, scanVars>>

-----------------------------------------------------------------------------
(* fm_core_clear, no keys: idx is the loop variable.                       *)

ClearLock(t) ==
    /\ pc[t] = "cl_lock"
    /\ struct_mutex = NoThread
    /\ struct_mutex' = t
    /\ idx' = [idx EXCEPT ![t] = 0]
    /\ Goto(t, IF SlotCount = 0 THEN "cl_rebuild" ELSE "cl_slot")
    /\ UNCHANGED <<slotVars, free_next, free_head, chunk_cnt, records, op, exp,
                   rec, locked, readVars, left, ret, histVars, scanVars>>

\* Both stores happen under the slot's wlock.
FreeSlotStores(t) ==
    /\ pc[t] = "cl_slot"
    /\ state' = [state EXCEPT ![idx[t]] = "FREE"]
    /\ gen' = [gen EXCEPT ![idx[t]] = @ + 1]
    /\ LeaveActive(idx[t])
    /\ IF idx[t] + 1 < SlotCount
       THEN idx' = [idx EXCEPT ![t] = @ + 1] /\ UNCHANGED pc
       ELSE Goto(t, "cl_rebuild") /\ UNCHANGED idx
    /\ UNCHANGED <<wlock, seq, image, shareVars, op, exp, rec, locked, readVars,
                   left, ret, histVars, pos, bound, seen>>

ClearSlot(t) == pc[t] = "cl_slot" /\ wlock[idx[t]] = NoThread /\ FreeSlotStores(t)

\* Every slot of every chunk goes on the freelist, the last one first.
Rebuild(t, head, count) ==
    /\ pc[t] = "cl_rebuild"
    /\ free_next' = [i \in Slots |-> IF i < SlotCount THEN i - 1 ELSE free_next[i]]
    /\ free_head' = head
    /\ records' = count
    /\ struct_mutex' = NoThread
    /\ Return(t, "OK")
    /\ UNCHANGED <<slotVars, chunk_cnt, argVars, readVars, left, histVars, scanVars>>

ClearRebuild_KeepsCount(t) == Rebuild(t, SlotCount - 1, records)
ClearRebuild(t) == Rebuild(t, SlotCount - 1, 0)

-----------------------------------------------------------------------------
Call(t) ==
    \/ CallRead(t) \/ CallInsert(t) \/ CallUpdate(t) \/ CallDelete(t)
    \/ CallLock(t) \/ CallClear(t) \/ CallScanFirst(t) \/ CallScanNext(t)

\* Steps that may have to wait for a spinlock.
Acquire(t) ==
    \/ InsertAlloc(t) \/ UpdateLock(t) \/ DeleteLock(t) \/ DeletePush(t)
    \/ LockRow(t) \/ ClearLock(t) \/ ClearSlot(t)

\* Steps that never wait.
Run(t) ==
    \/ ReadState(t) \/ ReadGen(t) \/ ReadSeq(t) \/ ReadCopy(t) \/ ReadCheck(t)
    \/ ScanStep(t)
    \/ InsertFail(t) \/ InsertCopy(t) \/ InsertPublish(t) \/ InsertCount(t)
    \/ UpdateState(t) \/ UpdateGen(t) \/ UpdateOdd(t) \/ UpdateCopy(t) \/ UpdateEven(t)
    \/ DeleteState(t) \/ DeleteGen(t) \/ DeleteMark(t) \/ DeleteDead(t)
    \/ DeleteBump(t) \/ DeleteCount(t)
    \/ UpdateLocked(t) \/ DeleteLocked(t) \/ UnlockRow(t)
    \/ ClearRebuild(t)
    \/ Finish(t)

Next == \E t \in Threads : Call(t) \/ Acquire(t) \/ Run(t)

Spec == Init /\ [][Next]_vars

\* The scheduler keeps running every thread inside a call, and a thread that
\* keeps retrying a spinlock that is released again and again gets it.
Fairness == \A t \in Threads : WF_vars(Run(t)) /\ SF_vars(Acquire(t))

FairSpec == Spec /\ Fairness

-----------------------------------------------------------------------------
(* Properties                                                              *)

SlotTypes ==
    /\ state \in [Slots -> {"FREE", "ACTIVE", "DELETED", "DELETING"}]
    /\ wlock \in [Slots -> Threads \union {NoThread}]
    /\ seq \in [Slots -> 0 .. SEQ_MOD - 1]
    /\ gen \in [Slots -> Nat]
    /\ image \in [Slots -> [Words -> Recs \union {NoRec}]]

ShareTypes ==
    /\ free_next \in [Slots -> Slots \union {FM_NULL_SLOT}]
    /\ free_head \in Slots \union {FM_NULL_SLOT}
    /\ chunk_cnt \in 0 .. chunk_cap
    /\ records \in Int
    /\ struct_mutex \in Threads \union {NoThread}

ArgTypes ==
    /\ op \in [Threads -> AllCalls \union {"none"}]
    /\ idx \in [Threads -> Slots \union {FM_NULL_SLOT}]
    /\ exp \in [Threads -> Nat \union {NoGen}]
    /\ rec \in [Threads -> Recs \union {NoRec}]
    /\ locked \in [Threads -> BOOLEAN]

PcType == pc \in [Threads -> Labels]

LocalTypes ==
    /\ s1 \in [Threads -> 0 .. SEQ_MOD - 1]
    /\ buf \in [Threads -> [Words -> Recs \union {NoRec}]]
    /\ left \in [Threads -> SUBSET Words]
    /\ ret \in [Threads -> {"none", "OK", "DELETED", "EOF", "FULL", "NOMEM"}]

HistTypes ==
    /\ pubgen \in [Slots -> Nat \union {NoGen}]
    /\ hist \in [Slots -> SUBSET (Nat \X Recs)]
    /\ recycled \in [Threads -> BOOLEAN]
    /\ since \in [Threads -> 0 .. SEQ_MOD]

ScanTypes ==
    /\ pos \in [Threads -> Nat]
    /\ bound \in [Threads -> Nat]
    /\ stable \in [Threads -> SUBSET Slots]
    /\ seen \in [Threads -> SUBSET Slots]

\* Every variable of the slots, the share and the threads has its C type.
TypeOK ==
    /\ SlotTypes /\ ShareTypes /\ PcType /\ ArgTypes
    /\ LocalTypes /\ HistTypes /\ ScanTypes

\* The seqlock (fm_core_read_row against fm_core_write_image): at the step
\* where read_row returns OK, the buffer is the slot's current image, all of
\* it from one record that was published there, under the generation the
\* caller asked for.  Two things the code does not guard against are
\* excluded: the slot was re-allocated during the attempt (insert_row copies
\* its image without touching seq), or seq went once around its 32 bits.
ReadReturnsCurrentRow ==
    [][\A t \in Threads :
        (pc[t] = "rd_check" /\ pc'[t] = "done" /\ ~recycled[t] /\ since[t] < SEQ_MOD)
        => /\ buf[t] = image[idx[t]]
           /\ \E r \in Recs : /\ buf[t] = Whole(r)
                             /\ <<pubgen[idx[t]], r>> \in hist[idx[t]]
           /\ exp[t] # NoGen => exp[t] = pubgen[idx[t]]]_vars

\* Generation check under wlock (update_row, delete_row and their _locked
\* variants): from the check to the end of the image write, or to the flip
\* to DELETING, the slot holds the live row the reference named.  No delete,
\* recycling or other writer gets in between.
WritersOwnTheirRow ==
    \A t \in Threads : pc[t] \in {"up_odd", "up_copy", "up_even", "dl_mark"} =>
        /\ state[idx[t]] = "ACTIVE"
        /\ gen[idx[t]] = exp[t]
        /\ wlock[idx[t]] = t

\* Writers exclude each other through wlock (fm_core_write_image): a live row
\* that no update is in the middle of is one whole record, published under
\* the slot's present generation.
PublishedImageWhole ==
    \A i \in ActiveSlots : seq[i] % 2 = 0 =>
        \E r \in Recs : image[i] = Whole(r) /\ <<gen[i], r>> \in hist[i]

\* Recycling (delete_row's gen bump, alloc_slot): whenever insert_row is about
\* to publish a row, the slot's generation is larger than that of every row
\* the slot held before, so a reference names at most one row ever.
FreshGeneration ==
    \A t \in Threads : pc[t] = "ins_publish" => gen[idx[t]] > pubgen[idx[t]]

Clearing == \E t \in Threads : pc[t] \in {"cl_slot", "cl_rebuild"}

\* The n-th node of the freelist.
FreeNth ==
    LET nth[n \in 0 .. Cardinality(Slots)] ==
            IF n = 0 THEN free_head
            ELSE IF nth[n - 1] = FM_NULL_SLOT THEN FM_NULL_SLOT
            ELSE free_next[nth[n - 1]]
    IN  nth

\* Slots an insert or a delete is working on: out of the list, not yet live.
InTransit(i) ==
    \E t \in Threads : idx[t] = i /\ pc[t] \in
        {"ins_copy", "ins_publish", "dl_dead", "dl_bump", "dl_count", "dl_push"}

\* The freelist (alloc_slot, free_slot, clear): it ends, it holds no live
\* slot and none that an insert or delete is still working on, and no unused
\* slot below max_records is lost.
SlotsAccounted ==
    Clearing \/
    LET nth == FreeNth
        list == {nth[n] : n \in DOMAIN nth} \ {FM_NULL_SLOT}
        unused == {i \in Slots : i < SlotCount /\ state[i] # "ACTIVE" /\ ~InTransit(i)}
    IN  /\ nth[Cardinality(Slots)] = FM_NULL_SLOT
        /\ list \subseteq unused
        /\ {i \in unused : i < max_records} \subseteq list

\* The live row count (HA_STATS_RECORDS_IS_EXACT): records differs from the
\* number of ACTIVE rows only by the inserts and deletes that are between
\* their state store and their counter update.
RecordsExact ==
    Clearing \/
    records + Cardinality({t \in Threads : pc[t] = "ins_count"})
      = Cardinality(ActiveSlots)
        + Cardinality({t \in Threads : pc[t] \in {"dl_dead", "dl_bump", "dl_count"}})

\* max_records is a hard limit on the rows of the table (fm_core.h:210).
RowLimit == Cardinality(ActiveSlots) <= max_records

\* The owner of the spinlock a thread is spinning on.
WaitsFor(t) ==
    CASE pc[t] \in {"ins_alloc", "dl_push", "cl_lock"} -> struct_mutex
      [] pc[t] \in {"up_lock", "dl_lock", "lk_lock", "cl_slot"} -> wlock[idx[t]]
      [] OTHER -> NoThread

\* Lock order (DESIGN.md, section 3): no set of threads waits for locks held
\* within the set.
NoCircularWait ==
    \A T \in SUBSET Threads : T # {} => \E t \in T : WaitsFor(t) \notin T

\* fm_core_scan_next: a scan that reached EOF returned every row that was
\* live from its start to its end, whatever else was inserted, updated or
\* deleted meanwhile.
ScanComplete ==
    \A t \in Threads : pc[t] = "done" /\ ret[t] = "EOF" => stable[t] \subseteq seen[t]

\* Every INSERT, UPDATE, DELETE and locked read-modify-write returns.
WritersReturn ==
    \A t \in Threads : op[t] \in {"insert", "update", "delete", "lock"} ~> pc[t] = "idle"

\* A reader retries only while rows are being updated: if the updates cease,
\* every read and scan call returns.
ReadersReturn ==
    <>[](\A u \in Threads : op[u] \notin {"update", "lock"})
      => \A t \in Threads : op[t] \in {"read", "scan"} ~> pc[t] = "idle"

\* DESIGN.md:54 and the invariant in fm_core.h:134-138, taken literally: a
\* read never returns a mix of two images.
NoTornRead ==
    \A t \in Threads : op[t] \in {"read", "scan"} /\ pc[t] = "done" /\ ret[t] = "OK" =>
        \E r \in Recs : buf[t] = Whole(r)
=============================================================================
