------------------------------- MODULE FmIndex -------------------------------
(***************************************************************************)
(* The hash indexes of fm_core.h: bucket chains and bucket locks, the      *)
(* duplicate check of unique keys, lookups and index scans, and the        *)
(* operations that link and unlink rows, as the handler uses them: insert, *)
(* and update, delete of a row whose wlock the statement holds.            *)
(*                                                                         *)
(* A row image is the tuple of its key values and is read and written in   *)
(* one step; torn images, the freelist's links, chunks and the row count   *)
(* are the subject of FmRows.  Chains are walked one node per step.  What  *)
(* happens between taking and releasing a bucket lock is one step if it    *)
(* touches that chain only.                                                *)
(***************************************************************************)
EXTENDS Integers, Sequences, FiniteSets

CONSTANTS
    Threads, NoThread,
    keys,           \* number of keys; key numbers start at 0
    Unique,         \* the unique ones among them
    Vals,           \* values of a key
    NullVals,       \* those with a NULL part
    Hash,           \* hash_rec of a value
    nbuckets,
    Recs,           \* rows clients write
    Lookups,        \* keys and values clients look up
    max_records,
    MaxGen,         \* bound: rows of this generation are not deleted again
    Calls           \* the workload: the entry points each thread uses

KeyNos == 0 .. keys - 1
Buckets == 0 .. nbuckets - 1
Slots == 0 .. max_records - 1
FM_NULL_SLOT == -1
FM_MAX_CHANGED_KEYS == 64       \* changed keys an update has room for
AllCalls == {"insert", "lock", "find", "truncate"}

ASSUME ThreadsAssumption == NoThread \notin Threads
ASSUME KeysAssumption == keys \in Nat \ {0} /\ Unique \subseteq KeyNos
ASSUME ChangedKeysAssumption == keys <= FM_MAX_CHANGED_KEYS
ASSUME ValsAssumption == NullVals \subseteq Vals /\ Hash \in [Vals -> Nat]
ASSUME SizesAssumption == nbuckets \in Nat \ {0} /\ max_records \in Nat \ {0} /\ MaxGen \in Nat
ASSUME RecsAssumption == Recs \subseteq [KeyNos -> Vals] /\ Recs # {}
ASSUME LookupsAssumption == Lookups \subseteq KeyNos \X Vals
ASSUME CallsAssumption == Calls \in [Threads -> SUBSET AllCalls]

VARIABLES
    state, wlock, gen, row,         \* the slots
    struct_mutex, free,             \* allocator; the freelist as a stack
    head, next, block,              \* per key: chain heads, links, bucket lock owners
    pc, op,                         \* of each thread: step and entry point,
    idx, exp, old, new,             \* slot, its generation, old and new record,
    key, h, after,                  \* key number, node of a chain walk, past the cursor,
    want, ret,                      \* value looked up, return code
    \* history, read by the properties only
    stable,         \* rows that matched ever since the lookup began
    seen,           \* rows the lookup and its index_next calls returned
    lost,           \* the row index_next continues from left its chain
    raced           \* rows a duplicate check passed over before they were published

slotVars  == <<state, wlock, gen, row>>
chainVars == <<head, next>>
argVars   == <<idx, exp, old, new, want>>
walkVars  == <<key, h, after>>
scanVars  == <<stable, seen, lost>>
vars == <<slotVars, struct_mutex, free, chainVars, block, pc, op, argVars, walkVars,
          ret, scanVars, raced>>

-----------------------------------------------------------------------------
Active == {i \in Slots : state[i] = "ACTIVE"}

Bucket(v) == Hash[v] % nbuckets

\* The chain of bucket b of key k: its n-th link, its nodes, whether it ends.
NthLink(k, b) ==
    LET nth[n \in 0 .. max_records] ==
            IF n = 0 THEN head[k][b]
            ELSE IF nth[n - 1] = FM_NULL_SLOT THEN FM_NULL_SLOT
            ELSE next[k][nth[n - 1]]
    IN  nth
Nodes(k, b) ==
    LET nth == NthLink(k, b)
    IN  {nth[n] : n \in 0 .. max_records} \ {FM_NULL_SLOT}
Ends(k, b) == NthLink(k, b)[max_records] = FM_NULL_SLOT

Goto(t, l) == pc' = [pc EXCEPT ![t] = l]

Init ==
    /\ state = [i \in Slots |-> "FREE"]
    /\ wlock = [i \in Slots |-> NoThread]
    /\ gen = [i \in Slots |-> 0]
    /\ row \in {[i \in Slots |-> r] : r \in {CHOOSE r \in Recs : TRUE}}
    /\ struct_mutex = NoThread
    /\ free = [n \in 1 .. max_records |-> n - 1]
    /\ head = [k \in KeyNos |-> [b \in Buckets |-> FM_NULL_SLOT]]
    /\ next = [k \in KeyNos |-> [i \in Slots |-> FM_NULL_SLOT]]
    /\ block = [k \in KeyNos |-> [b \in Buckets |-> NoThread]]
    /\ pc = [t \in Threads |-> "idle"]
    /\ op = [t \in Threads |-> "none"]
    /\ idx = [t \in Threads |-> FM_NULL_SLOT]
    /\ exp = [t \in Threads |-> 0]
    /\ old = [t \in Threads |-> <<>>]
    /\ new = [t \in Threads |-> <<>>]
    /\ key = [t \in Threads |-> 0]
    /\ h = [t \in Threads |-> FM_NULL_SLOT]
    /\ after = [t \in Threads |-> FALSE]
    /\ want = [t \in Threads |-> {}]
    /\ ret = [t \in Threads |-> "none"]
    /\ stable = [t \in Threads |-> {}]
    /\ seen = [t \in Threads |-> {}]
    /\ lost = [t \in Threads |-> FALSE]
    /\ raced = {}

-----------------------------------------------------------------------------
(* Chains and bucket locks.                                                *)

Lock(t, k, b) == block[k][b] = NoThread /\ block' = [block EXCEPT ![k][b] = t]
Unlock(k, b) == block' = [block EXCEPT ![k][b] = NoThread]

\* fm_core_chain_unlink: the heads and the links of key k without row i in the
\* chain of bucket b.  A row that is not in that chain is not an error.
UnlinkHead(k, b, i) == [head EXCEPT ![k][b] = IF @ = i THEN next[k][i] ELSE @]
UnlinkNext(k, b, i) ==
    [next EXCEPT ![k] = [j \in Slots |->
        IF j \in Nodes(k, b) /\ next[k][j] = i THEN next[k][i] ELSE next[k][j]]]

Unlink(k, b, i) == head' = UnlinkHead(k, b, i) /\ next' = UnlinkNext(k, b, i)

\* fm_core_chain_link, at the head of bucket b.
Link(hd, nx, k, b, i) ==
    /\ head' = [hd EXCEPT ![k][b] = i]
    /\ next' = [nx EXCEPT ![k][i] = hd[k][b]]

\* History: row i leaves the chain of key k, and scans standing on it lose their place.
Leave(k, i) ==
    lost' = [u \in Threads |-> lost[u] \/ (op[u] = "find" /\ idx[u] = i /\ key[u] = k)]

\* History: row i now has record r (or none), and lookups of another value forget it.
Change(i, r) ==
    stable' = [u \in Threads |->
        IF op[u] = "find" /\ (r = <<>> \/ r[key[u]] \notin want[u])
        THEN stable[u] \ {i} ELSE stable[u]]

-----------------------------------------------------------------------------
(* Calls and returns.                                                      *)

Begin(t, o, l) ==
    /\ o \in Calls[t]
    /\ pc[t] = "idle"
    /\ op' = [op EXCEPT ![t] = o]
    /\ Goto(t, l)
    /\ UNCHANGED <<slotVars, struct_mutex, free, chainVars, block, exp, old, h, after, ret,
                   seen, lost, raced>>

CallInsert(t) ==
    /\ Begin(t, "insert", "ins_alloc")
    /\ \E r \in Recs : new' = [new EXCEPT ![t] = r]
    /\ UNCHANGED <<idx, key, want, stable>>

\* A write statement found row i and is about to lock it.
CallLock(t) ==
    /\ Begin(t, "lock", "lk_lock")
    /\ \E i \in Slots : /\ state[i] # "FREE"
                        /\ idx' = [idx EXCEPT ![t] = i]
    /\ UNCHANGED <<new, key, want, stable>>

CallFind(t) ==
    /\ Begin(t, "find", "fd_lock")
    /\ \E l \in Lookups :
        /\ key' = [key EXCEPT ![t] = l[1]]
        /\ want' = [want EXCEPT ![t] = {l[2]}]
        /\ stable' = [stable EXCEPT ![t] = {i \in Active : row[i][l[1]] = l[2]}]
    /\ UNCHANGED <<idx, new>>

\* index_next: the lookup goes on after the row it returned.
CallFindNext(t) ==
    /\ op[t] = "find" /\ pc[t] = "done" /\ ret[t] = "OK"
    /\ Goto(t, "fd_lock")
    /\ UNCHANGED <<slotVars, struct_mutex, free, chainVars, block, op, argVars, walkVars,
                   ret, scanVars, raced>>

\* A call returns and its locals are gone.
Return(t) ==
    /\ Goto(t, "idle")
    /\ op' = [op EXCEPT ![t] = "none"]
    /\ idx' = [idx EXCEPT ![t] = FM_NULL_SLOT]
    /\ exp' = [exp EXCEPT ![t] = 0]
    /\ old' = [old EXCEPT ![t] = <<>>]
    /\ new' = [new EXCEPT ![t] = <<>>]
    /\ want' = [want EXCEPT ![t] = {}]
    /\ key' = [key EXCEPT ![t] = 0]
    /\ h' = [h EXCEPT ![t] = FM_NULL_SLOT]
    /\ after' = [after EXCEPT ![t] = FALSE]

\* The index scan is over.
EndFind(t) ==
    /\ pc[t] = "done"
    /\ Return(t)
    /\ ret' = [ret EXCEPT ![t] = "none"]
    /\ stable' = [stable EXCEPT ![t] = {}]
    /\ seen' = [seen EXCEPT ![t] = {}]
    /\ lost' = [lost EXCEPT ![t] = FALSE]
    /\ UNCHANGED <<slotVars, struct_mutex, free, chainVars, block, raced>>

-----------------------------------------------------------------------------
(* Duplicate check: the walk of fm_core_dup_check for record new[t], key   *)
(* key[t], under the bucket lock.                                          *)

\* Where the walk starts: nowhere for a key that allows duplicates or a NULL part.
DupFirst(k, v) ==
    IF k \in Unique /\ v \notin NullVals THEN head[k][Bucket(v)] ELSE FM_NULL_SLOT

IsDup(t) ==
    /\ h[t] # FM_NULL_SLOT
    /\ state[h[t]] = "ACTIVE"
    /\ row[h[t]][key[t]] = new[t][key[t]]

\* History: the walk passes a row with its key that is not published yet.
Pass(t) ==
    raced' = IF state[h[t]] \in {"FREE", "DELETED"} /\ row[h[t]][key[t]] = new[t][key[t]]
             THEN raced \cup {h[t]} ELSE raced

DupStep(t) ==
    /\ h[t] # FM_NULL_SLOT /\ ~IsDup(t)
    /\ h' = [h EXCEPT ![t] = next[key[t]][h[t]]]
    /\ Pass(t)

-----------------------------------------------------------------------------
(* fm_core_insert_row.                                                     *)

NewBucket(t) == Bucket(new[t][key[t]])

InsertAlloc(t) ==
    /\ pc[t] = "ins_alloc" /\ struct_mutex = NoThread /\ free # <<>>
    /\ struct_mutex' = t
    /\ free' = Tail(free)
    /\ idx' = [idx EXCEPT ![t] = Head(free)]
    /\ row' = [row EXCEPT ![Head(free)] = new[t]]
    /\ Goto(t, "ins_bucket")
    /\ UNCHANGED <<state, wlock, gen, chainVars, block, op, exp, old, new, want, walkVars,
                   ret, scanVars, raced>>

InsertFull(t) ==
    /\ pc[t] = "ins_alloc" /\ struct_mutex = NoThread /\ free = <<>>
    /\ Return(t)
    /\ UNCHANGED <<slotVars, struct_mutex, free, chainVars, block, ret, scanVars, raced>>

InsertBucket(t) ==
    /\ pc[t] = "ins_bucket"
    /\ Lock(t, key[t], NewBucket(t))
    /\ h' = [h EXCEPT ![t] = DupFirst(key[t], new[t][key[t]])]
    /\ Goto(t, "ins_walk")
    /\ UNCHANGED <<slotVars, struct_mutex, free, chainVars, op, argVars, key, after, ret,
                   scanVars, raced>>

InsertWalk(t) ==
    /\ pc[t] = "ins_walk" /\ DupStep(t)
    /\ UNCHANGED <<slotVars, struct_mutex, free, chainVars, block, pc, op, argVars, key,
                   after, ret, scanVars>>

\* The chain has no duplicate: link the row, on to the next key.
InsertLink(t) ==
    /\ pc[t] = "ins_walk" /\ h[t] = FM_NULL_SLOT
    /\ Link(head, next, key[t], NewBucket(t), idx[t])
    /\ Unlock(key[t], NewBucket(t))
    /\ key' = [key EXCEPT ![t] = @ + 1]
    /\ Goto(t, IF key[t] + 1 < keys THEN "ins_bucket" ELSE "ins_publish")
    /\ UNCHANGED <<slotVars, struct_mutex, free, op, argVars, h, after, ret, scanVars, raced>>

\* Mutant: the links made so far are left behind.
InsertDup_NoRollback(t) ==
    /\ pc[t] = "ins_walk" /\ IsDup(t)
    /\ Unlock(key[t], NewBucket(t))
    /\ key' = [key EXCEPT ![t] = 0]
    /\ h' = [h EXCEPT ![t] = FM_NULL_SLOT]
    /\ Goto(t, "ins_free")
    /\ UNCHANGED <<slotVars, struct_mutex, free, chainVars, op, argVars, after, ret, scanVars,
                   raced>>

InsertDup(t) ==
    /\ pc[t] = "ins_walk" /\ IsDup(t)
    /\ Unlock(key[t], NewBucket(t))
    /\ key' = [key EXCEPT ![t] = @ - 1]
    /\ h' = [h EXCEPT ![t] = FM_NULL_SLOT]
    /\ Goto(t, IF key[t] = 0 THEN "ins_free" ELSE "ins_undo")
    /\ UNCHANGED <<slotVars, struct_mutex, free, chainVars, op, argVars, after, ret, scanVars,
                   raced>>

InsertUndo(t) ==
    /\ pc[t] = "ins_undo"
    /\ block[key[t]][NewBucket(t)] = NoThread
    /\ Unlink(key[t], NewBucket(t), idx[t])
    /\ key' = [key EXCEPT ![t] = @ - 1]
    /\ Goto(t, IF key[t] = 0 THEN "ins_free" ELSE "ins_undo")
    /\ UNCHANGED <<slotVars, struct_mutex, free, block, op, argVars, h, after, ret, scanVars,
                   raced>>

\* Mutant: the slot is given back after the call has forgotten which it is.
InsertFree_Late(t) ==
    /\ pc[t] = "ins_free"
    /\ Return(t)
    /\ free' = <<idx'[t]>> \o free
    /\ struct_mutex' = NoThread
    /\ raced' = raced \ {idx[t]}
    /\ UNCHANGED <<slotVars, chainVars, block, ret, scanVars>>

\* The row was never visible; its slot goes back to the freelist.
InsertFree(t) ==
    /\ pc[t] = "ins_free"
    /\ free' = <<idx[t]>> \o free
    /\ struct_mutex' = NoThread
    /\ raced' = raced \ {idx[t]}
    /\ Return(t)
    /\ UNCHANGED <<slotVars, chainVars, block, ret, scanVars>>

InsertPublish(t) ==
    /\ pc[t] = "ins_publish"
    /\ state' = [state EXCEPT ![idx[t]] = "ACTIVE"]
    /\ struct_mutex' = NoThread
    /\ Return(t)
    /\ UNCHANGED <<wlock, gen, row, free, chainVars, block, ret, scanVars, raced>>

-----------------------------------------------------------------------------
(* Write statements: lock_current_row and fm_reread_locked, then           *)
(* update_row, delete_row or neither, then unlock_current_row.             *)

\* wlock is taken and the row read again in one step: while it is held, only the
\* insert that recycles the slot can change its state, from DELETED to ACTIVE.
LockRow(t) ==
    /\ pc[t] = "lk_lock" /\ wlock[idx[t]] = NoThread /\ state[idx[t]] = "ACTIVE"
    /\ wlock' = [wlock EXCEPT ![idx[t]] = t]
    /\ old' = [old EXCEPT ![t] = row[idx[t]]]
    /\ exp' = [exp EXCEPT ![t] = gen[idx[t]]]
    /\ Goto(t, "lk_held")
    /\ UNCHANGED <<state, gen, row, struct_mutex, free, chainVars, block, op, idx, new, want,
                   walkVars, ret, scanVars, raced>>

LockGone(t) ==
    /\ pc[t] = "lk_lock" /\ wlock[idx[t]] = NoThread /\ state[idx[t]] # "ACTIVE"
    /\ Return(t)
    /\ UNCHANGED <<slotVars, struct_mutex, free, chainVars, block, ret, scanVars, raced>>

UnlockRow(t) ==
    /\ wlock' = [wlock EXCEPT ![idx[t]] = NoThread]
    /\ Return(t)

Skip(t) ==
    /\ pc[t] = "lk_held"
    /\ UnlockRow(t)
    /\ UNCHANGED <<state, gen, row, struct_mutex, free, chainVars, block, ret, scanVars, raced>>

Verified(t) == state[idx[t]] = "ACTIVE" /\ gen[idx[t]] = exp[t]

\* The changed keys; there is room for all of them (ChangedKeysAssumption).
Changed(t) == {k \in KeyNos : old[t][k] # new[t][k]}
After(ks, k) == {j \in ks : j > k}
FirstOf(ks) == IF ks = {} THEN keys ELSE CHOOSE k \in ks : \A j \in ks : k <= j

\* The buckets an update locks, old and new of every changed key, and the next
\* one it takes: the smallest (key, bucket) not taken yet.
LockSet(t) == {<<k, Bucket(r[t][k])>> : k \in Changed(t), r \in {old, new}}
Missing(t) == {l \in LockSet(t) : block[l[1]][l[2]] # t}
\* Mutant: of each key, the new bucket first.
NextLock_NewFirst(t) ==
    LET k == FirstOf({l[1] : l \in Missing(t)})
    IN  IF <<k, Bucket(new[t][k])>> \in Missing(t) THEN <<k, Bucket(new[t][k])>>
        ELSE <<k, Bucket(old[t][k])>>
NextLock(t) ==
    CHOOSE l \in Missing(t) : \A m \in Missing(t) :
        l[1] < m[1] \/ (l[1] = m[1] /\ l[2] <= m[2])
UnlockAll(t) ==
    block' = [k \in KeyNos |-> [b \in Buckets |->
                 IF <<k, b>> \in LockSet(t) THEN NoThread ELSE block[k][b]]]

\* fm_core_update_row_locked: check the row, find the keys that change.
Update(t) ==
    /\ pc[t] = "lk_held" /\ Verified(t)
    /\ \E r \in Recs : new' = [new EXCEPT ![t] = r]
    /\ Goto(t, IF new'[t] = old[t] THEN "up_write" ELSE "up_bucket")
    /\ UNCHANGED <<slotVars, struct_mutex, free, chainVars, block, op, idx, exp, old, want,
                   walkVars, ret, scanVars, raced>>

\* Start the duplicate check of the first key of ks, or go on to the write.
CheckKeys(t, ks) ==
    IF ks = {}
    THEN /\ key' = [key EXCEPT ![t] = FirstOf(Changed(t))]
         /\ h' = [h EXCEPT ![t] = FM_NULL_SLOT]
         /\ Goto(t, "up_write")
    ELSE /\ key' = [key EXCEPT ![t] = FirstOf(ks)]
         /\ h' = [h EXCEPT ![t] = DupFirst(FirstOf(ks), new[t][FirstOf(ks)])]
         /\ Goto(t, "up_walk")

UpdateBucket(t) ==
    /\ pc[t] = "up_bucket"
    /\ Lock(t, NextLock(t)[1], NextLock(t)[2])
    /\ IF Missing(t) = {NextLock(t)} THEN CheckKeys(t, Changed(t))
       ELSE UNCHANGED <<pc, key, h>>
    /\ UNCHANGED <<slotVars, struct_mutex, free, chainVars, op, argVars, after, ret, scanVars,
                   raced>>

UpdateWalk(t) ==
    /\ pc[t] = "up_walk" /\ DupStep(t)
    /\ UNCHANGED <<slotVars, struct_mutex, free, chainVars, block, pc, op, argVars, key, after,
                   ret, scanVars>>

\* Mutant: only the first changed key is checked.
UpdateChecked_FirstKey(t) ==
    /\ pc[t] = "up_walk" /\ h[t] = FM_NULL_SLOT
    /\ CheckKeys(t, {})
    /\ UNCHANGED <<slotVars, struct_mutex, free, chainVars, block, op, argVars, after, ret,
                   scanVars, raced>>

UpdateChecked(t) ==
    /\ pc[t] = "up_walk" /\ h[t] = FM_NULL_SLOT
    /\ CheckKeys(t, After(Changed(t), key[t]))
    /\ UNCHANGED <<slotVars, struct_mutex, free, chainVars, block, op, argVars, after, ret,
                   scanVars, raced>>

UpdateDup(t) ==
    /\ pc[t] = "up_walk" /\ IsDup(t)
    /\ UnlockAll(t)
    /\ UnlockRow(t)
    /\ UNCHANGED <<state, gen, row, struct_mutex, free, chainVars, ret, scanVars, raced>>

UpdateWrite(t) ==
    /\ pc[t] = "up_write"
    /\ row' = [row EXCEPT ![idx[t]] = new[t]]
    /\ Change(idx[t], new[t])
    /\ IF Changed(t) = {} THEN UnlockRow(t)
       ELSE Goto(t, "up_relink") /\ UNCHANGED <<wlock, op, argVars, walkVars>>
    /\ UNCHANGED <<state, gen, struct_mutex, free, chainVars, block, ret, seen, lost, raced>>

\* Move the row to its new chain, key by key.
UpdateRelink(t) ==
    /\ pc[t] = "up_relink"
    /\ LET k == key[t]
           b == Bucket(old[t][k])
           rest == After(Changed(t), k)
       IN  /\ Link(UnlinkHead(k, b, idx[t]), UnlinkNext(k, b, idx[t]), k, NewBucket(t), idx[t])
           /\ Leave(k, idx[t])
           /\ IF rest = {} THEN UnlockAll(t) /\ UnlockRow(t)
              ELSE /\ key' = [key EXCEPT ![t] = FirstOf(rest)]
                   /\ UNCHANGED <<block, wlock, pc, op, argVars, h, after>>
    /\ UNCHANGED <<state, gen, row, struct_mutex, free, ret, stable, seen, raced>>

\* fm_core_delete_row_locked.
Delete(t) ==
    /\ pc[t] = "lk_held" /\ Verified(t) /\ gen[idx[t]] < MaxGen
    /\ state' = [state EXCEPT ![idx[t]] = "DELETING"]
    /\ Change(idx[t], <<>>)
    /\ Goto(t, "dl_unlink")
    /\ UNCHANGED <<wlock, gen, row, struct_mutex, free, chainVars, block, op, argVars, walkVars,
                   ret, seen, lost, raced>>

DeleteUnlink(t) ==
    /\ pc[t] = "dl_unlink"
    /\ LET b == Bucket(row[idx[t]][key[t]])
       IN  block[key[t]][b] = NoThread /\ Unlink(key[t], b, idx[t])
    /\ Leave(key[t], idx[t])
    /\ key' = [key EXCEPT ![t] = @ + 1]
    /\ Goto(t, IF key[t] + 1 < keys THEN "dl_unlink" ELSE "dl_dead")
    /\ UNCHANGED <<slotVars, struct_mutex, free, block, op, argVars, h, after, ret, stable, seen,
                   raced>>

DeleteDead(t) ==
    /\ pc[t] = "dl_dead"
    /\ state' = [state EXCEPT ![idx[t]] = "DELETED"]
    /\ gen' = [gen EXCEPT ![idx[t]] = @ + 1]
    /\ raced' = raced \ {idx[t]}
    /\ Goto(t, "dl_push")
    /\ UNCHANGED <<wlock, row, struct_mutex, free, chainVars, block, op, argVars, walkVars, ret,
                   scanVars>>

DeletePush(t) ==
    /\ pc[t] = "dl_push" /\ struct_mutex = NoThread
    /\ free' = <<idx[t]>> \o free
    /\ UnlockRow(t)
    /\ UNCHANGED <<state, gen, row, struct_mutex, chainVars, block, ret, scanVars, raced>>

-----------------------------------------------------------------------------
(* fm_core_find and fm_core_find_next: one walk, which answers only after  *)
(* it has met the row the scan stands on (idx), if there is one.           *)

WantBucket(t) == Bucket(CHOOSE v \in want[t] : TRUE)

FindBucket(t) ==
    /\ pc[t] = "fd_lock"
    /\ Lock(t, key[t], WantBucket(t))
    /\ h' = [h EXCEPT ![t] = head[key[t]][WantBucket(t)]]
    /\ after' = [after EXCEPT ![t] = (idx[t] = FM_NULL_SLOT)]
    /\ Goto(t, "fd_walk")
    /\ UNCHANGED <<slotVars, struct_mutex, free, chainVars, op, argVars, key, ret, scanVars,
                   raced>>

Answer(t, r) == ret' = [ret EXCEPT ![t] = r] /\ Goto(t, "done")

Hit(t) ==
    /\ h[t] # idx[t] /\ after[t]
    /\ state[h[t]] = "ACTIVE" /\ row[h[t]][key[t]] \in want[t]

\* Mutant: the walk gives up at a row that is being deleted or inserted.
FindStep_Stops(t) ==
    /\ pc[t] = "fd_walk" /\ h[t] # FM_NULL_SLOT /\ ~Hit(t)
    /\ after' = [after EXCEPT ![t] = @ \/ h[t] = idx[t]]
    /\ h' = [h EXCEPT ![t] = IF state[h[t]] = "ACTIVE" THEN next[key[t]][h[t]] ELSE FM_NULL_SLOT]
    /\ UNCHANGED <<slotVars, struct_mutex, free, chainVars, block, pc, op, argVars, key, ret,
                   scanVars, raced>>

FindStep(t) ==
    /\ pc[t] = "fd_walk" /\ h[t] # FM_NULL_SLOT /\ ~Hit(t)
    /\ after' = [after EXCEPT ![t] = @ \/ h[t] = idx[t]]
    /\ h' = [h EXCEPT ![t] = next[key[t]][h[t]]]
    /\ UNCHANGED <<slotVars, struct_mutex, free, chainVars, block, pc, op, argVars, key, ret,
                   scanVars, raced>>

FindHit(t) ==
    /\ pc[t] = "fd_walk" /\ h[t] # FM_NULL_SLOT /\ Hit(t)
    /\ Unlock(key[t], WantBucket(t))
    /\ idx' = [idx EXCEPT ![t] = h[t]]
    /\ seen' = [seen EXCEPT ![t] = @ \cup {h[t]}]
    /\ Answer(t, "OK")
    /\ UNCHANGED <<slotVars, struct_mutex, free, chainVars, op, exp, old, new, want, walkVars,
                   stable, lost, raced>>

FindMiss(t) ==
    /\ pc[t] = "fd_walk" /\ h[t] = FM_NULL_SLOT
    /\ Unlock(key[t], WantBucket(t))
    /\ Answer(t, "NOT_FOUND")
    /\ UNCHANGED <<slotVars, struct_mutex, free, chainVars, op, argVars, walkVars, scanVars,
                   raced>>

-----------------------------------------------------------------------------
(* fm_core_clear for TRUNCATE: the server's exclusive metadata lock lets   *)
(* no other call run beside it, so it is one step.                         *)

Truncate(t) ==
    /\ "truncate" \in Calls[t]
    /\ \A u \in Threads : pc[u] = "idle"
    /\ \A i \in Slots : gen[i] < MaxGen
    /\ head' = [k \in KeyNos |-> [b \in Buckets |-> FM_NULL_SLOT]]
    /\ state' = [i \in Slots |-> "FREE"]
    /\ gen' = [i \in Slots |-> gen[i] + 1]
    /\ free' = [n \in 1 .. max_records |-> max_records - n]
    /\ raced' = {}
    /\ UNCHANGED <<wlock, row, struct_mutex, next, block, pc, op, argVars, walkVars, ret,
                   scanVars>>

-----------------------------------------------------------------------------
Call(t) ==
    CallInsert(t) \/ CallLock(t) \/ CallFind(t) \/ CallFindNext(t) \/ Truncate(t)

\* Steps that wait for a lock, and steps that do not.
Acquire(t) ==
    \/ InsertAlloc(t) \/ InsertFull(t) \/ InsertBucket(t) \/ InsertUndo(t)
    \/ LockRow(t) \/ LockGone(t) \/ UpdateBucket(t) \/ DeleteUnlink(t) \/ DeletePush(t) \/ FindBucket(t)

Work(t) ==
    \/ InsertWalk(t) \/ InsertLink(t) \/ InsertDup(t) \/ InsertFree(t) \/ InsertPublish(t)
    \/ Skip(t) \/ Update(t) \/ UpdateWalk(t) \/ UpdateChecked(t) \/ UpdateDup(t)
    \/ UpdateWrite(t) \/ UpdateRelink(t) \/ Delete(t) \/ DeleteDead(t)
    \/ FindStep(t) \/ FindHit(t) \/ FindMiss(t)

Next == \E t \in Threads : Call(t) \/ Acquire(t) \/ Work(t) \/ EndFind(t)

Spec == Init /\ [][Next]_vars

-----------------------------------------------------------------------------
(* Properties.                                                             *)

TypeOK ==
    /\ state \in [Slots -> {"FREE", "ACTIVE", "DELETING", "DELETED"}]
    /\ wlock \in [Slots -> Threads \cup {NoThread}]
    /\ gen \in [Slots -> 0 .. MaxGen]
    /\ row \in [Slots -> Recs]
    /\ struct_mutex \in Threads \cup {NoThread}
    /\ free \in Seq(Slots)
    /\ head \in [KeyNos -> [Buckets -> Slots \cup {FM_NULL_SLOT}]]
    /\ next \in [KeyNos -> [Slots -> Slots \cup {FM_NULL_SLOT}]]
    /\ block \in [KeyNos -> [Buckets -> Threads \cup {NoThread}]]
    /\ key \in [Threads -> -1 .. keys]
    /\ h \in [Threads -> Slots \cup {FM_NULL_SLOT}]
    /\ ret \in [Threads -> {"none", "OK", "NOT_FOUND"}]
    /\ raced \subseteq Slots

\* Row i belongs in its chain of key k: it is visible, or an insert has linked it
\* and a rollback not yet unlinked it, or a delete has not yet unlinked it.
BelongsIn(i, k) ==
    \/ state[i] = "ACTIVE"
    \/ \E t \in Threads : /\ idx[t] = i
                          /\ \/ pc[t] \in {"ins_bucket", "ins_walk", "ins_publish"} /\ k < key[t]
                             \/ pc[t] = "ins_undo" /\ k <= key[t]
                             \/ pc[t] = "dl_unlink" /\ k >= key[t]

\* Whenever a bucket lock is free, the chain it guards ends and holds exactly the
\* rows that belong there: link, unlink, the rollback of an insert and the moves
\* of an update lose no row, leave none behind and close no cycle.
ChainsExact ==
    \A k \in KeyNos : \A b \in Buckets :
        block[k][b] = NoThread =>
            /\ Ends(k, b)
            /\ Nodes(k, b) = {i \in Slots : BelongsIn(i, k) /\ Bucket(row[i][k]) = b}

\* Two visible rows with the same value of a unique key, no part of it NULL.
Clash(i, j) ==
    /\ i # j
    /\ \E k \in Unique : row[i][k] = row[j][k] /\ row[i][k] \notin NullVals

\* fm_core_dup_check under the bucket lock keeps unique keys unique: visible rows
\* clash only if an update's check passed over a row an insert had linked and not
\* yet published.
UniqueUnlessRaced ==
    \A i, j \in Active : Clash(i, j) => raced \cap {i, j} # {}

\* A unique key has no duplicates (fm_core.h, FM_KEY_CORE: "unique").
UniqueKeys == \A i, j \in Active : ~Clash(i, j)

\* A lookup and the index_next calls after it return every row that had the
\* value all the while, unless the row the scan stood on left its chain.
LookupComplete ==
    \A t \in Threads :
        ret[t] = "NOT_FOUND" /\ ~lost[t] => stable[t] \subseteq seen[t]

\* The thread whose lock t waits for.
WaitsFor(t) ==
    CASE pc[t] \in {"ins_bucket", "ins_undo"} -> block[key[t]][NewBucket(t)]
      [] pc[t] = "up_bucket" -> block[NextLock(t)[1]][NextLock(t)[2]]
      [] pc[t] = "dl_unlink" -> block[key[t]][Bucket(row[idx[t]][key[t]])]
      [] pc[t] = "fd_lock" -> block[key[t]][WantBucket(t)]
      [] pc[t] = "lk_lock" -> wlock[idx[t]]
      [] pc[t] \in {"ins_alloc", "dl_push"} -> struct_mutex
      [] OTHER -> NoThread

\* No set of threads waits for one another: the order wlock, struct_mutex, bucket
\* locks by (key, bucket) admits no circular wait among inserts, updates, deletes
\* and lookups.
NoCircularWait ==
    \A T \in (SUBSET Threads) \ {{}} : \E t \in T : WaitsFor(t) \notin T
=============================================================================
