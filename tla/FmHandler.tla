------------------------------ MODULE FmHandler ------------------------------
(***************************************************************************)
(* The statement layer: ha_fastmem's calls between external_lock(F_WRLCK)  *)
(* and external_lock(F_UNLCK), and the row lock that makes a statement's   *)
(* read, computation and write of a row one unit.                          *)
(*                                                                         *)
(* A row is a value; the core's operations on a row are one step each, as  *)
(* their callers see them (FmRows and FmIndex have the steps inside).      *)
(* Separate steps are those that others can come between: finding a row,   *)
(* fetching its generation, taking its wlock, reading it again, writing    *)
(* it, releasing the lock.  DELETE without WHERE (fm_clear) is in FmRows.  *)
(***************************************************************************)
EXTENDS Integers, FiniteSets

CONSTANTS
    Handlers, NoHandler,
    Thd,            \* the thread that calls each handler
    Slots,          \* slot numbers of all tables
    Rows,           \* the slots of each handler's table
    Vals, Calc,     \* row values, and the value an UPDATE computes from each
    NewVals,        \* values of rows that are inserted
    NoRow,
    ReadCheck,      \* READ_CHECK_USED in each handler's opt_flag
    Calls,          \* the workload: the calls of each handler
    MaxGen          \* bound: rows of this generation are not deleted again

ASSUME HandlersAssumption == NoHandler \notin Handlers
ASSUME SlotsAssumption == Slots \subseteq Nat /\ Rows \in [Handlers -> SUBSET Slots]
ASSUME ValsAssumption == Calc \in [Vals -> Vals] /\ NoRow \notin Vals /\ NewVals \subseteq Vals /\ Vals # {}
AllCalls == {"select", "index", "scan", "pos", "insert", "update", "delete"}

ASSUME CallsAssumption == Calls \in [Handlers -> SUBSET AllCalls]
ASSUME FlagsAssumption == ReadCheck \in [Handlers -> BOOLEAN] /\ MaxGen \in Nat

NoSlot == -1
NoRef == [slot |-> NoSlot, gen |-> 0]
Blank == CHOOSE v \in Vals : TRUE

VARIABLES
    state, gen, val, wlock,         \* the slots
    write_stmt, row_locked, locked_slot,            \* of each handler
    current_slot, current_gen, scan_pos, ref,
    buf,            \* the server's record buffer
    pc,             \* where its call is, or what the last call left
    answer,         \* what its last write call returned
    lost            \* history: the row the last lookup found is deleted before the
                    \* lookup's call returns

slotVars == <<state, gen, val>>
lockVars == <<wlock, row_locked, locked_slot>>
posVars == <<current_slot, current_gen, scan_pos, ref>>
vars == <<slotVars, lockVars, write_stmt, posVars, buf, pc, answer, lost>>

\* Between calls: no statement; no row; a row just read; a row just written.
Between == {"closed", "open", "row", "again"}
Inside == {"gen", "ins_gen", "lock", "spin", "reread", "upd_lock", "del_lock", "upd", "del", "unlock"}

Init ==
    /\ state = [i \in Slots |-> "FREE"]
    /\ gen = [i \in Slots |-> 0]
    /\ val = [i \in Slots |-> Blank]
    /\ wlock = [i \in Slots |-> NoHandler]
    /\ write_stmt = [h \in Handlers |-> FALSE]
    /\ row_locked = [h \in Handlers |-> FALSE]
    /\ locked_slot = [h \in Handlers |-> NoSlot]
    /\ current_slot = [h \in Handlers |-> NoSlot]
    /\ current_gen = [h \in Handlers |-> 0]
    /\ scan_pos = [h \in Handlers |-> 0]
    /\ ref = [h \in Handlers |-> NoRef]
    /\ buf = [h \in Handlers |-> Blank]
    /\ pc = [h \in Handlers |-> "closed"]
    /\ answer = [h \in Handlers |-> "none"]
    /\ lost = [h \in Handlers |-> FALSE]

-----------------------------------------------------------------------------
Active(h) == {i \in Rows[h] : state[i] = "ACTIVE"}
Goto(h, l) == pc' = [pc EXCEPT ![h] = l]
Report(h, a) == answer' = [answer EXCEPT ![h] = a]

\* A thread makes one call at a time.
Idle(h) == \A g \in Handlers : Thd[g] = Thd[h] => pc[g] \in Between

\* h may be called in a statement.
Ready(h) == Idle(h) /\ pc[h] \in {"open", "row", "again"}
Called(h, c) == c \in Calls[h] /\ Ready(h)

\* A call that does not write.
Reads(h, c) == Called(h, c) /\ Report(h, "none")

\* unlock_current_row.
Release(h) ==
    /\ wlock' = [i \in Slots |->
                    IF row_locked[h] /\ locked_slot[h] = i THEN NoHandler ELSE wlock[i]]
    /\ row_locked' = [row_locked EXCEPT ![h] = FALSE]
    /\ locked_slot' = [locked_slot EXCEPT ![h] = NoSlot]

\* FM_SPIN::lock on the current row, and what lock_current_row records.
TakeLock(h) ==
    /\ wlock[current_slot[h]] = NoHandler
    /\ wlock' = [wlock EXCEPT ![current_slot[h]] = h]
    /\ row_locked' = [row_locked EXCEPT ![h] = TRUE]
    /\ locked_slot' = [locked_slot EXCEPT ![h] = current_slot[h]]

Owns(h) == write_stmt[h] /\ row_locked[h] /\ locked_slot[h] = current_slot[h]

-----------------------------------------------------------------------------
(* Statements.                                                             *)

\* external_lock(F_WRLCK) or (F_RDLCK), after the last statement's reset.
ExternalLock(h) ==
    /\ Idle(h) /\ pc[h] = "closed" /\ current_slot[h] = NoSlot
    /\ \/ write_stmt' = [write_stmt EXCEPT ![h] = TRUE]
       \/ "select" \in Calls[h] /\ UNCHANGED write_stmt
    /\ Goto(h, "open")
    /\ UNCHANGED <<slotVars, lockVars, posVars, buf, answer, lost>>

\* Mutant: the row lock outlives the statement.
ExternalUnlock_KeepsLock(h) ==
    /\ Ready(h)
    /\ write_stmt' = [write_stmt EXCEPT ![h] = FALSE]
    /\ Goto(h, "closed")
    /\ UNCHANGED <<slotVars, lockVars, posVars, buf, answer, lost>>

\* external_lock(F_UNLCK).
ExternalUnlock(h) ==
    /\ Ready(h)
    /\ write_stmt' = [write_stmt EXCEPT ![h] = FALSE]
    /\ Release(h)
    /\ Goto(h, "closed")
    /\ UNCHANGED <<slotVars, posVars, buf, answer, lost>>

\* reset: after F_UNLCK, or between the statements of a LOCK TABLES.
Reset(h) ==
    /\ Idle(h)
    /\ Release(h)
    /\ current_slot' = [current_slot EXCEPT ![h] = NoSlot]
    /\ scan_pos' = [scan_pos EXCEPT ![h] = 0]
    /\ ref' = [ref EXCEPT ![h] = NoRef]
    /\ buf' = [buf EXCEPT ![h] = Blank]
    /\ Goto(h, IF pc[h] = "closed" THEN "closed" ELSE "open")
    /\ Report(h, "none")
    /\ lost' = [lost EXCEPT ![h] = FALSE]
    /\ UNCHANGED <<slotVars, write_stmt, current_gen>>

-----------------------------------------------------------------------------
(* Reads.  A lookup finds a row and copies its image, then fetches the     *)
(* slot's generation; a write statement locks the row and reads it again.  *)

\* A lookup has found row i.
Hit(h, i) ==
    /\ current_slot' = [current_slot EXCEPT ![h] = i]
    /\ buf' = [buf EXCEPT ![h] = val[i]]
    /\ lost' = [lost EXCEPT ![h] = FALSE]
    /\ Goto(h, "gen")

\* No row: what the buffer holds is nobody's row.
Miss(h) ==
    /\ Goto(h, "open")
    /\ buf' = [buf EXCEPT ![h] = Blank]
    /\ lost' = [lost EXCEPT ![h] = FALSE]
    /\ UNCHANGED current_slot

\* index_read_map and its variants, index_next, find_unique_row: some row that
\* has the key, or none has it.
IndexRead(h) ==
    /\ Reads(h, "index")
    /\ (\E i \in Active(h) : Hit(h, i)) \/ Miss(h)
    /\ UNCHANGED <<slotVars, lockVars, write_stmt, current_gen, scan_pos, ref>>

RndInit(h) ==
    /\ Reads(h, "scan")
    /\ Release(h)
    /\ scan_pos' = [scan_pos EXCEPT ![h] = 0]
    /\ current_slot' = [current_slot EXCEPT ![h] = NoSlot]
    /\ Goto(h, "open")
    /\ UNCHANGED <<slotVars, write_stmt, current_gen, ref, buf, lost>>

\* The first row at or after the cursor, which ends behind the last slot.
RndNext(h) ==
    LET ahead == {i \in Active(h) : i >= scan_pos[h]}
    IN  /\ Reads(h, "scan")
        /\ \/ \E i \in ahead :
                /\ \A j \in ahead : i <= j
                /\ Hit(h, i)
                /\ scan_pos' = [scan_pos EXCEPT ![h] = i + 1]
           \/ /\ ahead = {} /\ Miss(h)
              /\ \E n \in {i + 1 : i \in Rows[h]} :
                    (\A i \in Rows[h] : i < n) /\ scan_pos' = [scan_pos EXCEPT ![h] = n]
        /\ UNCHANGED <<slotVars, lockVars, write_stmt, current_gen, ref>>

FetchGen(h) ==
    /\ pc[h] = "gen"
    /\ current_gen' = [current_gen EXCEPT ![h] = gen[current_slot[h]]]
    /\ Goto(h, IF write_stmt[h] THEN "lock" ELSE "row")
    /\ UNCHANGED <<slotVars, lockVars, write_stmt, current_slot, scan_pos, ref, buf, answer, lost>>

Position(h) ==
    /\ Reads(h, "pos") /\ pc[h] = "row"
    /\ ref' = [ref EXCEPT ![h] = [slot |-> current_slot[h], gen |-> current_gen[h]]]
    /\ UNCHANGED <<slotVars, lockVars, write_stmt, current_slot, current_gen, scan_pos, buf, pc,
                   lost>>

RndPos(h) ==
    LET i == ref[h].slot
    IN  /\ Reads(h, "pos") /\ i # NoSlot
        /\ \/ /\ state[i] = "ACTIVE" /\ gen[i] = ref[h].gen
              /\ current_slot' = [current_slot EXCEPT ![h] = i]
              /\ current_gen' = [current_gen EXCEPT ![h] = ref[h].gen]
              /\ buf' = [buf EXCEPT ![h] = val[i]]
              /\ lost' = [lost EXCEPT ![h] = FALSE]
              /\ Goto(h, IF write_stmt[h] THEN "lock" ELSE "row")
           \/ /\ state[i] # "ACTIVE" \/ gen[i] # ref[h].gen
              /\ Miss(h) /\ UNCHANGED current_gen
        /\ UNCHANGED <<slotVars, lockVars, write_stmt, scan_pos, ref>>

\* lock_current_row: the lock is held for this row already; it moves from
\* another row; it is taken.
LockHeld(h) ==
    /\ pc[h] = "lock" /\ row_locked[h] /\ locked_slot[h] = current_slot[h]
    /\ Goto(h, "reread")
    /\ UNCHANGED <<slotVars, lockVars, write_stmt, posVars, buf, answer, lost>>

\* Mutant: the old row's lock is kept.
LockMove_Keeps(h) ==
    /\ pc[h] = "lock" /\ row_locked[h] /\ locked_slot[h] # current_slot[h]
    /\ Goto(h, "spin")
    /\ UNCHANGED <<slotVars, lockVars, write_stmt, posVars, buf, answer, lost>>

LockMove(h) ==
    /\ pc[h] = "lock" /\ row_locked[h] /\ locked_slot[h] # current_slot[h]
    /\ Release(h)
    /\ Goto(h, "spin")
    /\ UNCHANGED <<slotVars, write_stmt, posVars, buf, answer, lost>>

LockTake(h) ==
    /\ pc[h] = "spin" \/ (pc[h] = "lock" /\ ~row_locked[h])
    /\ TakeLock(h)
    /\ Goto(h, "reread")
    /\ UNCHANGED <<slotVars, write_stmt, posVars, buf, answer, lost>>

\* Mutant: the image found before the lock is kept.
Reread_Skipped(h) ==
    /\ pc[h] = "reread"
    /\ Goto(h, "row")
    /\ UNCHANGED <<slotVars, lockVars, write_stmt, posVars, buf, answer, lost>>

\* fm_reread_locked, with the generation the slot has now.
Reread(h) ==
    LET i == current_slot[h]
    IN  /\ pc[h] = "reread"
        /\ \/ /\ state[i] = "ACTIVE"
              /\ current_gen' = [current_gen EXCEPT ![h] = gen[i]]
              /\ buf' = [buf EXCEPT ![h] = val[i]]
              /\ Goto(h, "row")
              /\ UNCHANGED <<lockVars, current_slot, lost>>
           \/ /\ state[i] # "ACTIVE"
              /\ Release(h)
              /\ Miss(h)
              /\ UNCHANGED current_gen
        /\ UNCHANGED <<slotVars, write_stmt, scan_pos, ref, answer>>

-----------------------------------------------------------------------------
(* Writes.                                                                 *)

\* write_row: fm_write inserts a row, or finds a duplicate or the table full.
WriteRow(h) ==
    /\ Called(h, "insert") /\ write_stmt[h]
    /\ \/ \E i \in Rows[h] \ Active(h), v \in NewVals :
            /\ state' = [state EXCEPT ![i] = "ACTIVE"]
            /\ val' = [val EXCEPT ![i] = v]
            /\ buf' = [buf EXCEPT ![h] = v]
            /\ current_slot' = [current_slot EXCEPT ![h] = i]
            /\ Report(h, "inserted")
            /\ Goto(h, "ins_gen")
       \/ /\ Report(h, "failed")
          /\ Goto(h, "open")
          /\ UNCHANGED <<state, val, buf, current_slot>>
    /\ UNCHANGED <<gen, lockVars, write_stmt, current_gen, scan_pos, ref, lost>>

InsertGen(h) ==
    /\ pc[h] = "ins_gen"
    /\ current_gen' = [current_gen EXCEPT ![h] = gen[current_slot[h]]]
    /\ Goto(h, "again")
    /\ UNCHANGED <<slotVars, lockVars, write_stmt, current_slot, scan_pos, ref, buf, answer, lost>>

\* A caller writes the row it has just read.  One whose handler checks reads may
\* also write a row it has written before, without reading it again.
MayWrite(h, c) ==
    /\ Called(h, c) /\ write_stmt[h]
    /\ pc[h] = "row" \/ (pc[h] = "again" /\ ReadCheck[h])

\* update_row, delete_row: go on under the row's lock, or take it first, or refuse.
WriteCall(h, c, locking, writing) ==
    /\ MayWrite(h, c)
    /\ \/ /\ Owns(h)
          /\ Report(h, "none") /\ Goto(h, writing) /\ UNCHANGED lockVars
       \/ /\ ~row_locked[h]
          /\ Report(h, "none") /\ Goto(h, locking) /\ UNCHANGED lockVars
       \/ /\ row_locked[h] /\ locked_slot[h] # current_slot[h]
          /\ Release(h) /\ Report(h, "failed") /\ Goto(h, "open")
    /\ UNCHANGED <<slotVars, write_stmt, posVars, buf, lost>>

UpdateRow(h) == WriteCall(h, "update", "upd_lock", "upd")
DeleteRow(h) == current_gen[h] < MaxGen /\ WriteCall(h, "delete", "del_lock", "del")

WriteLock(h) ==
    /\ \/ pc[h] = "upd_lock" /\ TakeLock(h) /\ Goto(h, "upd")
       \/ pc[h] = "del_lock" /\ TakeLock(h) /\ Goto(h, "del")
    /\ UNCHANGED <<slotVars, write_stmt, posVars, buf, answer, lost>>

\* Mutant: the image is never compared.
Same_NoImage(h) ==
    state[current_slot[h]] = "ACTIVE" /\ gen[current_slot[h]] = current_gen[h]

\* The row is the one the handler has, and its image unless reads are not checked.
Same(h) ==
    LET i == current_slot[h]
    IN  /\ state[i] = "ACTIVE" /\ gen[i] = current_gen[h]
        /\ ReadCheck[h] => val[i] = buf[h]

Refused(h) == Report(h, "failed") /\ UNCHANGED <<slotVars, current_slot, buf>>

\* fm_update_locked; a duplicate key fails as well.
Update(h) ==
    /\ pc[h] = "upd"
    /\ \/ /\ Same(h)
          /\ val' = [val EXCEPT ![current_slot[h]] = Calc[buf[h]]]
          /\ buf' = [buf EXCEPT ![h] = Calc[buf[h]]]
          /\ Report(h, "updated")
          /\ UNCHANGED <<state, gen, current_slot>>
       \/ Refused(h)
    /\ Goto(h, "unlock")
    /\ UNCHANGED <<lockVars, write_stmt, current_gen, scan_pos, ref, lost>>

\* fm_delete_locked.
Delete(h) ==
    LET i == current_slot[h]
    IN  /\ pc[h] = "del"
        /\ \/ /\ Same(h)
              /\ state' = [state EXCEPT ![i] = "FREE"]
              /\ gen' = [gen EXCEPT ![i] = @ + 1]
              /\ current_slot' = [current_slot EXCEPT ![h] = NoSlot]
              /\ lost' = [g \in Handlers |->
                    lost[g] \/ (pc[g] \in {"gen", "lock", "spin"} /\ current_slot[g] = i)]
              /\ Report(h, "deleted")
              /\ UNCHANGED <<val, buf>>
           \/ ~Same(h) /\ Refused(h) /\ UNCHANGED lost
        /\ Goto(h, "unlock")
        /\ UNCHANGED <<lockVars, write_stmt, current_gen, scan_pos, ref>>

\* Mutant: the row stays current after a delete.
Unlock_KeepsRow(h) ==
    /\ pc[h] = "unlock"
    /\ Release(h)
    /\ Goto(h, "again")
    /\ UNCHANGED <<slotVars, write_stmt, posVars, buf, answer, lost>>

Unlock(h) ==
    /\ pc[h] = "unlock"
    /\ Release(h)
    /\ IF answer[h] = "updated"
       THEN Goto(h, "again") /\ UNCHANGED <<current_slot, buf, lost>>
       ELSE Miss(h)
    /\ UNCHANGED <<slotVars, write_stmt, current_gen, scan_pos, ref, answer>>

-----------------------------------------------------------------------------
Call(h) ==
    \/ ExternalLock(h) \/ ExternalUnlock(h) \/ Reset(h)
    \/ IndexRead(h) \/ RndInit(h) \/ RndNext(h) \/ Position(h) \/ RndPos(h)
    \/ WriteRow(h) \/ UpdateRow(h) \/ DeleteRow(h)

Run(h) ==
    \/ FetchGen(h) \/ InsertGen(h) \/ LockHeld(h) \/ LockMove(h) \/ LockTake(h) \/ Reread(h)
    \/ WriteLock(h) \/ Update(h) \/ Delete(h) \/ Unlock(h)

Next == \E h \in Handlers : Call(h) \/ Run(h)

Spec == Init /\ [][Next]_vars

-----------------------------------------------------------------------------
(* Properties                                                              *)

\* Every variable has its type; a handler inside a call that uses the current
\* row has one.
TypeOK ==
    /\ state \in [Slots -> {"FREE", "ACTIVE"}]
    /\ gen \in [Slots -> Nat] /\ val \in [Slots -> Vals]
    /\ wlock \in [Slots -> Handlers \union {NoHandler}]
    /\ write_stmt \in [Handlers -> BOOLEAN] /\ row_locked \in [Handlers -> BOOLEAN]
    /\ locked_slot \in [Handlers -> Slots \union {NoSlot}]
    /\ current_slot \in [Handlers -> Slots \union {NoSlot}]
    /\ current_gen \in [Handlers -> Nat] /\ scan_pos \in [Handlers -> Nat]
    /\ ref \in [Handlers -> [slot : Slots \union {NoSlot}, gen : Nat]]
    /\ buf \in [Handlers -> Vals]
    /\ pc \in [Handlers -> Between \union Inside]
    /\ answer \in [Handlers -> {"none", "inserted", "updated", "deleted", "failed"}]
    /\ lost \in [Handlers -> BOOLEAN]
    /\ \A h \in Handlers :
        pc[h] \in (Inside \ {"unlock"}) \union {"row", "again"} => current_slot[h] # NoSlot

\* The handler's record of its row lock and the slots' wlocks agree: no lock is
\* left behind when the lock moves, a read fails, a row is recycled under its
\* lock or a statement ends, and only write statements have locks (ha_fastmem.h:24).
LocksAgree ==
    /\ \A h \in Handlers, i \in Slots :
        wlock[i] = h <=> row_locked[h] /\ locked_slot[h] = i
    /\ \A h \in Handlers : row_locked[h] => write_stmt[h]

\* The row a write statement has just read is locked by it, is still there, and
\* is what its buffer says, until it writes or reads again (fm_reread_locked).
ReadRowIsCurrent ==
    \A h \in Handlers : pc[h] = "row" /\ write_stmt[h] =>
        LET i == current_slot[h]
        IN  wlock[i] = h /\ state[i] = "ACTIVE" /\ gen[i] = current_gen[h] /\ val[i] = buf[h]

\* h spins on the wlock of its current row.
Spins(h) ==
    \/ pc[h] \in {"spin", "upd_lock", "del_lock"}
    \/ pc[h] = "lock" /\ ~row_locked[h]

\* A handler that waits for a row lock holds none: the lock of the row before is
\* given up first, and a write call that would have to wait is made without one.
NoHoldAndWait ==
    \A h \in Handlers : Spins(h) => \A i \in Slots : wlock[i] # h

WaitsFor(h) == IF Spins(h) THEN wlock[current_slot[h]] ELSE NoHandler

\* Threads never wait for each other's row locks in a circle, or for their own:
\* row locks need no order because they are released row by row (DESIGN.md:152).
NoCircularWait ==
    \A T \in SUBSET {Thd[h] : h \in Handlers} : T # {} =>
        \E t \in T : \A h \in Handlers :
            Thd[h] = t => WaitsFor(h) = NoHandler \/ Thd[WaitsFor(h)] \notin T

\* A write statement works on the row its lookup found, not on another one that
\* has got the slot since: fm_reread_locked fails if the row was deleted and the
\* slot recycled before the lock was taken (fm_data.cc:93).
RereadSameRow ==
    \A h \in Handlers : pc[h] = "row" /\ write_stmt[h] => ~lost[h]

\* Write statements are atomic on rows: no update is lost, no row is deleted
\* twice, no failed call changes anything (DESIGN.md:151).
Table == INSTANCE FmTable WITH
    Clients <- Handlers,
    rows <- [i \in Slots |-> IF state[i] = "ACTIVE" THEN val[i] ELSE NoRow]
AtomicWrites == Table!Spec
=============================================================================
