--------------------------- MODULE FmHandler_proofs ---------------------------
(***************************************************************************)
(* Proofs about FmHandler, for any number of handlers, rows and values:    *)
(* row locks are exact, a row read for writing stays as it was read, write *)
(* statements refine FmTable, and statements of one handler never deadlock.*)
(***************************************************************************)
EXTENDS FmHandler, TLAPS

\* The handler has the row as it is, and nobody can change it, for h has its lock.
Current(h) ==
    LET i == current_slot[h]
    IN  wlock[i] = h /\ state[i] = "ACTIVE" /\ gen[i] = current_gen[h] /\ val[i] = buf[h]

\* What holds of each handler: its record of its lock is right; a row it has just
\* read for writing is current; locks are asked for in write statements and with
\* none held; rows are read again and written under their lock, and a handler that
\* does not check reads only writes a row that is current; an updated row stays its
\* row.
HInv(h) ==
    /\ \A i \in Slots : wlock[i] = h <=> row_locked[h] /\ locked_slot[h] = i
    /\ row_locked[h] => write_stmt[h]
    /\ pc[h] = "row" /\ write_stmt[h] => Current(h)
    /\ pc[h] \in {"lock", "spin", "reread", "upd_lock", "del_lock", "upd", "del"} => write_stmt[h]
    /\ pc[h] \in {"spin", "upd_lock", "del_lock"} => ~row_locked[h]
    /\ pc[h] \in {"reread", "upd", "del"} => row_locked[h] /\ locked_slot[h] = current_slot[h]
    /\ pc[h] \in {"upd_lock", "del_lock"} => ReadCheck[h]
    /\ pc[h] \in {"upd", "del"} /\ ~ReadCheck[h] => Current(h)
    /\ pc[h] = "unlock" /\ answer[h] = "updated" => current_slot[h] # NoSlot

\* The inductive invariant.
IInv == TypeOK /\ \A h \in Handlers : HInv(h)

\* A step of h leaves alone what is others': their variables, their locks, and
\* rows h has not locked.
OnlyMine(h) ==
    /\ \A g \in Handlers \ {h} :
        /\ pc'[g] = pc[g] /\ write_stmt'[g] = write_stmt[g] /\ buf'[g] = buf[g]
        /\ answer'[g] = answer[g]
        /\ row_locked'[g] = row_locked[g] /\ locked_slot'[g] = locked_slot[g]
        /\ current_slot'[g] = current_slot[g] /\ current_gen'[g] = current_gen[g]
        /\ \A i \in Slots : wlock'[i] = g <=> wlock[i] = g
    /\ \A i \in Slots : state[i] = "ACTIVE" /\ wlock[i] # h =>
            state'[i] = "ACTIVE" /\ gen'[i] = gen[i] /\ val'[i] = val[i]

LEMMA NextGen == \A n \in Nat : n + 1 \in Nat
OBVIOUS

USE HandlersAssumption, SlotsAssumption, ValsAssumption, FlagsAssumption DEF NoSlot

LEMMA BlankIsVal == Blank \in Vals
BY Zenon DEF Blank

LEMMA IInvInit == Init => IInv
<1> SUFFICES ASSUME Init PROVE IInv
    BY Zenon
<1>1. TypeOK
    BY Zenon, BlankIsVal DEF Init, TypeOK, NoRef, Between, Inside
<1>2. \A h \in Handlers : HInv(h)
    BY Zenon DEF Init, HInv
<1> QED
    BY Zenon, <1>1, <1>2 DEF IInv

\* What it says: the two invariants of the runs, and that nobody waits with a lock.
LEMMA IInvFacts == IInv => LocksAgree /\ ReadRowIsCurrent /\ NoHoldAndWait
<1> SUFFICES ASSUME IInv PROVE LocksAgree /\ ReadRowIsCurrent /\ NoHoldAndWait
    BY Zenon
<1>1. LocksAgree
    BY Zenon DEF IInv, HInv, LocksAgree
<1>2. ReadRowIsCurrent
    BY Zenon DEF IInv, HInv, ReadRowIsCurrent, Current
<1>3. NoHoldAndWait
    BY Zenon DEF IInv, HInv, NoHoldAndWait, Spins
<1> QED
    BY Zenon, <1>1, <1>2, <1>3

\* The other handlers' part of the invariant is kept by a step that leaves alone
\* what is theirs.
LEMMA Combine ==
    ASSUME IInv, NEW h \in Handlers, TypeOK', OnlyMine(h), HInv(h)'
    PROVE  IInv'
<1> SUFFICES ASSUME NEW g \in Handlers, g # h PROVE HInv(g)'
    BY Zenon DEF IInv
<1>1. HInv(g) /\ TypeOK
    BY Zenon DEF IInv
<1>2. pc[g] \in {"upd", "del", "row"} => current_slot[g] \in Slots
    BY <1>1 DEF TypeOK, Inside
<1>3. current_slot[g] \in Slots /\ Current(g) => Current(g)'
  <2> SUFFICES ASSUME NEW i \in Slots, i = current_slot[g], Current(g)
               PROVE  Current(g)'
    BY Zenon
  <2>1. i = current_slot'[g] /\ current_gen'[g] = current_gen[g] /\ buf'[g] = buf[g]
    BY Zenon DEF OnlyMine
  <2>2. wlock[i] = g /\ state[i] = "ACTIVE" /\ gen[i] = current_gen[g] /\ val[i] = buf[g]
    BY Zenon DEF Current
  <2>3. wlock'[i] = g /\ state'[i] = "ACTIVE" /\ gen'[i] = gen[i] /\ val'[i] = val[i]
    BY Zenon, <2>2 DEF OnlyMine
  <2> QED
    BY Zenon, <2>1, <2>2, <2>3 DEF Current
<1> QED
    BY <1>1, <1>2, <1>3 DEF HInv, OnlyMine

-----------------------------------------------------------------------------
(* One lemma per action.                                                   *)
LEMMA HitStep ==
    ASSUME IInv, NEW h \in Handlers, NEW i \in Slots, Hit(h, i), Report(h, "none"),
           scan_pos' \in [Handlers -> Nat],
           UNCHANGED <<slotVars, lockVars, write_stmt, current_gen, ref>>
    PROVE  IInv'
<1>0. TypeOK /\ HInv(h)
  BY Zenon DEF IInv
<1>1. TypeOK'
  BY <1>0, BlankIsVal
     DEF Hit, TypeOK, Between, Inside, slotVars, lockVars, posVars, Goto, Report
<1>2. OnlyMine(h)
  BY Zenon, <1>0 DEF HInv, Hit, TypeOK, OnlyMine, Report, slotVars, lockVars, posVars, Goto
<1>3. HInv(h)'
  BY Zenon, <1>0 DEF Hit, HInv, Current, Report, TypeOK, slotVars, lockVars, posVars, Goto
<1> QED
  BY Zenon, <1>1, <1>2, <1>3, Combine

LEMMA ExternalLockStep == ASSUME IInv, NEW h \in Handlers, ExternalLock(h) PROVE IInv'
<1>0. TypeOK /\ HInv(h)
  BY Zenon DEF IInv
<1>1. TypeOK'
  BY Zenon, <1>0, BlankIsVal
     DEF ExternalLock, TypeOK, Between, Inside, slotVars, lockVars, posVars, Goto, Report
<1>2. OnlyMine(h)
  BY Zenon, <1>0 DEF HInv, ExternalLock, TypeOK, OnlyMine, Report, slotVars, lockVars, posVars, Goto
<1>3. HInv(h)'
  BY <1>0 DEF ExternalLock, HInv, Current, Report, TypeOK, slotVars, lockVars, posVars, Goto
<1> QED
  BY Zenon, <1>1, <1>2, <1>3, Combine

LEMMA ExternalUnlockStep == ASSUME IInv, NEW h \in Handlers, ExternalUnlock(h) PROVE IInv'
<1>0. TypeOK /\ HInv(h)
  BY Zenon DEF IInv
<1>1. TypeOK'
  BY Zenon, <1>0, BlankIsVal
     DEF ExternalUnlock, Ready, Release, TypeOK, Between, Inside, slotVars, lockVars,
         posVars, Goto, Report
<1>2. OnlyMine(h)
  BY <1>0
     DEF HInv, ExternalUnlock, Ready, Release, TypeOK, OnlyMine, Report, slotVars, lockVars,
         posVars, Goto
<1>3. HInv(h)'
  BY Zenon, <1>0
     DEF ExternalUnlock, Ready, Release, HInv, Current, Report, TypeOK, slotVars, lockVars,
         posVars, Goto
<1> QED
  BY Zenon, <1>1, <1>2, <1>3, Combine

LEMMA ResetStep == ASSUME IInv, NEW h \in Handlers, Reset(h) PROVE IInv'
<1>0. TypeOK /\ HInv(h)
  BY Zenon DEF IInv
<1>1. TypeOK'
  BY Zenon, <1>0, BlankIsVal
     DEF Reset, Release, NoRef, Idle, TypeOK, Between, Inside, slotVars, lockVars, posVars,
         Goto, Report
<1>2. OnlyMine(h)
  BY <1>0
     DEF HInv, Reset, Release, NoRef, Idle, TypeOK, OnlyMine, Report, slotVars, lockVars,
         posVars, Goto
<1>3. HInv(h)'
  BY Zenon, <1>0
     DEF Reset, Release, NoRef, Idle, HInv, Current, Report, TypeOK, slotVars, lockVars,
         posVars, Goto
<1> QED
  BY Zenon, <1>1, <1>2, <1>3, Combine

LEMMA IndexReadStep == ASSUME IInv, NEW h \in Handlers, IndexRead(h) PROVE IInv'
<1>1. ASSUME NEW i \in Active(h), Hit(h, i)
     PROVE  IInv'
  <2>1. i \in Slots
    BY Zenon, <1>1 DEF Active
  <2>2. scan_pos' \in [Handlers -> Nat]
    BY Zenon, <1>1, <2>1 DEF IndexRead, IInv, TypeOK
  <2> QED
    BY Zenon, <1>1, <2>1, <2>2, HitStep DEF IndexRead, Reads
<1>2. ASSUME Miss(h)
     PROVE  IInv'
  <2>0. TypeOK /\ HInv(h)
    BY Zenon DEF IInv
  <2>1. TypeOK'
    BY Zenon, <1>2, <2>0, BlankIsVal
       DEF IndexRead, Reads, Called, Ready, Miss, TypeOK, Between, Inside, slotVars,
           lockVars, posVars, Goto, Report
  <2>2. OnlyMine(h)
    BY Zenon, <1>2, <2>0
       DEF HInv, IndexRead, Reads, Called, Ready, Miss, TypeOK, OnlyMine, Report, slotVars,
           lockVars, posVars, Goto
  <2>3. HInv(h)'
    BY Zenon, <1>2, <2>0
       DEF IndexRead, Reads, Called, Ready, Miss, HInv, Current, Report, TypeOK, slotVars,
           lockVars, posVars, Goto
  <2> QED
    BY Zenon, <2>1, <2>2, <2>3, Combine
<1> QED
  BY Zenon, <1>1, <1>2 DEF IndexRead

LEMMA RndInitStep == ASSUME IInv, NEW h \in Handlers, RndInit(h) PROVE IInv'
<1>0. TypeOK /\ HInv(h)
  BY Zenon DEF IInv
<1>1. TypeOK'
  BY Zenon, <1>0, BlankIsVal
     DEF RndInit, Reads, Called, Ready, Release, TypeOK, Between, Inside, slotVars, lockVars,
         posVars, Goto, Report
<1>2. OnlyMine(h)
  BY <1>0
     DEF HInv, RndInit, Reads, Called, Ready, Release, TypeOK, OnlyMine, Report, slotVars,
         lockVars, posVars, Goto
<1>3. HInv(h)'
  BY Zenon, <1>0
     DEF RndInit, Reads, Called, Ready, Release, HInv, Current, Report, TypeOK, slotVars,
         lockVars, posVars, Goto
<1> QED
  BY Zenon, <1>1, <1>2, <1>3, Combine

LEMMA RndNextStep == ASSUME IInv, NEW h \in Handlers, RndNext(h) PROVE IInv'
<1>1. ASSUME NEW i \in Active(h), Hit(h, i), scan_pos' = [scan_pos EXCEPT ![h] = i + 1]
     PROVE  IInv'
  <2>1. i \in Slots
    BY Zenon, <1>1 DEF Active
  <2>2. scan_pos' \in [Handlers -> Nat]
    BY <1>1, <2>1 DEF RndNext, IInv, TypeOK
  <2> QED
    BY Zenon, <1>1, <2>1, <2>2, HitStep DEF RndNext, Reads
<1>2. ASSUME NEW n \in Nat, Miss(h), scan_pos' = [scan_pos EXCEPT ![h] = n]
     PROVE  IInv'
  <2>0. TypeOK /\ HInv(h)
    BY Zenon DEF IInv
  <2>1. TypeOK'
    BY Zenon, <1>2, <2>0, BlankIsVal
       DEF RndNext, Reads, Called, Ready, Miss, TypeOK, Between, Inside, slotVars, lockVars,
           posVars, Goto, Report
  <2>2. OnlyMine(h)
    BY Zenon, <1>2, <2>0
       DEF HInv, RndNext, Reads, Called, Ready, Miss, TypeOK, OnlyMine, Report, slotVars,
           lockVars, posVars, Goto
  <2>3. HInv(h)'
    BY Zenon, <1>2, <2>0
       DEF RndNext, Reads, Called, Ready, Miss, HInv, Current, Report, TypeOK, slotVars,
           lockVars, posVars, Goto
  <2> QED
    BY Zenon, <2>1, <2>2, <2>3, Combine
<1> QED
  BY <1>1, <1>2 DEF RndNext, Active

LEMMA PositionStep == ASSUME IInv, NEW h \in Handlers, Position(h) PROVE IInv'
<1>0. TypeOK /\ HInv(h)
  BY Zenon DEF IInv
<1>1. TypeOK'
  BY Zenon, <1>0, BlankIsVal
     DEF Position, Reads, Called, Ready, TypeOK, Between, Inside, slotVars, lockVars,
         posVars, Goto, Report
<1>2. OnlyMine(h)
  BY Zenon, <1>0
     DEF HInv, Position, Reads, Called, Ready, TypeOK, OnlyMine, Report, slotVars, lockVars,
         posVars, Goto
<1>3. HInv(h)'
  BY Zenon, <1>0
     DEF Position, Reads, Called, Ready, HInv, Current, Report, TypeOK, slotVars, lockVars,
         posVars, Goto
<1> QED
  BY Zenon, <1>1, <1>2, <1>3, Combine

LEMMA RndPosStep == ASSUME IInv, NEW h \in Handlers, RndPos(h) PROVE IInv'
<1>1. ASSUME NEW i \in Slots, i = ref[h].slot,
            current_slot' = [current_slot EXCEPT ![h] = i],
            current_gen' = [current_gen EXCEPT ![h] = ref[h].gen],
            buf' = [buf EXCEPT ![h] = val[i]], lost' = [lost EXCEPT ![h] = FALSE],
            Goto(h, IF write_stmt[h] THEN "lock" ELSE "row")
     PROVE  IInv'
  <2>0. TypeOK /\ HInv(h)
    BY Zenon DEF IInv
  <2>1. TypeOK'
    BY Zenon, <1>1, <2>0, BlankIsVal
       DEF RndPos, Reads, Called, Ready, TypeOK, Between, Inside, slotVars, lockVars,
           posVars, Goto, Report
  <2>2. OnlyMine(h)
    BY Zenon, <1>1, <2>0
       DEF HInv, RndPos, Reads, Called, Ready, TypeOK, OnlyMine, Report, slotVars, lockVars,
           posVars, Goto
  <2>3. HInv(h)'
    BY Zenon, <1>1, <2>0
       DEF RndPos, Reads, Called, Ready, HInv, Current, Report, TypeOK, slotVars, lockVars,
           posVars, Goto
  <2> QED
    BY Zenon, <2>1, <2>2, <2>3, Combine
<1>2. ASSUME Miss(h), UNCHANGED current_gen
     PROVE  IInv'
  <2>0. TypeOK /\ HInv(h)
    BY Zenon DEF IInv
  <2>1. TypeOK'
    BY Zenon, <1>2, <2>0, BlankIsVal
       DEF RndPos, Reads, Called, Ready, Miss, TypeOK, Between, Inside, slotVars, lockVars,
           posVars, Goto, Report
  <2>2. OnlyMine(h)
    BY Zenon, <1>2, <2>0
       DEF HInv, RndPos, Reads, Called, Ready, Miss, TypeOK, OnlyMine, Report, slotVars,
           lockVars, posVars, Goto
  <2>3. HInv(h)'
    BY Zenon, <1>2, <2>0
       DEF RndPos, Reads, Called, Ready, Miss, HInv, Current, Report, TypeOK, slotVars,
           lockVars, posVars, Goto
  <2> QED
    BY Zenon, <2>1, <2>2, <2>3, Combine
<1> QED
  BY Zenon, <1>1, <1>2 DEF RndPos, IInv, TypeOK

LEMMA FetchGenStep == ASSUME IInv, NEW h \in Handlers, FetchGen(h) PROVE IInv'
<1>0. TypeOK /\ HInv(h)
  BY Zenon DEF IInv
<1>1. TypeOK'
  BY Zenon, <1>0, BlankIsVal
     DEF FetchGen, TypeOK, Between, Inside, slotVars, lockVars, posVars, Goto, Report
<1>2. OnlyMine(h)
  BY Zenon, <1>0 DEF HInv, FetchGen, TypeOK, OnlyMine, Report, slotVars, lockVars, posVars, Goto
<1>3. HInv(h)'
  BY Zenon, <1>0 DEF FetchGen, HInv, Current, Report, TypeOK, slotVars, lockVars, posVars, Goto
<1> QED
  BY Zenon, <1>1, <1>2, <1>3, Combine

LEMMA LockHeldStep == ASSUME IInv, NEW h \in Handlers, LockHeld(h) PROVE IInv'
<1>0. TypeOK /\ HInv(h)
  BY Zenon DEF IInv
<1>1. TypeOK'
  BY Zenon, <1>0, BlankIsVal
     DEF LockHeld, TypeOK, Between, Inside, slotVars, lockVars, posVars, Goto, Report
<1>2. OnlyMine(h)
  BY Zenon, <1>0 DEF HInv, LockHeld, TypeOK, OnlyMine, Report, slotVars, lockVars, posVars, Goto
<1>3. HInv(h)'
  BY Zenon, <1>0 DEF LockHeld, HInv, Current, Report, TypeOK, slotVars, lockVars, posVars, Goto
<1> QED
  BY Zenon, <1>1, <1>2, <1>3, Combine

LEMMA LockMoveStep == ASSUME IInv, NEW h \in Handlers, LockMove(h) PROVE IInv'
<1>0. TypeOK /\ HInv(h)
  BY Zenon DEF IInv
<1>1. TypeOK'
  BY Zenon, <1>0, BlankIsVal
     DEF LockMove, Release, TypeOK, Between, Inside, slotVars, lockVars, posVars, Goto,
         Report
<1>2. OnlyMine(h)
  BY <1>0
     DEF HInv, LockMove, Release, TypeOK, OnlyMine, Report, slotVars, lockVars, posVars, Goto
<1>3. HInv(h)'
  BY Zenon, <1>0
     DEF LockMove, Release, HInv, Current, Report, TypeOK, slotVars, lockVars, posVars, Goto
<1> QED
  BY Zenon, <1>1, <1>2, <1>3, Combine

LEMMA LockTakeStep == ASSUME IInv, NEW h \in Handlers, LockTake(h) PROVE IInv'
<1>0. TypeOK /\ HInv(h)
  BY Zenon DEF IInv
<1>1. TypeOK'
  BY Zenon, <1>0, BlankIsVal
     DEF LockTake, TakeLock, TypeOK, Between, Inside, slotVars, lockVars, posVars, Goto,
         Report
<1>2. OnlyMine(h)
  BY Zenon, <1>0
     DEF HInv, LockTake, TakeLock, TypeOK, OnlyMine, Report, slotVars, lockVars, posVars,
         Goto
<1>3. HInv(h)'
  BY Zenon, <1>0
     DEF LockTake, TakeLock, HInv, Current, Report, TypeOK, slotVars, lockVars, posVars, Goto
<1> QED
  BY Zenon, <1>1, <1>2, <1>3, Combine

LEMMA RereadStep == ASSUME IInv, NEW h \in Handlers, Reread(h) PROVE IInv'
<1>3. current_slot[h] \in Slots
  BY Zenon DEF Reread, IInv, TypeOK, Inside
<1>0. wlock[current_slot[h]] = h /\ current_slot[h] \in Slots
  BY Zenon, <1>3 DEF Reread, IInv, HInv
<1>1. ASSUME wlock[current_slot[h]] = h, current_slot[h] \in Slots, state[current_slot[h]] = "ACTIVE",
            current_gen' = [current_gen EXCEPT ![h] = gen[current_slot[h]]],
            buf' = [buf EXCEPT ![h] = val[current_slot[h]]],
            Goto(h, "row"), UNCHANGED <<lockVars, current_slot, lost>>
     PROVE  IInv'
  <2>0. TypeOK /\ HInv(h)
    BY Zenon DEF IInv
  <2>1. TypeOK'
    BY Zenon, <1>1, <2>0, BlankIsVal
       DEF Reread, TypeOK, Between, Inside, slotVars, lockVars, posVars, Goto, Report
  <2>2. OnlyMine(h)
    BY Zenon, <1>1, <2>0
    DEF HInv, Reread, TypeOK, OnlyMine, Report, slotVars, lockVars, posVars, Goto
  <2>3. HInv(h)'
    BY Zenon, <1>1, <2>0
    DEF Reread, HInv, Current, Report, TypeOK, slotVars, lockVars, posVars, Goto
  <2> QED
    BY Zenon, <2>1, <2>2, <2>3, Combine
<1>2. ASSUME Release(h), Miss(h), UNCHANGED current_gen
     PROVE  IInv'
  <2>0. TypeOK /\ HInv(h)
    BY Zenon DEF IInv
  <2>1. TypeOK'
    BY Zenon, <1>2, <2>0, BlankIsVal
       DEF Reread, Release, Miss, TypeOK, Between, Inside, slotVars, lockVars, posVars, Goto,
           Report
  <2>2. OnlyMine(h)
    BY <1>2, <2>0
       DEF HInv, Reread, Release, Miss, TypeOK, OnlyMine, Report, slotVars, lockVars,
           posVars, Goto
  <2>3. HInv(h)'
    BY Zenon, <1>2, <2>0
       DEF Reread, Release, Miss, HInv, Current, Report, TypeOK, slotVars, lockVars, posVars,
           Goto
  <2> QED
    BY Zenon, <2>1, <2>2, <2>3, Combine
<1> QED
  BY Zenon, <1>0, <1>1, <1>2 DEF Reread

LEMMA WriteRowStep == ASSUME IInv, NEW h \in Handlers, WriteRow(h) PROVE IInv'
<1>1. ASSUME UNCHANGED <<gen, lockVars, write_stmt, current_gen, scan_pos, ref, lost>>,
            NEW i \in Rows[h], state[i] # "ACTIVE", NEW v \in NewVals,
            state' = [state EXCEPT ![i] = "ACTIVE"], val' = [val EXCEPT ![i] = v],
            buf' = [buf EXCEPT ![h] = v], current_slot' = [current_slot EXCEPT ![h] = i],
            Report(h, "inserted"), Goto(h, "ins_gen")
     PROVE  IInv'
  <2>0. TypeOK /\ HInv(h)
    BY Zenon DEF IInv
  <2>1. TypeOK'
    BY <1>1, <2>0, BlankIsVal
       DEF Called, TypeOK, Between, Inside, slotVars, lockVars, posVars, Goto, Report
  <2>2. OnlyMine(h)
    BY Zenon, <1>1, <2>0
    DEF HInv, Called, TypeOK, OnlyMine, Report, slotVars, lockVars, posVars, Goto
  <2>3. HInv(h)'
    BY Zenon, <1>1, <2>0
    DEF Called, HInv, Current, Report, TypeOK, slotVars, lockVars, posVars, Goto
  <2> QED
    BY Zenon, <2>1, <2>2, <2>3, Combine
<1>2. ASSUME Report(h, "failed"), Goto(h, "open"), UNCHANGED <<state, val, buf, current_slot>>
     PROVE  IInv'
  <2>0. TypeOK /\ HInv(h)
    BY Zenon DEF IInv
  <2>1. TypeOK'
    BY Zenon, <1>2, <2>0, BlankIsVal
       DEF Called, WriteRow, TypeOK, Between, Inside, slotVars, lockVars, posVars, Goto,
           Report
  <2>2. OnlyMine(h)
    BY Zenon, <1>2, <2>0
       DEF HInv, Called, WriteRow, TypeOK, OnlyMine, Report, slotVars, lockVars, posVars,
           Goto
  <2>3. HInv(h)'
    BY Zenon, <1>2, <2>0
       DEF Called, WriteRow, HInv, Current, Report, TypeOK, slotVars, lockVars, posVars, Goto
  <2> QED
    BY Zenon, <2>1, <2>2, <2>3, Combine
<1> QED
  BY Zenon, <1>1, <1>2 DEF WriteRow, Active

LEMMA InsertGenStep == ASSUME IInv, NEW h \in Handlers, InsertGen(h) PROVE IInv'
<1>0. TypeOK /\ HInv(h)
  BY Zenon DEF IInv
<1>1. TypeOK'
  BY Zenon, <1>0, BlankIsVal
     DEF InsertGen, TypeOK, Between, Inside, slotVars, lockVars, posVars, Goto, Report
<1>2. OnlyMine(h)
  BY Zenon, <1>0 DEF HInv, InsertGen, TypeOK, OnlyMine, Report, slotVars, lockVars, posVars, Goto
<1>3. HInv(h)'
  BY Zenon, <1>0 DEF InsertGen, HInv, Current, Report, TypeOK, slotVars, lockVars, posVars, Goto
<1> QED
  BY Zenon, <1>1, <1>2, <1>3, Combine

LEMMA WriteCallStep ==
    ASSUME IInv, NEW h \in Handlers, NEW c,
           NEW locking \in {"upd_lock", "del_lock"}, NEW writing \in {"upd", "del"},
           WriteCall(h, c, locking, writing)
    PROVE  IInv'
<1>1. ASSUME Owns(h), Report(h, "none"), Goto(h, writing), UNCHANGED lockVars
     PROVE  IInv'
  <2>0. TypeOK /\ HInv(h)
    BY Zenon DEF IInv
  <2>1. TypeOK'
    BY Zenon, <1>1, <2>0, BlankIsVal
       DEF WriteCall, MayWrite, Called, Ready, Owns, TypeOK, Between, Inside, slotVars,
           lockVars, posVars, Goto, Report
  <2>2. OnlyMine(h)
    BY Zenon, <1>1, <2>0
       DEF HInv, WriteCall, MayWrite, Called, Ready, Owns, TypeOK, OnlyMine, Report,
           slotVars, lockVars, posVars, Goto
  <2>3. HInv(h)'
    BY Zenon, <1>1, <2>0
       DEF WriteCall, MayWrite, Called, Ready, Owns, HInv, Current, Report, TypeOK, slotVars,
           lockVars, posVars, Goto
  <2> QED
    BY Zenon, <2>1, <2>2, <2>3, Combine
<1>2. ASSUME ~row_locked[h], Report(h, "none"), Goto(h, locking), UNCHANGED lockVars
     PROVE  IInv'
  <2>0. TypeOK /\ HInv(h)
    BY Zenon DEF IInv
  <2>1. TypeOK'
    BY Zenon, <1>2, <2>0, BlankIsVal
       DEF WriteCall, MayWrite, Called, Ready, TypeOK, Between, Inside, slotVars, lockVars,
           posVars, Goto, Report
  <2>2. OnlyMine(h)
    BY Zenon, <1>2, <2>0
       DEF HInv, WriteCall, MayWrite, Called, Ready, TypeOK, OnlyMine, Report, slotVars,
           lockVars, posVars, Goto
  <2>3. HInv(h)'
    BY <1>2, <2>0
       DEF WriteCall, MayWrite, Called, Ready, HInv, Current, Report, TypeOK, slotVars,
           lockVars, posVars, Goto
  <2> QED
    BY Zenon, <2>1, <2>2, <2>3, Combine
<1>3. ASSUME Release(h), Report(h, "failed"), Goto(h, "open")
     PROVE  IInv'
  <2>0. TypeOK /\ HInv(h)
    BY Zenon DEF IInv
  <2>1. TypeOK'
    BY Zenon, <1>3, <2>0, BlankIsVal
       DEF WriteCall, MayWrite, Called, Ready, Release, TypeOK, Between, Inside, slotVars,
           lockVars, posVars, Goto, Report
  <2>2. OnlyMine(h)
    BY <1>3, <2>0
       DEF HInv, WriteCall, MayWrite, Called, Ready, Release, TypeOK, OnlyMine, Report,
           slotVars, lockVars, posVars, Goto
  <2>3. HInv(h)'
    BY <1>3, <2>0
       DEF WriteCall, MayWrite, Called, Ready, Release, HInv, Current, Report, TypeOK,
           slotVars, lockVars, posVars, Goto
  <2> QED
    BY Zenon, <2>1, <2>2, <2>3, Combine
<1> QED
  BY Zenon, <1>1, <1>2, <1>3 DEF WriteCall

LEMMA WriteLockStep == ASSUME IInv, NEW h \in Handlers, WriteLock(h) PROVE IInv'
<1>1. ASSUME pc[h] = "upd_lock", TakeLock(h), Goto(h, "upd")
     PROVE  IInv'
  <2>0. TypeOK /\ HInv(h)
    BY Zenon DEF IInv
  <2>1. TypeOK'
    BY Zenon, <1>1, <2>0, BlankIsVal
       DEF WriteLock, TakeLock, TypeOK, Between, Inside, slotVars, lockVars, posVars, Goto,
           Report
  <2>2. OnlyMine(h)
    BY Zenon, <1>1, <2>0
       DEF HInv, WriteLock, TakeLock, TypeOK, OnlyMine, Report, slotVars, lockVars, posVars,
           Goto
  <2>3. HInv(h)'
    BY Zenon, <1>1, <2>0
       DEF WriteLock, TakeLock, HInv, Current, Report, TypeOK, slotVars, lockVars, posVars,
           Goto
  <2> QED
    BY Zenon, <2>1, <2>2, <2>3, Combine
<1>2. ASSUME pc[h] = "del_lock", TakeLock(h), Goto(h, "del")
     PROVE  IInv'
  <2>0. TypeOK /\ HInv(h)
    BY Zenon DEF IInv
  <2>1. TypeOK'
    BY Zenon, <1>2, <2>0, BlankIsVal
       DEF WriteLock, TakeLock, TypeOK, Between, Inside, slotVars, lockVars, posVars, Goto,
           Report
  <2>2. OnlyMine(h)
    BY Zenon, <1>2, <2>0
       DEF HInv, WriteLock, TakeLock, TypeOK, OnlyMine, Report, slotVars, lockVars, posVars,
           Goto
  <2>3. HInv(h)'
    BY Zenon, <1>2, <2>0
       DEF WriteLock, TakeLock, HInv, Current, Report, TypeOK, slotVars, lockVars, posVars,
           Goto
  <2> QED
    BY Zenon, <2>1, <2>2, <2>3, Combine
<1> QED
  BY Zenon, <1>1, <1>2 DEF WriteLock

LEMMA UpdateStep == ASSUME IInv, NEW h \in Handlers, Update(h) PROVE IInv'
<1>0. current_slot[h] \in Slots
  BY Zenon DEF Update, IInv, TypeOK, Inside
<1>1. ASSUME current_slot[h] \in Slots, pc[h] = "upd", Same(h), Goto(h, "unlock"),
            UNCHANGED <<lockVars, write_stmt, current_gen, scan_pos, ref, lost>>,
            val' = [val EXCEPT ![current_slot[h]] = Calc[buf[h]]],
            buf' = [buf EXCEPT ![h] = Calc[buf[h]]], Report(h, "updated"),
            UNCHANGED <<state, gen, current_slot>>
     PROVE  IInv'
  <2>0. TypeOK /\ HInv(h)
    BY Zenon DEF IInv
  <2>1. TypeOK'
    BY Zenon, <1>1, <2>0, BlankIsVal
       DEF Goto, Same, TypeOK, Between, Inside, slotVars, lockVars, posVars, Report
  <2>2. OnlyMine(h)
    BY <1>1, <2>0 DEF HInv, Goto, Same, TypeOK, OnlyMine, Report, slotVars, lockVars, posVars
  <2>3. HInv(h)'
    BY <1>1, <2>0 DEF Goto, Same, HInv, Current, Report, TypeOK, slotVars, lockVars, posVars
  <2> QED
    BY Zenon, <2>1, <2>2, <2>3, Combine
<1>2. ASSUME Refused(h)
     PROVE  IInv'
  <2>0. TypeOK /\ HInv(h)
    BY Zenon DEF IInv
  <2>1. TypeOK'
    BY Zenon, <1>2, <2>0, BlankIsVal
       DEF Goto, Update, Refused, TypeOK, Between, Inside, slotVars, lockVars, posVars,
           Report
  <2>2. OnlyMine(h)
    BY Zenon, <1>2, <2>0
       DEF HInv, Goto, Update, Refused, TypeOK, OnlyMine, Report, slotVars, lockVars, posVars
  <2>3. HInv(h)'
    BY Zenon, <1>2, <2>0
       DEF Goto, Update, Refused, HInv, Current, Report, TypeOK, slotVars, lockVars, posVars
  <2> QED
    BY Zenon, <2>1, <2>2, <2>3, Combine
<1> QED
  BY Zenon, <1>0, <1>1, <1>2 DEF Update

LEMMA DeleteStep == ASSUME IInv, NEW h \in Handlers, Delete(h) PROVE IInv'
<1>0. current_slot[h] \in Slots
  BY Zenon DEF Delete, IInv, TypeOK, Inside
<1>1. ASSUME current_slot[h] \in Slots, pc[h] = "del", Goto(h, "unlock"),
            UNCHANGED <<lockVars, write_stmt, current_gen, scan_pos, ref>>,
            state' = [state EXCEPT ![current_slot[h]] = "FREE"],
            gen' = [gen EXCEPT ![current_slot[h]] = @ + 1],
            current_slot' = [current_slot EXCEPT ![h] = NoSlot],
            lost' \in [Handlers -> BOOLEAN], Report(h, "deleted"), UNCHANGED <<val, buf>>
     PROVE  IInv'
  <2>0. TypeOK /\ HInv(h)
    BY Zenon DEF IInv
  <2>1. current_slot[h] \in Slots /\ gen \in [Slots -> Nat]
    BY Zenon, <1>1, <2>0 DEF TypeOK
  <2>2. gen[current_slot[h]] \in Nat
    BY Zenon, <2>1
  <2>3. gen[current_slot[h]] + 1 \in Nat /\ gen \in [Slots -> Nat]
    BY Zenon, <2>1, <2>2, NextGen
  <2>4. gen' = [gen EXCEPT ![current_slot[h]] = gen[current_slot[h]] + 1]
    BY Zenon, <1>1
  <2>5. gen' \in [Slots -> Nat]
    BY Zenon, <2>3, <2>4
  <2>6. gen' \in [Slots -> Nat] /\ state' \in [Slots -> {"FREE", "ACTIVE"}]
    BY Zenon, <1>1, <2>0, <2>5 DEF TypeOK
  <2>7. current_slot' \in [Handlers -> Slots \union {NoSlot}]
    BY Zenon, <1>1, <2>0 DEF TypeOK
  <2>8. TypeOK'
    BY Zenon, <1>1, <2>0, <2>6, <2>7
       DEF TypeOK, Between, Inside, lockVars, Goto, Report
  <2>9. OnlyMine(h)
    BY Zenon, <1>1, <2>0 DEF HInv, Goto, TypeOK, OnlyMine, Report, slotVars, lockVars, posVars
  <2>10. HInv(h)'
    BY Zenon, <1>1, <2>0 DEF Goto, HInv, Current, Report, TypeOK, slotVars, lockVars, posVars
  <2> QED
    BY Zenon, <2>8, <2>9, <2>10, Combine
<1>2. ASSUME Refused(h), UNCHANGED lost
     PROVE  IInv'
  <2>0. TypeOK /\ HInv(h)
    BY Zenon DEF IInv
  <2>1. TypeOK'
    BY Zenon, <1>2, <2>0, BlankIsVal
       DEF Goto, Delete, Refused, TypeOK, Between, Inside, slotVars, lockVars, posVars,
           Report
  <2>2. OnlyMine(h)
    BY Zenon, <1>2, <2>0
       DEF HInv, Goto, Delete, Refused, TypeOK, OnlyMine, Report, slotVars, lockVars, posVars
  <2>3. HInv(h)'
    BY ZenonT(30), <1>2, <2>0
       DEF Goto, Delete, Refused, HInv, Current, Report, TypeOK, slotVars, lockVars, posVars
  <2> QED
    BY Zenon, <2>1, <2>2, <2>3, Combine
<1> QED
  BY ZenonT(30), <1>0, <1>1, <1>2 DEF Delete, IInv, TypeOK

LEMMA UnlockStep == ASSUME IInv, NEW h \in Handlers, Unlock(h) PROVE IInv'
<1>1. ASSUME pc[h] = "unlock", Release(h), answer[h] = "updated",
            UNCHANGED <<slotVars, write_stmt, current_gen, scan_pos, ref, answer>>, Goto(h, "again"), UNCHANGED <<current_slot, buf, lost>>
     PROVE  IInv'
  <2>0. TypeOK /\ HInv(h)
    BY Zenon DEF IInv
  <2>1. TypeOK'
    BY Zenon, <1>1, <2>0, BlankIsVal
       DEF HInv, Release, TypeOK, Between, Inside, slotVars, lockVars, posVars, Goto, Report
  <2>2. OnlyMine(h)
    BY <1>1, <2>0 DEF HInv, Release, TypeOK, OnlyMine, Report, slotVars, lockVars, posVars, Goto
  <2>3. HInv(h)'
    BY Zenon, <1>1, <2>0
    DEF HInv, Release, Current, Report, TypeOK, slotVars, lockVars, posVars, Goto
  <2> QED
    BY Zenon, <2>1, <2>2, <2>3, Combine
<1>2. ASSUME Miss(h)
     PROVE  IInv'
  <2>0. TypeOK /\ HInv(h)
    BY Zenon DEF IInv
  <2>1. TypeOK'
    BY Zenon, <1>2, <2>0, BlankIsVal
       DEF HInv, Release, Unlock, Miss, TypeOK, Between, Inside, slotVars, lockVars, posVars,
           Goto, Report
  <2>2. OnlyMine(h)
    BY <1>2, <2>0
       DEF HInv, Release, Unlock, Miss, TypeOK, OnlyMine, Report, slotVars, lockVars,
           posVars, Goto
  <2>3. HInv(h)'
    BY Zenon, <1>2, <2>0
       DEF HInv, Release, Unlock, Miss, Current, Report, TypeOK, slotVars, lockVars, posVars,
           Goto
  <2> QED
    BY Zenon, <2>1, <2>2, <2>3, Combine
<1> QED
  BY Zenon, <1>1, <1>2 DEF Unlock

-----------------------------------------------------------------------------
LEMMA Inductive == IInv /\ [Next]_vars => IInv'
<1> SUFFICES ASSUME IInv, [Next]_vars PROVE IInv'
    BY Zenon
<1>0. CASE UNCHANGED vars
    BY <1>0 DEF vars, slotVars, lockVars, posVars, IInv, TypeOK, HInv, Current
<1>1. ASSUME NEW h \in Handlers, Call(h) PROVE IInv'
    BY Zenon, <1>1, ExternalLockStep, ExternalUnlockStep, ResetStep, IndexReadStep, RndInitStep,
       RndNextStep, PositionStep, RndPosStep, WriteRowStep, WriteCallStep
       DEF Call, UpdateRow, DeleteRow
<1>2. ASSUME NEW h \in Handlers, Run(h) PROVE IInv'
    BY Zenon, <1>2, FetchGenStep, InsertGenStep, LockHeldStep, LockMoveStep, LockTakeStep,
      RereadStep,
       WriteLockStep, UpdateStep, DeleteStep, UnlockStep DEF Run
<1> QED
    BY Zenon, <1>0, <1>1, <1>2 DEF Next

LEMMA Invariance == Spec => []IInv
BY IInvInit, Inductive, PTL DEF Spec

\* Type correctness of the statement layer (ha_fastmem.cc).
THEOREM TypeCorrect == Spec => []TypeOK
<1>1. IInv => TypeOK
    BY Zenon DEF IInv
<1> QED
    BY <1>1, Invariance, PTL

\* Row locks are exact: unlock_current_row, wherever it is called, leaves no lock
\* behind and frees no lock of another handler.
THEOREM LocksExact == Spec => []LocksAgree
<1>1. IInv => LocksAgree
    BY Zenon, IInvFacts
<1> QED
    BY <1>1, Invariance, PTL

\* What fm_reread_locked returns to a write statement is the row, and stays it
\* until the statement writes or moves on.
THEOREM ReadsStay == Spec => []ReadRowIsCurrent
<1>1. IInv => ReadRowIsCurrent
    BY Zenon, IInvFacts
<1> QED
    BY <1>1, Invariance, PTL

\* lock_current_row never spins with another row's lock held.
THEOREM NeverHoldsAndWaits == Spec => []NoHoldAndWait
<1>1. IInv => NoHoldAndWait
    BY Zenon, IInvFacts
<1> QED
    BY <1>1, Invariance, PTL

\* Threads that each use one handler never wait in a circle: DESIGN.md:152 holds of
\* statements that write one table.  (HandlerJoin shows that it fails for others.)
THEOREM DeadlockFree ==
    ASSUME \A g, h \in Handlers : Thd[g] = Thd[h] => g = h
    PROVE  Spec => []NoCircularWait
<1>1. IInv => NoCircularWait
  <2> SUFFICES ASSUME IInv, NEW T \in SUBSET {Thd[h] : h \in Handlers}, T # {}
               PROVE  \E t \in T : \A h \in Handlers :
                        Thd[h] = t => WaitsFor(h) = NoHandler \/ Thd[WaitsFor(h)] \notin T
    BY Zenon DEF NoCircularWait
  <2>1. NoHoldAndWait /\ TypeOK
    BY Zenon, IInvFacts DEF IInv
  <2>2. \A h \in Handlers : WaitsFor(h) \in Handlers \union {NoHandler}
    BY Zenon, <2>1 DEF WaitsFor, Spins, TypeOK, Inside
  <2>3. \A h \in Handlers : WaitsFor(h) \in Handlers => WaitsFor(WaitsFor(h)) = NoHandler
    BY ZenonT(30), <2>1 DEF WaitsFor, NoHoldAndWait, Spins, TypeOK, Inside
  <2>4. PICK h \in Handlers : Thd[h] \in T
    OBVIOUS
  <2>5. CASE WaitsFor(h) = NoHandler \/ Thd[WaitsFor(h)] \notin T
    BY Zenon, <2>4, <2>5
  <2>6. CASE WaitsFor(h) # NoHandler /\ Thd[WaitsFor(h)] \in T
    <3>1. WaitsFor(h) \in Handlers
      BY Zenon, <2>2, <2>6
    <3> QED
      BY Zenon, <3>1, <2>3, <2>6
  <2> QED
    BY Zenon, <2>5, <2>6
<1> QED
    BY <1>1, Invariance, PTL

-----------------------------------------------------------------------------
(* Refinement.  Steps that leave the slots alone begin a call of the table, *)
(* fail or stutter; the others are its insert, update and delete.          *)
TableStep == Table!Next \/ UNCHANGED Table!vars

LEMMA QuietStep ==
    ASSUME NEW h \in Handlers, UNCHANGED slotVars,
           UNCHANGED answer \/ Report(h, "none") \/ Report(h, "failed")
    PROVE  TableStep
BY Zenon
DEF TableStep, slotVars, Report, Table!vars, Table!Next, Table!Begin, Table!Fail, Table!Report

LEMMA InsertRefines ==
    ASSUME TypeOK, NEW h \in Handlers, NEW i \in Slots, state[i] # "ACTIVE", NEW v \in Vals,
           state' = [state EXCEPT ![i] = "ACTIVE"], val' = [val EXCEPT ![i] = v],
           Report(h, "inserted")
    PROVE  Table!Insert(h)
<1>1. \A j \in Slots : (IF state'[j] = "ACTIVE" THEN val'[j] ELSE NoRow)
        = IF j = i THEN v ELSE IF state[j] = "ACTIVE" THEN val[j] ELSE NoRow
  BY Zenon DEF TypeOK
<1>2. [j \in Slots |-> IF state'[j] = "ACTIVE" THEN val'[j] ELSE NoRow]
        = [[j \in Slots |-> IF state[j] = "ACTIVE" THEN val[j] ELSE NoRow] EXCEPT ![i] = v]
  BY Zenon, <1>1
<1>3. (IF state[i] = "ACTIVE" THEN val[i] ELSE NoRow) = NoRow
  BY Zenon DEF TypeOK
<1> QED
  BY Zenon, <1>2, <1>3 DEF Report, Table!Insert, Table!Report

LEMMA UpdateRefines ==
    ASSUME TypeOK, NEW h \in Handlers, NEW i \in Slots, state[i] = "ACTIVE",
           val' = [val EXCEPT ![i] = Calc[val[i]]], UNCHANGED state, Report(h, "updated")
    PROVE  Table!Update(h)
<1>1. \A j \in Slots : (IF state'[j] = "ACTIVE" THEN val'[j] ELSE NoRow)
        = IF j = i THEN Calc[val[i]] ELSE IF state[j] = "ACTIVE" THEN val[j] ELSE NoRow
  BY Zenon DEF TypeOK
<1>2. [j \in Slots |-> IF state'[j] = "ACTIVE" THEN val'[j] ELSE NoRow]
        = [[j \in Slots |-> IF state[j] = "ACTIVE" THEN val[j] ELSE NoRow] EXCEPT ![i] = Calc[val[i]]]
  BY Zenon, <1>1
<1>3. (IF state[i] = "ACTIVE" THEN val[i] ELSE NoRow) = val[i] /\ val[i] # NoRow
  BY Zenon DEF TypeOK
<1> QED
  BY Zenon, <1>2, <1>3 DEF Report, Table!Update, Table!Report

LEMMA DeleteRefines ==
    ASSUME TypeOK, NEW h \in Handlers, NEW i \in Slots, state[i] = "ACTIVE",
           state' = [state EXCEPT ![i] = "FREE"], UNCHANGED val, Report(h, "deleted")
    PROVE  Table!Delete(h)
<1>1. \A j \in Slots : (IF state'[j] = "ACTIVE" THEN val'[j] ELSE NoRow)
        = IF j = i THEN NoRow ELSE IF state[j] = "ACTIVE" THEN val[j] ELSE NoRow
  BY Zenon DEF TypeOK
<1>2. [j \in Slots |-> IF state'[j] = "ACTIVE" THEN val'[j] ELSE NoRow]
        = [[j \in Slots |-> IF state[j] = "ACTIVE" THEN val[j] ELSE NoRow] EXCEPT ![i] = NoRow]
  BY Zenon, <1>1
<1>3. (IF state[i] = "ACTIVE" THEN val[i] ELSE NoRow) = val[i] /\ val[i] # NoRow
  BY ZenonT(30) DEF TypeOK
<1> QED
  BY Zenon, <1>2, <1>3 DEF Report, Table!Delete, Table!Report

LEMMA StepRefines == IInv /\ [Next]_vars => [Table!Next]_(Table!vars)
<1> SUFFICES ASSUME IInv, [Next]_vars PROVE TableStep
    BY Zenon DEF TableStep
<1>0. CASE UNCHANGED vars
    BY Zenon, <1>0 DEF vars, slotVars, TableStep, Table!vars
<1>1. ASSUME NEW h \in Handlers, Call(h), ~WriteRow(h) PROVE TableStep
    BY Zenon, <1>1, QuietStep
       DEF Call, ExternalLock, ExternalUnlock, Reset, IndexRead, RndInit, RndNext, Position,
           RndPos, UpdateRow, DeleteRow, WriteCall, Reads
<1>2. ASSUME NEW h \in Handlers, Run(h), ~Update(h), ~Delete(h) PROVE TableStep
    BY Zenon, <1>2, QuietStep
       DEF Run, FetchGen, InsertGen, LockHeld, LockMove, LockTake, Reread, WriteLock, Unlock
<1>3. ASSUME NEW h \in Handlers, WriteRow(h) PROVE TableStep
  <2>1. CASE Report(h, "failed") /\ UNCHANGED slotVars
    BY Zenon, <2>1, QuietStep
  <2>2. ASSUME NEW i \in Rows[h] \ Active(h), NEW v \in NewVals,
               state' = [state EXCEPT ![i] = "ACTIVE"], val' = [val EXCEPT ![i] = v],
               Report(h, "inserted")
        PROVE  TableStep
    <3>1. i \in Slots /\ state[i] # "ACTIVE" /\ v \in Vals /\ TypeOK
      BY Zenon, <2>2 DEF Active, IInv
    <3> QED
      BY Zenon, <2>2, <3>1, InsertRefines DEF TableStep, Table!Next
  <2> QED
    BY Zenon, <1>3, <2>1, <2>2 DEF WriteRow, slotVars
<1>4. ASSUME NEW h \in Handlers, Update(h) PROVE TableStep
  <2>1. CASE Refused(h)
    BY Zenon, <2>1, QuietStep DEF Refused
  <2>2. CASE /\ Same(h) /\ Report(h, "updated") /\ UNCHANGED <<state, gen, current_slot>>
             /\ val' = [val EXCEPT ![current_slot[h]] = Calc[buf[h]]]
    <3>1. current_slot[h] \in Slots /\ TypeOK
      BY Zenon, <1>4 DEF Update, IInv, TypeOK, Inside
    <3>2. state[current_slot[h]] = "ACTIVE" /\ val[current_slot[h]] = buf[h]
      BY Zenon, <1>4, <2>2 DEF Same, Update, IInv, HInv, Current
    <3> QED
      BY Zenon, <2>2, <3>1, <3>2, UpdateRefines DEF TableStep, Table!Next
  <2> QED
    BY Zenon, <1>4, <2>1, <2>2 DEF Update
<1>5. ASSUME NEW h \in Handlers, Delete(h) PROVE TableStep
  <2>1. CASE Refused(h)
    BY Zenon, <2>1, QuietStep DEF Refused
  <2>2. CASE /\ Same(h) /\ Report(h, "deleted") /\ UNCHANGED val
             /\ state' = [state EXCEPT ![current_slot[h]] = "FREE"]
    <3>1. current_slot[h] \in Slots /\ TypeOK
      BY Zenon, <1>5 DEF Delete, IInv, TypeOK, Inside
    <3>2. state[current_slot[h]] = "ACTIVE"
      BY Zenon, <2>2 DEF Same
    <3> QED
      BY Zenon, <2>2, <3>1, <3>2, DeleteRefines DEF TableStep, Table!Next
  <2> QED
    BY Zenon, <1>5, <2>1, <2>2 DEF Delete
<1> QED
    BY Zenon, <1>0, <1>1, <1>2, <1>3, <1>4, <1>5 DEF Next, Call, Run

LEMMA InitRefines == Init => Table!Init
BY Zenon DEF Init, Table!Init

\* The statement layer implements the table of FmTable: an update that succeeds
\* replaces the value it was computed from, whatever other handlers do between
\* the statement's read and its write.
THEOREM Refinement == Spec => AtomicWrites
BY InitRefines, StepRefines, Invariance, PTL DEF Spec, AtomicWrites, Table!Spec
=============================================================================
