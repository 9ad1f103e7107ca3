------------------------------ MODULE FmAutoInc ------------------------------
(***************************************************************************)
(* The auto_increment counter of a share: interval reservation and the two *)
(* ways to raise the counter, each a compare-and-swap loop on auto_inc,    *)
(* run by any number of threads.  Arithmetic is modulo MOD, 2^64 in the    *)
(* code.                                                                   *)
(***************************************************************************)
EXTENDS Integers

CONSTANTS
    Threads,
    MOD,            \* size of fm_u64
    Requests,       \* <<offset, increment, nb_desired_values>> triples asked for
    KeyValues,      \* <<key type, stored value>> pairs of explicitly written rows
    NextValues      \* arguments of reset_auto_increment

ASSUME ModAssumption == MOD \in Nat \ {0, 1}
ASSUME RequestsAssumption ==
    /\ Requests \subseteq (0 .. MOD - 1) \X (0 .. MOD - 1) \X (0 .. MOD - 1)
    /\ NextValues \subseteq 0 .. MOD - 1

VARIABLES
    auto_inc,       \* last value handed out
    pc, cur,        \* cur: the local copy of auto_inc
    offset, inc, nb,
    val, last,      \* reserve: first and last value of the interval;
                    \* observe and set: the value to raise the counter to
    \* history, read by the properties only
    taken,          \* values handed out
    floor           \* largest value a finished observe or set was called with

locals == <<offset, inc, nb, val, last>>
vars == <<auto_inc, pc, cur, locals, taken, floor>>

-----------------------------------------------------------------------------
Wrap(n) == n % MOD

\* Mutant: the defaults for zero arguments are forgotten.
OneIfZero_Kept(n) == n

OneIfZero(n) == IF n = 0 THEN 1 ELSE n

\* offset + ceil((v - offset) / inc) * inc, computed in 64 bits.
AlignUp(v, o, i) ==
    LET r == IF v > o THEN v - o ELSE 0
    IN  Wrap(o + Wrap((Wrap(r + i - 1) \div i) * i))

\* Mutant: the value is not aligned to the offset.
FirstValue_Unaligned(c, o, i) == Wrap(c + 1)

\* First value of an interval after c, or 0 on overflow.
FirstValue(c, o, i) ==
    LET v == Wrap(c + 1)
        v2 == AlignUp(v, o, i)
        w == Wrap(c + i)
        v3 == AlignUp(w, o, i)
    IN  IF v = 0 THEN 0
        ELSE IF i = 1 THEN v
        ELSE IF v2 < v THEN 0
        ELSE IF v2 > c THEN v2
        ELSE IF w <= c \/ v3 < w \/ v3 = 0 THEN 0 ELSE v3

LastValue(v, i, n) == Wrap(v + Wrap((n - 1) * i))

\* The values of the interval that starts at v.
Interval(v, i, n) == {v + k * i : k \in 0 .. n - 1}

\* fm_update_auto_increment: the number in the key column.  A float column
\* holds a multiple of one half here; the conversion truncates.
ColumnValue(type, stored) ==
    CASE type \in {"signed", "unsigned"} -> IF stored > 0 THEN stored ELSE 0
      [] type = "float" -> IF stored < 0 THEN 0 ELSE stored \div 2
      [] OTHER -> 0

ASSUME KeyValuesAssumption ==
    \A kv \in KeyValues : ColumnValue(kv[1], kv[2]) \in 0 .. MOD - 1

Init ==
    /\ auto_inc \in 0 .. 1                  \* AUTO_INCREMENT=2 at creation, or none
    /\ pc = [t \in Threads |-> "idle"]
    /\ cur = [t \in Threads |-> 0]
    /\ offset = [t \in Threads |-> 1]
    /\ inc = [t \in Threads |-> 1]
    /\ nb = [t \in Threads |-> 1]
    /\ val = [t \in Threads |-> 0]
    /\ last = [t \in Threads |-> 0]
    /\ taken = {}
    /\ floor = 0

Goto(t, l) == pc' = [pc EXCEPT ![t] = l]

\* The call returns; its locals are dead.
Return(t) ==
    /\ Goto(t, "idle")
    /\ cur' = [cur EXCEPT ![t] = 0]
    /\ offset' = [offset EXCEPT ![t] = 1]
    /\ inc' = [inc EXCEPT ![t] = 1]
    /\ nb' = [nb EXCEPT ![t] = 1]
    /\ val' = [val EXCEPT ![t] = 0]
    /\ last' = [last EXCEPT ![t] = 0]

-----------------------------------------------------------------------------
(* fm_core_auto_inc_reserve                                                *)

CallReserve(t) ==
    /\ pc[t] = "idle"
    /\ \E r \in Requests :
        /\ offset' = [offset EXCEPT ![t] = OneIfZero(r[1])]
        /\ inc' = [inc EXCEPT ![t] = OneIfZero(r[2])]
        /\ nb' = [nb EXCEPT ![t] = OneIfZero(r[3])]
    /\ Goto(t, "rs_load")
    /\ UNCHANGED <<auto_inc, cur, val, last, taken, floor>>

\* Mutant: the overflow check refuses intervals of one value.
ReserveLoad_StrictCheck(t) ==
    /\ pc[t] = "rs_load"
    /\ LET v == FirstValue(auto_inc, offset[t], inc[t])
           l == LastValue(v, inc[t], nb[t])
       IN  IF v = 0 \/ l <= v
           THEN Return(t)
           ELSE /\ cur' = [cur EXCEPT ![t] = auto_inc]
                /\ val' = [val EXCEPT ![t] = v]
                /\ last' = [last EXCEPT ![t] = l]
                /\ Goto(t, "rs_cas")
                /\ UNCHANGED <<offset, inc, nb>>
    /\ UNCHANGED <<auto_inc, taken, floor>>

\* Load the counter and compute the interval; return 0 if it does not fit.
ReserveLoad(t) ==
    /\ pc[t] = "rs_load"
    /\ LET v == FirstValue(auto_inc, offset[t], inc[t])
           l == LastValue(v, inc[t], nb[t])
       IN  IF v = 0 \/ l < v
           THEN Return(t)
           ELSE /\ cur' = [cur EXCEPT ![t] = auto_inc]
                /\ val' = [val EXCEPT ![t] = v]
                /\ last' = [last EXCEPT ![t] = l]
                /\ Goto(t, "rs_cas")
                /\ UNCHANGED <<offset, inc, nb>>
    /\ UNCHANGED <<auto_inc, taken, floor>>

\* The interval is the caller's.  Also a mutant: a plain store for the CAS.
ReserveStore(t) ==
    /\ pc[t] = "rs_cas"
    /\ auto_inc' = last[t]
    /\ taken' = taken \union Interval(val[t], inc[t], nb[t])
    /\ Return(t)
    /\ UNCHANGED floor

ReserveCas(t) == pc[t] = "rs_cas" /\ auto_inc = cur[t] /\ ReserveStore(t)

\* Mutant: the loop does not load the counter again.
ReserveRetry_Stale(t) ==
    pc[t] = "rs_cas" /\ Goto(t, "rs_cas") /\ UNCHANGED <<auto_inc, cur, locals, taken, floor>>

\* compare_exchange_weak failed, possibly spuriously.
ReserveRetry(t) ==
    pc[t] = "rs_cas" /\ Goto(t, "rs_load") /\ UNCHANGED <<auto_inc, cur, locals, taken, floor>>

-----------------------------------------------------------------------------
(* fm_core_auto_inc_observe, after a row with an explicit value was        *)
(* written, and fm_set_auto_increment: raise the counter, never lower it.  *)

CallRaise(t, v) ==
    /\ pc[t] = "idle"
    /\ val' = [val EXCEPT ![t] = v]
    /\ Goto(t, "ob_load")
    /\ UNCHANGED <<auto_inc, cur, offset, inc, nb, last, taken, floor>>

CallObserve(t) == \E kv \in KeyValues : CallRaise(t, ColumnValue(kv[1], kv[2]))

CallSet(t) == \E v \in NextValues : CallRaise(t, IF v > 0 THEN v - 1 ELSE 0)

RaiseLoad(t) ==
    /\ pc[t] = "ob_load"
    /\ cur' = [cur EXCEPT ![t] = auto_inc]
    /\ Goto(t, "ob_cas")
    /\ UNCHANGED <<auto_inc, locals, taken, floor>>

\* The loop ends: the counter is high enough, or was raised.
Raised(t) ==
    /\ floor' = IF val[t] > floor THEN val[t] ELSE floor
    /\ Return(t)
    /\ UNCHANGED taken

RaiseSkip(t) ==
    pc[t] = "ob_cas" /\ val[t] <= cur[t] /\ Raised(t) /\ UNCHANGED auto_inc

\* Mutant: the counter is overwritten with any value.
RaiseCas_Lowers(t) ==
    pc[t] = "ob_cas" /\ auto_inc = cur[t] /\ auto_inc' = val[t] /\ Raised(t)

RaiseCas(t) ==
    pc[t] = "ob_cas" /\ val[t] > cur[t] /\ auto_inc = cur[t] /\ auto_inc' = val[t] /\ Raised(t)

\* A failed compare_exchange_weak loads the counter into cur.
RaiseRetry(t) ==
    /\ pc[t] = "ob_cas" /\ val[t] > cur[t]
    /\ cur' = [cur EXCEPT ![t] = auto_inc]
    /\ UNCHANGED <<auto_inc, pc, locals, taken, floor>>

-----------------------------------------------------------------------------
Call(t) == CallReserve(t) \/ CallObserve(t) \/ CallSet(t)

Step(t) ==
    \/ ReserveLoad(t) \/ ReserveCas(t) \/ ReserveRetry(t)
    \/ RaiseLoad(t) \/ RaiseSkip(t) \/ RaiseCas(t) \/ RaiseRetry(t)

Next == \E t \in Threads : Call(t) \/ Step(t)

Spec == Init /\ [][Next]_vars

\* Threads keep running, and a compare_exchange_weak does not fail for ever
\* on a counter nobody changes.
Fairness ==
    \A t \in Threads : WF_vars(Step(t)) /\ SF_vars(ReserveCas(t)) /\ SF_vars(RaiseCas(t))

FairSpec == Spec /\ Fairness

-----------------------------------------------------------------------------
(* Properties                                                              *)

\* The counter and every local copy fit fm_u64.
TypeOK ==
    /\ auto_inc \in 0 .. MOD - 1
    /\ pc \in [Threads -> {"idle", "rs_load", "rs_cas", "ob_load", "ob_cas"}]
    /\ cur \in [Threads -> 0 .. MOD - 1]
    /\ offset \in [Threads -> 1 .. MOD - 1]
    /\ inc \in [Threads -> 1 .. MOD - 1]
    /\ nb \in [Threads -> 1 .. MOD - 1]
    /\ val \in [Threads -> 0 .. MOD - 1]
    /\ last \in [Threads -> 0 .. MOD - 1]

\* fm_core_auto_inc_reserve (fm_core.h:1091-1092): no value is ever handed out
\* twice, none below a value that a finished observe or set excluded, and none
\* that does not fit fm_u64.
IntervalsDisjoint ==
    [][\A t \in Threads : pc[t] = "rs_cas" /\ pc'[t] = "idle" =>
        LET new == Interval(val[t], inc[t], nb[t])
        IN  /\ new \intersect taken = {}
            /\ \A v \in new : v > floor /\ v < MOD]_vars

\* "monotonically increasing counter" (fm_core.h:223): no reservation, observe
\* or set ever lowers it.
CounterMonotone == [][auto_inc' >= auto_inc]_vars

\* The interval a thread is about to claim starts at the first value after the
\* counter it loaded that the offset allows (fm_core.h:1109-1129).
FirstIsNext ==
    \A t \in Threads : pc[t] = "rs_cas" =>
        /\ val[t] > cur[t] /\ (val[t] >= offset[t] \/ inc[t] = 1)
        /\ (val[t] - offset[t]) % inc[t] = 0
        /\ \A v \in cur[t] + 1 .. val[t] - 1 :
              v < offset[t] \/ (v - offset[t]) % inc[t] # 0

\* A reservation fails only if the interval, or the aligned value behind it,
\* would pass the end of fm_u64 (fm_core.h:1107, 1115, 1131).
FailsAtEndOnly ==
    [][\A t \in Threads : pc[t] = "rs_load" /\ pc'[t] = "idle" =>
        LET from == IF auto_inc + 1 < offset[t] THEN offset[t] ELSE auto_inc + 1
        IN  from + (nb[t] + 1) * inc[t] > MOD]_vars

\* Every reservation, observe and set returns, whatever the others do.
CallsReturn == \A t \in Threads : pc[t] # "idle" ~> pc[t] = "idle"
=============================================================================
