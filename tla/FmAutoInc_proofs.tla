-------------------------- MODULE FmAutoInc_proofs ---------------------------
(***************************************************************************)
(* fm_core_auto_inc_reserve and its kin, for any number of threads and any *)
(* size of fm_u64: modular arithmetic finds the next allowed value and     *)
(* gives up only at the end of the range; the CAS loops hand out disjoint  *)
(* intervals and never move the counter back, if no single request spans   *)
(* more than fm_u64.                                                       *)
(***************************************************************************)
EXTENDS FmAutoInc, TLAPS

\* Reduction modulo MOD, of any integer and of one that fits.
LEMMA WrapFacts ==
    ASSUME NEW n \in Int
    PROVE  /\ Wrap(n) \in 0 .. MOD - 1
           /\ n \in 0 .. MOD - 1 => Wrap(n) = n
           /\ n \in MOD .. 2 * MOD - 1 => Wrap(n) = n - MOD
BY ModAssumption DEF Wrap

\* Products of naturals grow with their first factor.
LEMMA TimesMonotone ==
    ASSUME NEW a \in Nat, NEW b \in Nat, NEW c \in Nat, a <= b
    PROVE  a * c <= b * c /\ a * c \in Nat
OBVIOUS

\* Integer division rounds down.
LEMMA DivFacts ==
    ASSUME NEW x \in Nat, NEW i \in Nat \ {0}
    PROVE  x \div i \in Nat /\ (x \div i) * i <= x /\ x < (x \div i) * i + i
OBVIOUS

\* The multiples of i are the numbers without a remainder.
LEMMA ModMultiple == ASSUME NEW k \in Nat, NEW i \in Nat \ {0} PROVE (k * i) % i = 0
OBVIOUS

LEMMA ModZero ==
    ASSUME NEW x \in Int, NEW i \in Nat \ {0}, x % i = 0 PROVE \E k \in Int : x = k * i
OBVIOUS

\* Between two neighbouring multiples of i there is none.
LEMMA ModBetween ==
    ASSUME NEW k \in Nat, NEW i \in Nat \ {0}, NEW x \in Nat, x < k * i, k * i - i < x
    PROVE  x % i # 0
<1> SUFFICES ASSUME x % i = 0 PROVE FALSE
  OBVIOUS
<1>0. x \in Int
  OBVIOUS
<1>1. PICK m \in Int : x = m * i
  BY Zenon, <1>0, ModZero
<1>2. CASE m < 0
  <2>1. -m \in Nat /\ 1 <= -m
    BY <1>2
  <2>2. 1 * i <= (-m) * i
    BY <2>1, TimesMonotone
  <2>3. (-m) * i = -(m * i)
    OBVIOUS
  <2> QED BY <1>1, <2>2, <2>3
<1>3. CASE m >= k
  BY <1>1, <1>3, TimesMonotone
<1>4. CASE m >= 0 /\ m < k
  <2>1. m + 1 \in Nat /\ m + 1 <= k
    BY <1>4
  <2>2. (m + 1) * i <= k * i
    BY <2>1, TimesMonotone
  <2>3. (m + 1) * i = m * i + i
    OBVIOUS
  <2> QED BY <1>1, <2>2, <2>3
<1> QED BY <1>2, <1>3, <1>4

\* What AlignUp computes: the offset, or the first value of the grid at or after
\* v, unless the computation leaves fm_u64: then the result is smaller than v.
LEMMA AlignNext ==
    ASSUME NEW v \in 1 .. MOD - 1, NEW o \in 1 .. MOD - 1, NEW i \in 1 .. MOD - 1
    PROVE  /\ AlignUp(v, o, i) \in 0 .. MOD - 1
           /\ v <= o => AlignUp(v, o, i) = o
           /\ v > o => \E k \in Nat :
                /\ k * i \in Nat /\ v <= o + k * i /\ o + k * i < v + i
                /\ AlignUp(v, o, i) >= v => AlignUp(v, o, i) = o + k * i
                /\ AlignUp(v, o, i) < v => v + i > MOD
<1> USE ModAssumption
<1>1. CASE v <= o
  <2>1. Wrap(0 + i - 1) = i - 1
    BY WrapFacts
  <2>2. (i - 1) \div i = 0
    <3>1. PICK q \in Nat : q = (i - 1) \div i /\ q * i <= i - 1
      BY DivFacts
    <3>2. q >= 1 => 1 * i <= q * i
      BY TimesMonotone
    <3> QED BY <3>1, <3>2
  <2>3. Wrap(0 * i) = 0 /\ Wrap(o + 0) = o
    BY WrapFacts
  <2>4. AlignUp(v, o, i) = Wrap(o + Wrap(((Wrap(0 + i - 1)) \div i) * i))
    BY <1>1 DEF AlignUp
  <2>5. AlignUp(v, o, i) = o
    BY Zenon, <2>1, <2>2, <2>3, <2>4
  <2> QED BY <1>1, <2>5
<1>2. CASE v > o
  <2>1. PICK r \in 1 .. MOD - 1 : r = v - o
    BY <1>2
  <2> DEFINE x == r + i - 1
  <2>2. x \in Nat /\ x < 2 * MOD
    BY <2>1
  <2>3. AlignUp(v, o, i) = Wrap(o + Wrap((Wrap(x) \div i) * i))
    BY Zenon, <1>2, <2>1 DEF AlignUp
  <2>4. PICK k \in Nat : k = x \div i /\ k * i <= x /\ x < k * i + i /\ k * i \in Nat
    BY <2>2, DivFacts, TimesMonotone
  <2>5. v <= o + k * i /\ o + k * i < v + i
    BY <2>1, <2>4
  <2>6. CASE x < MOD
    <3>1. Wrap(x) = x
      BY <2>2, <2>6, WrapFacts
    <3>2. Wrap(k * i) = k * i
      BY <2>2, <2>4, <2>6, WrapFacts
    <3>3. AlignUp(v, o, i) = Wrap(o + k * i)
      BY Zenon, <2>3, <2>4, <3>1, <3>2
    <3>4. PICK m \in Nat : m = k * i /\ m < MOD
      BY <2>2, <2>4, <2>6
    <3>5. Wrap(o + m) = IF o + m < MOD THEN o + m ELSE o + m - MOD
      BY <3>4, WrapFacts
    <3> QED BY <1>2, <2>5, <3>3, <3>4, <3>5
  <2>7. CASE x >= MOD
    <3>1. Wrap(x) = x - MOD
      BY <2>2, <2>7, WrapFacts
    <3>2. (x - MOD) \div i = 0
      <4>1. PICK y \in Nat : y = x - MOD /\ y < i
        BY <2>1, <2>2, <2>7
      <4>2. PICK q \in Nat : q = y \div i /\ q * i <= y
        BY DivFacts
      <4>3. q >= 1 => 1 * i <= q * i
        BY TimesMonotone
      <4> QED BY <4>1, <4>2, <4>3
    <3>3. Wrap(0 * i) = 0 /\ Wrap(o + 0) = o
      BY WrapFacts
    <3>4. AlignUp(v, o, i) = o
      BY Zenon, <2>3, <3>1, <3>2, <3>3
    <3>5. v + i > MOD
      BY <2>1, <2>7
    <3> QED BY <1>2, <2>4, <2>5, <3>4, <3>5
  <2> QED BY <2>2, <2>6, <2>7
<1> QED BY <1>1, <1>2

\* FirstValue is AlignUp of the next value, or 0 where that fails: the second
\* attempt of the code, from c + i, never happens.
LEMMA FirstValueIs ==
    ASSUME NEW c \in 0 .. MOD - 1, NEW o \in 1 .. MOD - 1, NEW i \in 1 .. MOD - 1
    PROVE  \/ c + 1 = MOD /\ FirstValue(c, o, i) = 0
           \/ c + 1 < MOD /\ i = 1 /\ FirstValue(c, o, i) = c + 1
           \/ /\ c + 1 < MOD /\ AlignUp(c + 1, o, i) < c + 1 /\ FirstValue(c, o, i) = 0
           \/ /\ c + 1 < MOD /\ AlignUp(c + 1, o, i) >= c + 1
              /\ FirstValue(c, o, i) = AlignUp(c + 1, o, i)
<1> USE ModAssumption
<1>1. CASE c + 1 = MOD
  <2>1. Wrap(c + 1) = 0
    BY <1>1, WrapFacts
  <2> QED BY Zenon, <1>1, <2>1 DEF FirstValue
<1>2. CASE c + 1 < MOD
  <2>1. PICK v \in 1 .. MOD - 1 : v = c + 1
    BY <1>2
  <2>2. Wrap(c + 1) = v
    BY <2>1, WrapFacts
  <2>3. PICK a \in 0 .. MOD - 1 : a = AlignUp(v, o, i)
    BY AlignNext
  <2>4. CASE i = 1
    BY <1>2, <2>1, <2>2, <2>4 DEF FirstValue
  <2>5. CASE i # 1 /\ a < v
    <3>1. FirstValue(c, o, i) = 0
      BY <2>1, <2>2, <2>3, <2>5 DEF FirstValue
    <3> QED BY <1>2, <2>1, <2>3, <2>5, <3>1
  <2>6. CASE i # 1 /\ ~(a < v)
    <3>0. a > c /\ v # 0
      BY <2>1, <2>6
    <3>1. FirstValue(c, o, i) = a
      BY Zenon, <2>2, <2>3, <2>6, <3>0 DEF FirstValue
    <3> QED BY <1>2, <2>1, <2>3, <2>6, <3>1
  <2> QED BY Zenon, <2>4, <2>5, <2>6
<1> QED BY <1>1, <1>2

\* The value after c that the offset and the increment allow, if any.
IsNext(v, c, o, i) ==
    /\ v > c /\ (v >= o \/ i = 1)
    /\ (v - o) % i = 0
    /\ \A u \in c + 1 .. v - 1 : u < o \/ (u - o) % i # 0

LEMMA FirstValueNext ==
    ASSUME NEW c \in 0 .. MOD - 1, NEW o \in 1 .. MOD - 1, NEW i \in 1 .. MOD - 1,
           FirstValue(c, o, i) # 0
    PROVE  IsNext(FirstValue(c, o, i), c, o, i)
<1> USE ModAssumption
<1> DEFINE f == FirstValue(c, o, i)
<1>1. CASE i = 1 /\ f = c + 1
  <2>1. (f - o) % 1 = 0
    BY <1>1
  <2> QED BY <1>1, <2>1 DEF IsNext
<1>2. CASE c + 1 < MOD /\ AlignUp(c + 1, o, i) >= c + 1 /\ f = AlignUp(c + 1, o, i)
  <2>1. PICK v \in 1 .. MOD - 1 : v = c + 1
    BY <1>2
  <2>2. CASE v <= o
    <3>1. f = o
      BY <1>2, <2>1, <2>2, AlignNext
    <3>2. (f - o) % i = 0
      <4>1. f - o = 0 * i
        BY <3>1
      <4> QED BY <4>1, ModMultiple
    <3> QED BY <2>1, <2>2, <3>1, <3>2 DEF IsNext
  <2>3. CASE v > o
    <3>0. f = AlignUp(v, o, i) /\ AlignUp(v, o, i) >= v
      BY Zenon, <1>2, <2>1
    <3>a. PICK k \in Nat :
            /\ k * i \in Nat /\ v <= o + k * i /\ o + k * i < v + i
            /\ AlignUp(v, o, i) >= v => AlignUp(v, o, i) = o + k * i
            /\ AlignUp(v, o, i) < v => v + i > MOD
      BY Zenon, <2>3, AlignNext
    <3>1. k * i \in Nat /\ v <= o + k * i /\ o + k * i < v + i /\ f = o + k * i
      BY Zenon, <3>0, <3>a
    <3> HIDE DEF f
    <3>2. (f - o) % i = 0
      <4>1. f - o = k * i
        BY <3>1
      <4> QED BY <4>1, ModMultiple
    <3>3. ASSUME NEW u \in c + 1 .. f - 1 PROVE (u - o) % i # 0
      <4>1. PICK x \in Nat : x = u - o
        BY <2>1, <2>3, <3>1
      <4>2. x < k * i /\ k * i - i < x
        BY <2>1, <3>1, <4>1
      <4>3. i \in Nat \ {0}
        OBVIOUS
      <4> QED BY Zenon, <4>1, <4>2, <4>3, ModBetween
    <3>4. f > c /\ f >= o
      BY <2>1, <2>3, <3>1
    <3> QED BY Zenon, <3>2, <3>3, <3>4 DEF IsNext, f
  <2> QED BY <2>2, <2>3
<1> QED BY Zenon, FirstValueIs, <1>1, <1>2

\* A reservation that finds no interval is at the end of fm_u64.
AtEnd(c, o, i, n) ==
    LET from == IF c + 1 < o THEN o ELSE c + 1 IN from + (n + 1) * i > MOD

LEMMA FailsOnlyAtEnd ==
    ASSUME NEW c \in 0 .. MOD - 1, NEW o \in 1 .. MOD - 1, NEW i \in 1 .. MOD - 1,
           NEW n \in 1 .. MOD - 1, NEW f, f = FirstValue(c, o, i),
           f = 0 \/ LastValue(f, i, n) < f
    PROVE  AtEnd(c, o, i, n)
<1> USE ModAssumption
<1>1. PICK p \in Nat : p = (n - 1) * i
  BY TimesMonotone
<1>2. (n + 1) * i = p + i + i
  BY <1>1
<1>3. PICK from \in 1 .. MOD : from = IF c + 1 < o THEN o ELSE c + 1
  OBVIOUS
<1>4. SUFFICES from + p + i + i > MOD
  BY <1>2, <1>3 DEF AtEnd
<1>5. CASE c + 1 = MOD
  BY <1>3, <1>5
<1>6. CASE c + 1 < MOD
  <2>1. PICK v \in 1 .. MOD - 1 : v = c + 1
    BY <1>6
  <2>2. PICK a \in 0 .. MOD - 1 : a = AlignUp(v, o, i)
    BY AlignNext
  <2>3. a < v => v + i > MOD
    BY <2>2, AlignNext
  <2>4. CASE a < v
    BY <1>3, <2>1, <2>3, <2>4
  <2>5. CASE f \in {v, a} /\ f # 0 /\ a >= v
    <3>0. v > o => \E m \in Nat : a = o + m /\ o + m < v + i
      BY Zenon, <2>2, <2>5, AlignNext
    <3>9. v <= o => a = o
      BY Zenon, <2>2, AlignNext
    <3>1. f < from + i /\ f \in 1 .. MOD - 1
      BY <1>3, <2>1, <2>5, <3>0, <3>9
    <3>2. CASE p >= MOD
      BY <1>3, <3>2
    <3>3. CASE p < MOD
      <4>1. Wrap(p) = p
        BY <3>3, WrapFacts
      <4>2. Wrap(f + p) = IF f + p < MOD THEN f + p ELSE f + p - MOD
        BY <3>1, <3>3, WrapFacts
      <4>3. LastValue(f, i, n) = Wrap(f + p)
        BY Zenon, <1>1, <4>1 DEF LastValue
      <4>4. f + p >= MOD
        BY <3>1, <4>2, <4>3
      <4> QED BY <1>3, <3>1, <4>4
    <3> QED BY <3>2, <3>3
  <2>6. c + 1 # MOD
    BY <1>6
  <2>7. f = v \/ (a < v /\ f = 0) \/ (a >= v /\ f = a)
    BY Zenon, <2>1, <2>2, <2>6, FirstValueIs
  <2> QED BY <2>4, <2>5, <2>7
<1> QED BY <1>5, <1>6

\* The first value of an interval lies after the counter.
LEMMA FirstAfterCounter ==
    ASSUME NEW c \in 0 .. MOD - 1, NEW o \in 1 .. MOD - 1, NEW i \in 1 .. MOD - 1
    PROVE  /\ FirstValue(c, o, i) \in 0 .. MOD - 1
           /\ FirstValue(c, o, i) # 0 => FirstValue(c, o, i) > c
<1>1. FirstValue(c, o, i) \in 0 .. MOD - 1
  <2>1. c + 1 < MOD => c + 1 \in 1 .. MOD - 1
    BY ModAssumption
  <2>2. c + 1 < MOD => AlignUp(c + 1, o, i) \in 0 .. MOD - 1 
    BY Zenon, <2>1, AlignNext
  <2>3. 0 \in 0 .. MOD - 1 /\ (c + 1 < MOD => c + 1 \in 0 .. MOD - 1)
    BY ModAssumption
  <2> QED BY Zenon, <2>2, <2>3, FirstValueIs
<1> QED BY Zenon, <1>1, FirstValueNext DEF IsNext

\* An interval that passed the overflow check ends where the counter is moved to.
LEMMA IntervalFits ==
    ASSUME NEW v \in 0 .. MOD - 1, NEW i \in Nat \ {0}, NEW n \in Nat \ {0},
           (n - 1) * i < MOD
    PROVE  /\ LastValue(v, i, n) \in 0 .. MOD - 1
           /\ LastValue(v, i, n) >= v => Interval(v, i, n) \subseteq v .. LastValue(v, i, n)
<1> DEFINE p == (n - 1) * i
<1>1. p \in 0 .. MOD - 1 /\ Wrap(p) = p
  BY TimesMonotone, WrapFacts, ModAssumption
<1>2. /\ LastValue(v, i, n) \in 0 .. MOD - 1
      /\ LastValue(v, i, n) >= v => LastValue(v, i, n) = v + p
  <2> HIDE DEF p
  <2>1. LastValue(v, i, n) = Wrap(v + p)
    BY Zenon, <1>1 DEF LastValue, p
  <2> QED
    BY <2>1, <1>1, WrapFacts, ModAssumption
<1>3. \A k \in 0 .. n - 1 : k * i <= p /\ k * i \in Nat
  BY TimesMonotone
<1> QED
  BY <1>1, <1>2, <1>3 DEF Interval

-----------------------------------------------------------------------------
(* Whatever intervals are asked for.                                       *)

TInv == TypeOK /\ FirstIsNext

LEMMA TypesInductive == TInv /\ [Next]_vars => TInv'
<1> SUFFICES ASSUME TInv, [Next]_vars PROVE TInv'
  BY Zenon
<1> DEFINE NextOK == \A t \in Threads : pc[t] = "rs_cas" => IsNext(val[t], cur[t], offset[t], inc[t])
<1>0. TypeOK /\ NextOK
  BY Zenon DEF TInv, FirstIsNext, IsNext
<1>s. SUFFICES TypeOK' /\ NextOK'
  BY Zenon DEF TInv, FirstIsNext, IsNext
<1>1. CASE UNCHANGED vars
  BY Zenon, <1>0, <1>1 DEF vars, locals, TypeOK
<1>2. ASSUME NEW t \in Threads, CallReserve(t) PROVE TypeOK' /\ NextOK'
  <2>1. PICK r \in Requests :
            /\ offset' = [offset EXCEPT ![t] = OneIfZero(r[1])]
            /\ inc' = [inc EXCEPT ![t] = OneIfZero(r[2])]
            /\ nb' = [nb EXCEPT ![t] = OneIfZero(r[3])]
    BY Zenon, <1>2 DEF CallReserve
  <2>2. /\ OneIfZero(r[1]) \in 1 .. MOD - 1
        /\ OneIfZero(r[2]) \in 1 .. MOD - 1
        /\ OneIfZero(r[3]) \in 1 .. MOD - 1
    BY RequestsAssumption, ModAssumption DEF OneIfZero
  <2> QED BY Zenon, <1>0, <1>2, <2>1, <2>2 DEF CallReserve, Goto, TypeOK
<1>3. ASSUME NEW t \in Threads, ReserveLoad(t) PROVE TypeOK' /\ NextOK'
  <2> DEFINE v == FirstValue(auto_inc, offset[t], inc[t])
             l == LastValue(v, inc[t], nb[t])
  <2>1. /\ auto_inc \in 0 .. MOD - 1 /\ offset[t] \in 1 .. MOD - 1 /\ inc[t] \in 1 .. MOD - 1
        /\ nb[t] \in 1 .. MOD - 1
    BY Zenon, <1>0 DEF TypeOK
  <2>2. v \in 0 .. MOD - 1 /\ (v # 0 => IsNext(v, auto_inc, offset[t], inc[t]))
    BY Zenon, <2>1, FirstAfterCounter, FirstValueNext
  <2> HIDE DEF v
  <2>3. l \in 0 .. MOD - 1
    <3>1. PICK p \in Int : p = (nb[t] - 1) * inc[t]
      BY <2>1
    <3>2. Wrap(p) \in Int
      BY WrapFacts, ModAssumption
    <3>3. v + Wrap(p) \in Int
      BY <2>2, <3>2
    <3> QED BY Zenon, <3>1, <3>3, WrapFacts DEF LastValue
  <2> HIDE DEF l
  <2>4. CASE v = 0 \/ l < v
    <3>1. 0 \in 0 .. MOD - 1 /\ 1 \in 1 .. MOD - 1
      BY ModAssumption
    <3>2. Return(t) /\ UNCHANGED <<auto_inc, taken, floor>>
      BY Zenon, <1>3, <2>4 DEF ReserveLoad, v, l
    <3> QED BY Zenon, <1>0, <3>1, <3>2 DEF Return, Goto, TypeOK
  <2>5. CASE ~(v = 0 \/ l < v)
    <3>1. /\ cur' = [cur EXCEPT ![t] = auto_inc]
          /\ val' = [val EXCEPT ![t] = v]
          /\ last' = [last EXCEPT ![t] = l]
          /\ pc' = [pc EXCEPT ![t] = "rs_cas"]
          /\ UNCHANGED <<offset, inc, nb, auto_inc, taken, floor>>
      BY Zenon, <1>3, <2>5 DEF ReserveLoad, Goto, v, l
    <3> QED BY Zenon, <1>0, <2>2, <2>3, <2>5, <3>1 DEF TypeOK
  <2> QED BY Zenon, <2>4, <2>5
<1>4. ASSUME NEW t \in Threads, ReserveCas(t) PROVE TypeOK' /\ NextOK'
  <2>1. 0 \in 0 .. MOD - 1 /\ 1 \in 1 .. MOD - 1
    BY ModAssumption
  <2> QED BY Zenon, <1>0, <1>4, <2>1 DEF ReserveCas, ReserveStore, Return, Goto, TypeOK
<1>5. ASSUME NEW t \in Threads, ReserveRetry(t) PROVE TypeOK' /\ NextOK'
  BY Zenon, <1>0, <1>5 DEF ReserveRetry, Goto, locals, TypeOK
<1>6. ASSUME NEW t \in Threads, CallObserve(t) \/ CallSet(t) PROVE TypeOK' /\ NextOK'
  <2>1. PICK v \in 0 .. MOD - 1 : CallRaise(t, v)
    BY <1>6, KeyValuesAssumption, RequestsAssumption, ModAssumption DEF CallObserve, CallSet
  <2> QED BY Zenon, <1>0, <2>1 DEF CallRaise, Goto, TypeOK
<1>7. ASSUME NEW t \in Threads, RaiseLoad(t) \/ RaiseRetry(t) PROVE TypeOK' /\ NextOK'
  BY Zenon, <1>0, <1>7 DEF RaiseLoad, RaiseRetry, Goto, locals, TypeOK
<1>8. ASSUME NEW t \in Threads, RaiseSkip(t) \/ RaiseCas(t) PROVE TypeOK' /\ NextOK'
  <2>1. 0 \in 0 .. MOD - 1 /\ 1 \in 1 .. MOD - 1
    BY ModAssumption
  <2>2. Return(t) /\ (auto_inc' = auto_inc \/ auto_inc' = val[t])
    BY Zenon, <1>8 DEF RaiseSkip, RaiseCas, Raised
  <2> QED BY Zenon, <1>0, <2>1, <2>2 DEF Return, Goto, TypeOK
<1> QED
  BY Zenon, <1>1, <1>2, <1>3, <1>4, <1>5, <1>6, <1>7, <1>8 DEF Next, Call, Step

LEMMA TypesInvariance == Spec => []TInv
<1>1. Init => TInv
  BY ModAssumption DEF Init, TInv, TypeOK, FirstIsNext
<1> QED BY <1>1, TypesInductive, PTL DEF Spec

\* The counter and every caller's locals stay within the width of the counter:
\* no computation of the CAS loops leaves it (fm_core_auto_inc_reserve and its kin).
THEOREM TypeCorrect == Spec => []TypeOK
<1>1. TInv => TypeOK
  BY Zenon DEF TInv
<1> QED BY <1>1, TypesInvariance, PTL

\* fm_core_auto_inc_reserve in modular arithmetic, for every width of the counter
\* and every offset, increment and length: an interval it is about to claim
\* starts at the first value after the counter that the offset and the increment
\* allow, although three of its operations may wrap around.
THEOREM NextAllowedValue == Spec => []FirstIsNext
<1>1. TInv => FirstIsNext
  BY Zenon DEF TInv
<1> QED BY <1>1, TypesInvariance, PTL

\* ... and it gives up only where the interval would pass the end of fm_u64: no
\* wrap-around makes it refuse a value that fits.
THEOREM FailsLate == Spec => FailsAtEndOnly
<1> DEFINE Ends == \A t \in Threads : pc[t] = "rs_load" /\ pc'[t] = "idle" =>
                       AtEnd(auto_inc, offset[t], inc[t], nb[t])
<1>1. TInv /\ [Next]_vars => [Ends]_vars
  <2> SUFFICES ASSUME TInv, Next, NEW t \in Threads, pc[t] = "rs_load", pc'[t] = "idle"
               PROVE  AtEnd(auto_inc, offset[t], inc[t], nb[t])
    BY Zenon
  <2>1. PICK s \in Threads : Call(s) \/ Step(s)
    BY Zenon DEF Next
  <2>2. pc' = [pc EXCEPT ![s] = pc'[s]]
    BY Zenon, <2>1 DEF TInv, TypeOK, Call, Step, CallReserve, CallObserve, CallSet, CallRaise,
        ReserveLoad, ReserveCas, ReserveStore, ReserveRetry, RaiseLoad, RaiseSkip,
        RaiseCas, RaiseRetry, Raised, Return, Goto
  <2>3. s = t
    BY Zenon, <2>2 DEF TInv, TypeOK
  <2>4. ReserveLoad(t)
    BY Zenon, <2>1, <2>3 DEF TInv, TypeOK, Call, Step, CallReserve, CallObserve, CallSet,
        CallRaise, ReserveCas, ReserveRetry, RaiseLoad, RaiseSkip, RaiseCas, RaiseRetry
  <2> DEFINE v == FirstValue(auto_inc, offset[t], inc[t])
  <2>5. v = 0 \/ LastValue(v, inc[t], nb[t]) < v
    BY Zenon, <2>4 DEF ReserveLoad, Goto, TInv, TypeOK
  <2>6. /\ auto_inc \in 0 .. MOD - 1 /\ offset[t] \in 1 .. MOD - 1 /\ inc[t] \in 1 .. MOD - 1
        /\ nb[t] \in 1 .. MOD - 1
    BY Zenon DEF TInv, TypeOK
  <2> QED BY Zenon, <2>5, <2>6, FailsOnlyAtEnd
<1>2. [Ends]_vars => [\A t \in Threads : pc[t] = "rs_load" /\ pc'[t] = "idle" =>
        LET from == IF auto_inc + 1 < offset[t] THEN offset[t] ELSE auto_inc + 1
        IN  from + (nb[t] + 1) * inc[t] > MOD]_vars
  BY Zenon DEF AtEnd
<1> QED BY <1>1, <1>2, TypesInvariance, PTL DEF Spec, FailsAtEndOnly

-----------------------------------------------------------------------------
(* If no interval is longer than fm_u64.                                   *)

\* No request asks for an interval whose length wraps: with MariaDB's 16-bit
\* increments this takes 2^48 rows in one statement.
SpanFits == \A r \in Requests : (OneIfZero(r[3]) - 1) * OneIfZero(r[2]) < MOD

\* What a thread between its load and its CAS knows of the interval it computed.
ClaimOK(t) ==
    pc[t] = "rs_cas" => Interval(val[t], inc[t], nb[t]) \subseteq cur[t] + 1 .. last[t]

IInv ==
    /\ TypeOK
    /\ floor \in 0 .. auto_inc
    /\ \A v \in taken : v \in Int /\ v <= auto_inc
    /\ \A t \in Threads :
        /\ cur[t] <= auto_inc
        /\ (nb[t] - 1) * inc[t] < MOD
        /\ pc[t] = "rs_cas" => last[t] > cur[t]
        /\ ClaimOK(t)

LEMMA Initial == Init => IInv
BY ModAssumption DEF Init, IInv, TypeOK, ClaimOK

\* Every step keeps the invariant; only the load of a reservation and the three
\* stores to auto_inc have anything to show.
LEMMA Inductive == ASSUME SpanFits PROVE IInv /\ [Next]_vars => IInv'
<1> SUFFICES ASSUME IInv, [Next]_vars PROVE IInv'
  BY Zenon
<1> USE ModAssumption DEF IInv, TypeOK, ClaimOK
<1>1. CASE UNCHANGED vars
  BY Zenon, <1>1 DEF vars, locals
<1>2. ASSUME NEW t \in Threads, CallReserve(t) PROVE IInv'
  <2>1. PICK r \in Requests :
            /\ offset' = [offset EXCEPT ![t] = OneIfZero(r[1])]
            /\ inc' = [inc EXCEPT ![t] = OneIfZero(r[2])]
            /\ nb' = [nb EXCEPT ![t] = OneIfZero(r[3])]
    BY Zenon, <1>2 DEF CallReserve
  <2>2. /\ OneIfZero(r[1]) \in 1 .. MOD - 1
        /\ OneIfZero(r[2]) \in 1 .. MOD - 1
        /\ OneIfZero(r[3]) \in 1 .. MOD - 1
    BY RequestsAssumption DEF OneIfZero
  <2>3. (OneIfZero(r[3]) - 1) * OneIfZero(r[2]) < MOD
    BY Zenon DEF SpanFits
  <2> QED
    BY Zenon, <1>2, <2>1, <2>2, <2>3 DEF CallReserve, Goto
<1>3. ASSUME NEW t \in Threads, ReserveLoad(t) PROVE IInv'
  <2> DEFINE v == FirstValue(auto_inc, offset[t], inc[t])
             l == LastValue(v, inc[t], nb[t])
  <2>1. v \in 0 .. MOD - 1 /\ (v # 0 => v > auto_inc)
    <3>1. /\ auto_inc \in 0 .. MOD - 1
          /\ offset[t] \in Nat
          /\ inc[t] \in Nat \ {0}
      OBVIOUS
    <3> QED
      BY Zenon, <3>1, FirstAfterCounter
  <2>2. l \in 0 .. MOD - 1 /\ (l >= v => Interval(v, inc[t], nb[t]) \subseteq v .. l)
    BY <2>1, IntervalFits
  <2> HIDE DEF v, l
  <2>3. CASE v = 0 \/ l < v
    BY <1>3, <2>3 DEF ReserveLoad, Return, Goto, v, l
  <2>4. CASE ~(v = 0 \/ l < v)
    <3>1. /\ cur' = [cur EXCEPT ![t] = auto_inc]
          /\ val' = [val EXCEPT ![t] = v]
          /\ last' = [last EXCEPT ![t] = l]
          /\ pc' = [pc EXCEPT ![t] = "rs_cas"]
          /\ UNCHANGED <<offset, inc, nb, auto_inc, taken, floor>>
      BY Zenon, <1>3, <2>4 DEF ReserveLoad, Goto, v, l
    <3>2. Interval(v, inc[t], nb[t]) \subseteq auto_inc + 1 .. l
      BY <2>1, <2>2, <2>4
    <3> QED
      BY <2>1, <2>2, <2>4, <3>1, <3>2
  <2> QED
    BY Zenon, <2>3, <2>4
<1>4. ASSUME NEW t \in Threads, ReserveCas(t) PROVE IInv'
  <2>1. /\ pc[t] = "rs_cas" /\ auto_inc = cur[t] /\ auto_inc' = last[t]
        /\ taken' = taken \union Interval(val[t], inc[t], nb[t])
        /\ Return(t) /\ floor' = floor
    BY Zenon, <1>4 DEF ReserveCas, ReserveStore
  <2> QED
    BY <2>1 DEF Return, Goto
<1>5. ASSUME NEW t \in Threads, ReserveRetry(t) PROVE IInv'
  BY Zenon, <1>5 DEF ReserveRetry, Goto, locals
<1>6. ASSUME NEW t \in Threads, CallObserve(t) \/ CallSet(t) PROVE IInv'
  <2>1. PICK v \in 0 .. MOD - 1 : CallRaise(t, v)
    BY <1>6, KeyValuesAssumption, RequestsAssumption DEF CallObserve, CallSet
  <2> QED
    BY Zenon, <2>1 DEF CallRaise, Goto
<1>7. ASSUME NEW t \in Threads, RaiseLoad(t) PROVE IInv'
  BY <1>7 DEF RaiseLoad, Goto, locals
<1>8. ASSUME NEW t \in Threads, RaiseSkip(t) \/ RaiseCas(t) PROVE IInv'
  <2>1. CASE RaiseSkip(t)
    BY <2>1 DEF RaiseSkip, Raised, Return, Goto
  <2>2. CASE RaiseCas(t)
    BY <2>2 DEF RaiseCas, Raised, Return, Goto
  <2> QED
    BY Zenon, <1>8, <2>1, <2>2
<1>9. ASSUME NEW t \in Threads, RaiseRetry(t) PROVE IInv'
  BY <1>9 DEF RaiseRetry, locals
<1> QED
  BY Zenon, <1>1, <1>2, <1>3, <1>4, <1>5, <1>6, <1>7, <1>8, <1>9 DEF Next, Call, Step

LEMMA Invariance == ASSUME SpanFits PROVE Spec => []IInv
BY Initial, Inductive, PTL DEF Spec

\* For any number of threads and any width of the counter, no value is handed
\* out twice, none at or below a value raised past, and none past fm_u64: the
\* CAS loop of fm_core_auto_inc_reserve with its overflow checks is enough.
THEOREM Disjoint == ASSUME SpanFits PROVE Spec => IntervalsDisjoint
<1> DEFINE Fresh == \A t \in Threads : pc[t] = "rs_cas" /\ pc'[t] = "idle" =>
                LET new == Interval(val[t], inc[t], nb[t])
                IN  /\ new \intersect taken = {}
                    /\ \A v \in new : v > floor /\ v < MOD
<1>1. IInv /\ [Next]_vars => [Fresh]_vars
  <2> SUFFICES ASSUME IInv, Next, NEW t \in Threads, pc[t] = "rs_cas", pc'[t] = "idle"
               PROVE  LET new == Interval(val[t], inc[t], nb[t])
                      IN  /\ new \intersect taken = {}
                          /\ \A v \in new : v > floor /\ v < MOD
    BY Zenon
  <2>1. auto_inc = cur[t]
    <3>1. ReserveCas(t)
      <4>1. PICK s \in Threads : Call(s) \/ Step(s)
        BY Zenon DEF Next
      <4>2. pc' = [pc EXCEPT ![s] = pc'[s]]
        BY Zenon, <4>1 DEF IInv, TypeOK, Call, Step, CallReserve, CallObserve, CallSet, CallRaise,
            ReserveLoad, ReserveCas, ReserveStore, ReserveRetry, RaiseLoad, RaiseSkip,
            RaiseCas, RaiseRetry, Raised, Return, Goto
      <4>3. s = t
        BY Zenon, <4>2 DEF IInv, TypeOK
      <4> QED
        BY Zenon, <4>1, <4>3 DEF IInv, TypeOK, Call, Step, CallReserve, CallObserve, CallSet,
          CallRaise,
            ReserveLoad, ReserveRetry, RaiseLoad, RaiseSkip, RaiseCas, RaiseRetry, Goto
    <3> QED
      BY Zenon, <3>1 DEF ReserveCas
  <2>2. Interval(val[t], inc[t], nb[t]) \subseteq auto_inc + 1 .. last[t]
    BY Zenon, <2>1 DEF IInv, ClaimOK
  <2> QED
    BY <2>2, ModAssumption DEF IInv, TypeOK
<1> QED
  BY <1>1, Invariance, PTL DEF Spec, IntervalsDisjoint

\* The counter never goes back, whatever explicit values and resets are mixed
\* with the reservations.
THEOREM Monotone == ASSUME SpanFits PROVE Spec => CounterMonotone
<1>1. IInv /\ [Next]_vars => [auto_inc' >= auto_inc]_vars
  <2> SUFFICES ASSUME IInv, Next PROVE auto_inc' >= auto_inc
    BY Zenon
  <2>1. PICK t \in Threads : Call(t) \/ Step(t)
    BY Zenon DEF Next
  <2>2. CASE ReserveCas(t) \/ RaiseCas(t)
    BY <2>2, ModAssumption DEF IInv, TypeOK, ReserveCas, ReserveStore, RaiseCas
  <2>3. CASE ~(ReserveCas(t) \/ RaiseCas(t))
    <3>1. auto_inc' = auto_inc
      BY Zenon, <2>1, <2>3 DEF Call, Step, CallReserve, CallObserve, CallSet, CallRaise,
          ReserveLoad, ReserveRetry, RaiseLoad, RaiseSkip, RaiseRetry
    <3> QED
      BY <3>1, ModAssumption DEF IInv, TypeOK
  <2> QED
    BY Zenon, <2>2, <2>3
<1> QED
  BY <1>1, Invariance, PTL DEF Spec, CounterMonotone
=============================================================================
