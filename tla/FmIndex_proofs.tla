--------------------------- MODULE FmIndex_proofs ---------------------------
(***************************************************************************)
(* The lookups and the duplicate checks of FmIndex, and its theorems, for  *)
(* every number of threads, slots, keys and buckets and every workload:    *)
(* the types, the lock order, the chains, the unique keys and the lookups. *)
(***************************************************************************)
EXTENDS FmIndex_chains, WellFoundedInduction

\* The leaves below are for Zenon unless they name SMTT.
USE ZenonT(30)

-----------------------------------------------------------------------------
(* The lookups in their own steps.                                         *)

\* The lookup of t, in its own steps.
LEMMA StableKept ==
    ASSUME BaseInv, NEW t \in Threads, Step(t), FindStepOf(t), StableOK(t), Settled(t),
           key'[t] = key[t], want'[t] = want[t], stable'[t] = stable[t]
    PROVE  StableOK(t)'
<1>1. /\ state' = state /\ row' = row
      /\ \A u \in Threads : \A i \in Slots : \A k \in KeyNos : Pending(u, i, k)' => Pending(u, i, k)
  BY FindFrame
<1>2. stable[t] \subseteq Slots
  BY DEF BaseInv, Types, ScanTypes
<1> SUFFICES ASSUME NEW k \in KeyNos, key'[t] = k, NEW i \in stable'[t]
             PROVE  /\ state'[i] = "ACTIVE" /\ row'[i][k] \in want'[t]
                    /\ \A u \in Threads : ~Pending(u, i, k)'
  BY DEF StableOK
<1>3. /\ state[i] = "ACTIVE" /\ row[i][k] \in want[t] /\ i \in Slots
      /\ \A u \in Threads : ~Pending(u, i, k)
  BY <1>2 DEF StableOK
<1> QED BY <1>1, <1>3

\* What is ahead of a row or of a walk stays ahead of it.
LEMMA FindAhead ==
    ASSUME BaseInv, NEW t \in Threads, Step(t), FindStepOf(t), NEW k \in KeyNos, NEW b \in Buckets,
           NEW x, NEW R, Ahead(x, k, b, R)
    PROVE  Ahead(x, k, b, R)'
<1>1. AheadNext(x, k, b, R)
  BY FindFrame, AheadKept
<1> QED BY <1>1, AheadPrime

LEMMA CursorKept ==
    ASSUME BaseInv, NEW t \in Threads, Step(t), FindStepOf(t), CursorOK(t), ret[t] # "NOT_FOUND",
           key'[t] = key[t], want'[t] = want[t], stable'[t] = stable[t], seen'[t] = seen[t],
           lost'[t] = lost[t], idx'[t] = idx[t]
    PROVE  CursorOK(t)'
<1>1. Kept /\ state' = state
  BY FindFrame
<1> SUFFICES ASSUME NEW i \in Slots, NEW k \in KeyNos, NEW b \in Buckets,
                    Looks(t, k, b)', idx'[t] = i
             PROVE  CursorAt(t, i, k, b)'
  BY DEF CursorOK
<1>2. CursorAt(t, i, k, b)
  <2>1. Looks(t, k, b)
    BY DEF Looks, WantBucket
  <2> QED BY <2>1 DEF CursorOK
<1>3. PICK x \in Links, R \in SUBSET Slots :
         x = next[k][i] /\ Ahead(x, k, b, R) /\ stable[t] \ seen[t] \subseteq R
  BY <1>2 DEF CursorAt
<1>4. Ahead(x, k, b, R)'
  BY <1>3, FindAhead
<1>5. In(i, k, b)' /\ next' = next
  BY <1>1, <1>2 DEF CursorAt, Kept
<1> QED BY <1>1, <1>2, <1>3, <1>4, <1>5 DEF CursorAt

LEMMA FindOwnCall ==
    ASSUME BaseInv, NEW t \in Threads, Step(t), FindOK(t), CallFind(t)
    PROVE  FindOK(t)'
<1>0. LocalTypes /\ ScanTypes
  BY DEF BaseInv, Types
<1>1. pc[t] = "idle" /\ pc'[t] = "fd_lock" /\ op'[t] = "find" /\ ret' = ret /\ idx' = idx
  BY <1>0 DEF CallFind, Begin, Goto, LocalTypes
<1>2. idx[t] = FM_NULL_SLOT /\ ret[t] = "none"
  BY <1>1 DEF BaseInv, ArgsOK, FindPhase, FindOK
<1>3. PICK l \in Lookups :
         /\ key'[t] = l[1] /\ want'[t] = {l[2]}
         /\ stable'[t] = {i \in Active : row[i][l[1]] = l[2]}
  BY <1>0 DEF CallFind, LocalTypes, ScanTypes
<1>4. state' = state /\ row' = row
  BY DEF CallFind, Begin, slotVars
<1>5. StableOK(t)'
  <2>1. ~Settled(t)'
    BY <1>1, <1>2 DEF Settled
  <2>2. \A i \in stable'[t] : state[i] = "ACTIVE" /\ row[i][l[1]] \in want'[t]
    BY <1>3 DEF Active
  <2> QED BY <1>3, <1>4, <2>1, <2>2 DEF StableOK
<1>6. CursorOK(t)' /\ WalkOK(t)' /\ AnswerOK(t)'
  BY <1>1, <1>2, NullFacts DEF CursorOK, WalkOK, AnswerOK
<1> QED BY <1>1, <1>5, <1>6 DEF FindOK

LEMMA FindOwnNext ==
    ASSUME BaseInv, NEW t \in Threads, Step(t), FindOK(t), CallFindNext(t)
    PROVE  FindOK(t)'
<1>1. /\ op[t] = "find" /\ pc[t] = "done" /\ ret[t] = "OK" /\ pc' = [pc EXCEPT ![t] = "fd_lock"]
      /\ key' = key /\ want' = want /\ stable' = stable /\ seen' = seen /\ lost' = lost
      /\ idx' = idx /\ ret' = ret /\ op' = op
  BY DEF CallFindNext, Goto, argVars, walkVars, scanVars
<1>2. StableOK(t) /\ CursorOK(t) /\ Settled(t) /\ FindStepOf(t)
  BY <1>1 DEF FindOK, Settled, FindStepOf
<1>3. pc'[t] = "fd_lock"
  BY <1>1 DEF BaseInv, Types, LocalTypes
<1>4. StableOK(t)'
  BY <1>1, <1>2, StableKept
<1>5. CursorOK(t)'
  BY <1>1, <1>2, CursorKept
<1>6. WalkOK(t)' /\ AnswerOK(t)'
  BY <1>1, <1>3 DEF WalkOK, AnswerOK
<1> QED BY <1>1, <1>4, <1>5, <1>6 DEF FindOK

LEMMA FindOwnEnd ==
    ASSUME BaseInv, NEW t \in Threads, Step(t), EndFind(t)
    PROVE  FindOK(t)'
<1>1. op'[t] = "none" /\ ret'[t] = "none"
  BY DEF EndFind, Return, BaseInv, Types, LocalTypes
<1> QED BY <1>1 DEF FindOK

\* A lookup that takes its bucket lock: no update is moving a row to that bucket.
LEMMA LockFree ==
    ASSUME BaseInv, NEW k \in KeyNos, NEW b \in Buckets, block[k][b] = NoThread,
           NEW u \in Threads, NEW i, Pending(u, i, k)
    PROVE  Bucket(row[i][k]) # b /\ Bucket(old[u][k]) # b
<1>1. /\ pc[u] = "up_relink" /\ idx[u] = i /\ k \in Changed(u) /\ row[i] = new[u] /\ BlockOK(u)
  BY DEF Pending, BaseInv, RowOK, LockOK
<1>2. /\ <<k, Bucket(old[u][k])>> \in LockSet(u) /\ <<k, Bucket(new[u][k])>> \in LockSet(u)
      /\ ~HoldsBucket(u, k, b)
  BY <1>1, LockSetFacts, ThreadsAssumption DEF BlockOK
<1>3. <<k, b>> \notin LockSet(u)
  BY <1>1, <1>2 DEF HoldsBucket, UpPhase
<1> QED BY <1>1, <1>2, <1>3

LEMMA FindOwnBucket ==
    ASSUME BaseInv, ChainsOK, NEW t \in Threads, Step(t), FindOK(t), FindBucket(t)
    PROVE  FindOK(t)'
<1>0. LocalTypes /\ FindStepOf(t)
  BY DEF BaseInv, Types, FindStepOf
<1>1. /\ pc[t] = "fd_lock" /\ pc'[t] = "fd_walk" /\ op' = op /\ op[t] = "find"
      /\ key' = key /\ want' = want /\ stable' = stable /\ seen' = seen /\ lost' = lost
      /\ idx' = idx /\ ret' = ret
  BY <1>0 DEF FindBucket, Goto, argVars, scanVars, LocalTypes, BaseInv, ArgsOK, FindPhase
<1>2. PICK k \in KeyNos, b \in Buckets, v \in Vals :
         key[t] = k /\ want[t] = {v} /\ b = Bucket(v) /\ b = WantBucket(t)
  BY <1>1, FindFacts, WantFacts
<1>3. /\ block[k][b] = NoThread /\ h'[t] = head[k][b]
      /\ after'[t] = (idx[t] = FM_NULL_SLOT)
  BY <1>0, <1>2 DEF FindBucket, Lock, LocalTypes
<1>4. StableOK(t) /\ CursorOK(t) /\ AnswerOK(t) /\ ret[t] # "NOT_FOUND"
  BY <1>1 DEF FindOK, AnswerOK
<1>5. \A i \in stable[t] : i \in Slots /\ state[i] = "ACTIVE" /\ row[i][k] = v
  BY <1>2, <1>4 DEF StableOK, BaseInv, Types, ScanTypes
<1>6. \A i \in stable[t] : \A u \in Threads : ~Pending(u, i, k)
  <2>1. ASSUME NEW i \in stable[t], NEW u \in Threads, Pending(u, i, k) PROVE FALSE
    <3>1. Bucket(row[i][k]) # b
      BY <1>3, <2>1, LockFree
    <3> QED BY <1>2, <1>5, <3>1
  <2> QED BY <2>1
<1>7. StableOK(t)'
  <2>1. /\ state' = state /\ row' = row
        /\ \A u \in Threads : \A i \in Slots : \A l \in KeyNos : Pending(u, i, l)' => Pending(u, i, l)
    BY <1>0, FindFrame
  <2>2. \A i \in stable[t] : \A u \in Threads : ~Pending(u, i, k)'
    BY <1>5, <1>6, <2>1
  <2>3. ASSUME NEW l \in KeyNos, key'[t] = l, NEW i \in stable'[t]
        PROVE  /\ state'[i] = "ACTIVE" /\ row'[i][l] \in want'[t]
               /\ \A u \in Threads : ~Pending(u, i, l)'
    BY <1>1, <1>2, <1>5, <2>1, <2>2, <2>3
  <2> QED BY <2>3 DEF StableOK
<1>8. CursorOK(t)'
  BY <1>0, <1>1, <1>4, CursorKept
<1>9. WalkOK(t)'
  <2> SUFFICES ASSUME NEW x \in Links, NEW l \in KeyNos, NEW c \in Buckets,
                      Looks(t, l, c)', h'[t] = x
               PROVE  WalkAt(t, x, l, c)'
    BY DEF WalkOK
  <2>1. l = k /\ c = b /\ Looks(t, k, b) /\ x = head[k][b]
    BY <1>1, <1>2, <1>3 DEF Looks, WantBucket
  <2>2. Members(k, b) \in SUBSET Slots /\ Ahead(x, k, b, Members(k, b))
    BY <2>1 DEF ChainsOK, Members, Ahead
  <2>3. PICK R \in SUBSET Slots : R = Members(k, b)
    BY <2>2
  <2>4. Ahead(x, k, b, R)'
    BY <1>0, <2>2, <2>3, FindAhead
  <2>5. stable[t] \subseteq R
    BY <1>2, <1>5, <1>6, <2>3 DEF Members, In
  <2>6. ASSUME ~after'[t] PROVE idx[t] \in R
    <3>1. PICK i \in Slots : i = idx[t]
      BY <1>0, <1>3, <2>6 DEF LocalTypes, Links
    <3>2. In(i, k, b)
      BY <1>4, <2>1, <3>1 DEF CursorOK, CursorAt
    <3> QED BY <2>3, <3>1, <3>2 DEF Members
  <2>7. WalkAt(t, x, k, b)'
    BY <1>1, <2>4, <2>5, <2>6 DEF WalkAt
  <2> QED BY <2>1, <2>7
<1>10. AnswerOK(t)'
  BY <1>1, <1>4 DEF AnswerOK
<1> QED BY <1>1, <1>7, <1>8, <1>9, <1>10 DEF FindOK

\* The walk of a lookup: what it has ahead of it.
LEMMA WalkFacts ==
    ASSUME BaseInv, NEW t \in Threads, FindOK(t), pc[t] = "fd_walk"
    PROVE  /\ op[t] = "find" /\ Settled(t) /\ ret[t] # "NOT_FOUND"
           /\ StableOK(t) /\ CursorOK(t) /\ h[t] \in Links
           /\ \E k \in KeyNos : \E b \in Buckets :
                 /\ key[t] = k /\ WantBucket(t) = b
                 /\ ~lost[t] => Looks(t, k, b) /\ WalkAt(t, h[t], k, b)
<1>1. op[t] = "find" /\ Settled(t) /\ h[t] \in Links
  BY DEF BaseInv, Types, LocalTypes, ArgsOK, FindPhase, Settled
<1>2. StableOK(t) /\ CursorOK(t) /\ WalkOK(t) /\ ret[t] # "NOT_FOUND"
  BY <1>1 DEF FindOK, AnswerOK
<1>3. PICK k \in KeyNos, b \in Buckets : key[t] = k /\ WantBucket(t) = b
  BY <1>1, FindFacts, WantFacts
<1>4. ~lost[t] => Looks(t, k, b) /\ WalkAt(t, h[t], k, b)
  BY <1>1, <1>2, <1>3 DEF WalkOK, Looks
<1> QED BY <1>1, <1>2, <1>3, <1>4

\* A walk goes on to the next row.
LEMMA AheadOn ==
    ASSUME NEW x \in Links, x # FM_NULL_SLOT, NEW k, NEW b, NEW R \in SUBSET Slots,
           Ahead(x, k, b, R)
    PROVE  /\ x \in Slots /\ x \in R /\ In(x, k, b)
           /\ R \ {x} \in SUBSET Slots /\ Ahead(next[k][x], k, b, R \ {x})
<1>1. x \in Slots
  BY DEF Links
<1>2. x \in R /\ Chain(next[k][x], next[k], R \ {x})
  BY <1>1, ChainNext DEF Ahead
<1> QED BY <1>1, <1>2 DEF Ahead

LEMMA FindOwnStep ==
    ASSUME BaseInv, NEW t \in Threads, Step(t), FindOK(t), FindStep(t)
    PROVE  FindOK(t)'
<1>0. /\ LocalTypes /\ ChainTypes /\ FindStepOf(t) /\ pc[t] = "fd_walk" /\ h[t] # FM_NULL_SLOT
      /\ ~Hit(t)
  BY DEF BaseInv, Types, FindStepOf, FindStep
<1>1. /\ pc' = pc /\ op' = op /\ key' = key /\ want' = want /\ stable' = stable /\ seen' = seen
      /\ lost' = lost /\ idx' = idx /\ ret' = ret
  BY DEF FindStep, argVars, scanVars
<1>2. h'[t] = next[key[t]][h[t]] /\ after'[t] = (after[t] \/ h[t] = idx[t])
  BY <1>0 DEF FindStep, LocalTypes
<1>3. /\ op[t] = "find" /\ Settled(t) /\ ret[t] # "NOT_FOUND" /\ StableOK(t) /\ CursorOK(t)
      /\ h[t] \in Links
  BY <1>0, WalkFacts
<1>4. PICK k \in KeyNos, b \in Buckets : /\ key[t] = k /\ WantBucket(t) = b
                                         /\ ~lost[t] => Looks(t, k, b) /\ WalkAt(t, h[t], k, b)
  BY <1>0, WalkFacts
<1>5. StableOK(t)'
  BY <1>0, <1>1, <1>3, StableKept
<1>6. CursorOK(t)'
  BY <1>0, <1>1, <1>3, CursorKept
<1>7. AnswerOK(t)'
  BY <1>1, <1>3 DEF AnswerOK
<1>8. WalkOK(t)'
  <2> SUFFICES ASSUME NEW y \in Links, NEW l \in KeyNos, NEW c \in Buckets,
                      Looks(t, l, c)', h'[t] = y
               PROVE  WalkAt(t, y, l, c)'
    BY DEF WalkOK
  <2>1. l = k /\ c = b /\ ~lost[t] /\ Looks(t, k, b)
    BY <1>1, <1>4 DEF Looks, WantBucket
  <2>2. PICK x \in Links : x = h[t] /\ x # FM_NULL_SLOT
    BY <1>0, <1>3
  <2>3. PICK R \in SUBSET Slots : /\ Ahead(x, k, b, R)
                                  /\ after[t] => stable[t] \ seen[t] \subseteq R
                                  /\ ~after[t] => idx[t] \in R
    BY <1>4, <2>1, <2>2 DEF WalkAt
  <2>4. x \in Slots /\ x \in R /\ R \ {x} \in SUBSET Slots /\ Ahead(next[k][x], k, b, R \ {x})
    BY <2>2, <2>3, AheadOn
  <2>5. y = next[k][x]
    BY <1>2, <1>4, <2>2
  <2>6. ASSUME NEW Q \in SUBSET Slots, Ahead(y, k, b, Q),
               after'[t] => stable[t] \ seen[t] \subseteq Q,
               ~after'[t] => idx[t] \in Q
        PROVE  WalkAt(t, y, l, c)'
    <3>1. Ahead(y, k, b, Q)'
      BY <1>0, <2>6, FindAhead
    <3>2. WalkAt(t, y, k, b)'
      BY <1>1, <2>6, <3>1 DEF WalkAt
    <3> QED BY <2>1, <3>2
  <2>7. ASSUME idx[t] \in Slots PROVE CursorAt(t, idx[t], k, b)
    BY <1>3, <2>1, <2>7 DEF CursorOK
  <2>8. CASE after[t]
    <3>1. x \notin stable[t] \ seen[t]
      <4>1. ASSUME x \in stable[t], x \notin seen[t] PROVE FALSE
        <5>1. state[x] = "ACTIVE" /\ row[x][k] \in want[t]
          BY <1>3, <1>4, <4>1 DEF StableOK
        <5>2. x = idx[t]
          BY <1>0, <1>4, <2>2, <2>8, <5>1 DEF Hit
        <5> QED BY <2>4, <2>7, <4>1, <5>2 DEF CursorAt
      <4> QED BY <4>1
    <3>2. stable[t] \ seen[t] \subseteq R \ {x}
      BY <2>3, <2>8, <3>1
    <3> QED BY <1>2, <2>4, <2>5, <2>6, <2>8, <3>2
  <2>9. CASE ~after[t] /\ x = idx[t]
    <3>1. CursorAt(t, x, k, b)
      BY <2>4, <2>7, <2>9
    <3>2. PICK z \in Links, Q \in SUBSET Slots :
             z = next[k][x] /\ Ahead(z, k, b, Q) /\ stable[t] \ seen[t] \subseteq Q
      BY <3>1 DEF CursorAt
    <3>3. Ahead(y, k, b, Q) /\ after'[t]
      BY <1>2, <2>2, <2>5, <2>9, <3>2
    <3> QED BY <2>6, <3>2, <3>3
  <2>10. CASE ~after[t] /\ x # idx[t]
    <3>1. idx[t] \in R \ {x} /\ ~after'[t]
      BY <1>2, <2>2, <2>3, <2>10
    <3> QED BY <2>4, <2>5, <2>6, <3>1
  <2> QED BY <2>8, <2>9, <2>10
<1> QED BY <1>1, <1>3, <1>5, <1>6, <1>7, <1>8 DEF FindOK

LEMMA FindOwnHit ==
    ASSUME BaseInv, NEW t \in Threads, Step(t), FindOK(t), FindHit(t)
    PROVE  FindOK(t)'
<1>0. LocalTypes /\ ScanTypes /\ FindStepOf(t) /\ pc[t] = "fd_walk" /\ h[t] # FM_NULL_SLOT /\ Hit(t)
  BY DEF BaseInv, Types, FindStepOf, FindHit
<1>1. /\ op' = op /\ key' = key /\ want' = want /\ stable' = stable /\ lost' = lost
      /\ state' = state
  BY DEF FindHit, walkVars, slotVars
<1>2. pc'[t] = "done" /\ ret'[t] = "OK" /\ idx'[t] = h[t] /\ seen'[t] = seen[t] \cup {h[t]}
  BY <1>0 DEF FindHit, Answer, Goto, LocalTypes, ScanTypes
<1>3. op[t] = "find" /\ Settled(t) /\ StableOK(t) /\ h[t] \in Links
  BY <1>0, WalkFacts
<1>4. PICK k \in KeyNos, b \in Buckets : /\ key[t] = k /\ WantBucket(t) = b
                                         /\ ~lost[t] => Looks(t, k, b) /\ WalkAt(t, h[t], k, b)
  BY <1>0, WalkFacts
<1>5. StableOK(t)'
  BY <1>0, <1>1, <1>3, StableKept
<1>6. CursorOK(t)'
  <2> SUFFICES ASSUME NEW i \in Slots, NEW l \in KeyNos, NEW c \in Buckets,
                      Looks(t, l, c)', idx'[t] = i
               PROVE  CursorAt(t, i, l, c)'
    BY DEF CursorOK
  <2>1. l = k /\ c = b /\ ~lost[t] /\ i = h[t] /\ i \in Links /\ i # FM_NULL_SLOT
    BY <1>0, <1>1, <1>2, <1>3, <1>4 DEF Looks, WantBucket
  <2>2. after[t] /\ state[i] = "ACTIVE"
    BY <1>0, <2>1 DEF Hit
  <2>3. PICK R \in SUBSET Slots : Ahead(i, k, b, R) /\ stable[t] \ seen[t] \subseteq R
    BY <1>4, <2>1, <2>2 DEF WalkAt
  <2>4. In(i, k, b) /\ R \ {i} \in SUBSET Slots /\ Ahead(next[k][i], k, b, R \ {i})
    BY <2>1, <2>3, AheadOn
  <2>5. Kept
    BY <1>0, FindFrame
  <2>6. PICK x \in Links : x = next[k][i]
    BY DEF BaseInv, Types, ChainTypes
  <2>7. In(i, k, b)' /\ x = next'[k][i] /\ Ahead(x, k, b, R \ {i})'
    BY <1>0, <2>4, <2>5, <2>6, FindAhead DEF Kept
  <2>8. i \in seen'[t] /\ stable'[t] \ seen'[t] \subseteq R \ {i}
    BY <1>1, <1>2, <2>1, <2>3
  <2>9. CursorAt(t, i, k, b)'
    BY <1>1, <2>2, <2>4, <2>7, <2>8 DEF CursorAt
  <2> QED BY <2>1, <2>9
<1>7. AnswerOK(t)' /\ WalkOK(t)'
  BY <1>2 DEF AnswerOK, WalkOK
<1> QED BY <1>1, <1>3, <1>5, <1>6, <1>7 DEF FindOK

LEMMA FindOwnMiss ==
    ASSUME WellOrdered, BaseInv, NEW t \in Threads, Step(t), FindOK(t), FindMiss(t)
    PROVE  FindOK(t)'
<1>0. LocalTypes /\ FindStepOf(t) /\ pc[t] = "fd_walk" /\ h[t] = FM_NULL_SLOT
  BY DEF BaseInv, Types, FindStepOf, FindMiss
<1>1. /\ op' = op /\ key' = key /\ want' = want /\ stable' = stable /\ lost' = lost /\ seen' = seen
      /\ idx' = idx
  BY DEF FindMiss, argVars, walkVars, scanVars
<1>2. pc'[t] = "done" /\ ret'[t] = "NOT_FOUND"
  BY <1>0 DEF FindMiss, Answer, Goto, LocalTypes
<1>3. op[t] = "find" /\ Settled(t) /\ StableOK(t)
  BY <1>0, WalkFacts
<1>4. PICK k \in KeyNos, b \in Buckets : ~lost[t] => WalkAt(t, FM_NULL_SLOT, k, b)
  BY <1>0, WalkFacts
<1>5. StableOK(t)'
  BY <1>0, <1>1, <1>3, StableKept
<1>6. ASSUME ~lost[t] PROVE stable[t] \subseteq seen[t]
  <2>1. PICK R \in SUBSET Slots : /\ Ahead(FM_NULL_SLOT, k, b, R)
                                  /\ after[t] => stable[t] \ seen[t] \subseteq R
                                  /\ ~after[t] => idx[t] \in R
    BY <1>4, <1>6 DEF WalkAt
  <2>2. R = {}
    BY <2>1, ChainEnd DEF Ahead
  <2> QED BY <2>1, <2>2
<1>7. AnswerOK(t)' /\ WalkOK(t)' /\ CursorOK(t)'
  BY <1>1, <1>2, <1>6 DEF AnswerOK, WalkOK, CursorOK
<1> QED BY <1>1, <1>3, <1>5, <1>7 DEF FindOK

\* Every step keeps every lookup.
LEMMA FindInvStep ==
    ASSUME WellOrdered, BaseInv, ChainsOK, NEW t \in Threads, Step(t), NEW u \in Threads, FindOK(u)
    PROVE  FindOK(u)'
<1>1. CASE u # t
  BY <1>1, FindOthers
<1>2. CASE u = t
  <2>1. CASE FindStepOf(t)
    BY <1>2, <2>1, FindOwnCall, FindOwnNext, FindOwnEnd, FindOwnBucket, FindOwnStep,
       FindOwnHit, FindOwnMiss DEF FindStepOf
  <2>2. CASE op[t] # "find" /\ op'[t] # "find" /\ ret'[t] = ret[t]
    BY <1>2, <2>2 DEF FindOK
  <2> QED BY <2>1, <2>2, LocalStep DEF LocalEffects
<1> QED BY <1>1, <1>2

-----------------------------------------------------------------------------
(* Unique keys.                                                            *)

\* Where a row that counts after a step comes from.
LiveFrom(t, j, k) ==
    \/ Live(j, k) /\ row'[j][k] = row[j][k]
    \/ InsertLink(t) /\ j = idx[t] /\ k = key[t] /\ row' = row
    \/ UpdateWrite(t) /\ j = idx[t] /\ k \in Changed(t) /\ row'[j] = new[t]
LiveDelta(t, j, k) == LiveFrom(t, j, k) /\ (j \in raced => j \in raced')

LEMMA LiveNext ==
    ASSUME BaseInv, NEW t \in Threads, Step(t), NEW j, NEW k, Live(j, k)'
    PROVE  \/ state'[j] = "ACTIVE" \/ Inserting(t, j, k)'
           \/ \E u \in Threads \ {t} : Inserting(u, j, k)
<1>1. \A u \in Threads \ {t} : Inserting(u, j, k)' => Inserting(u, j, k)
  <2>1. ASSUME NEW u \in Threads \ {t} PROVE Inserting(u, j, k)' => Inserting(u, j, k)
    <3>1. SameLocals(u)
      BY OthersSame DEF BaseInv, Types
    <3> QED BY <3>1 DEF SameLocals, Inserting
  <2> QED BY <2>1
<1> QED BY <1>1 DEF Live

\* An insert holds struct_mutex: no other thread inserts, and it links no row of
\* another.
LEMMA OnlyInserting ==
    ASSUME BaseInv, NEW t \in Threads, NEW u \in Threads \ {t}, NEW j, NEW k, Inserting(u, j, k)
    PROVE  /\ pc[t] \notin InsPhase /\ struct_mutex # NoThread
           /\ pc[t] \in RowPhase => idx[t] # j
<1>1. pc[u] \in InsPhase /\ idx[u] = j
  BY DEF Inserting, LivePhase, InsPhase
<1>2. struct_mutex = u /\ u # NoThread
  BY <1>1, ThreadsAssumption DEF BaseInv, LockOK, MutexOK
<1>3. pc[t] \notin InsPhase
  BY <1>2 DEF BaseInv, LockOK, MutexOK
<1>4. pc[t] \in RowPhase => idx[t] # j
  BY <1>1, SlotOwner
<1> QED BY <1>2, <1>3, <1>4

LEMMA LiveAlloc ==
    ASSUME BaseInv, NEW t \in Threads, Step(t), InsertAlloc(t), NEW j \in Slots, NEW k \in KeyNos,
           Live(j, k)'
    PROVE  LiveDelta(t, j, k)
<1>0. LocalTypes /\ SlotTypes /\ ArgsOK(t)
  BY DEF BaseInv, Types
<1>1. /\ state' = state /\ raced' = raced /\ struct_mutex = NoThread /\ pc'[t] = "ins_bucket"
      /\ key' = key /\ key[t] = 0 /\ row' = [row EXCEPT ![Head(free)] = new[t]]
  BY <1>0 DEF InsertAlloc, Goto, walkVars, LocalTypes, ArgsOK
<1>2. ~Inserting(t, j, k)'
  <2>1. ~(k < 0)
    BY SMTT(30), KeysAssumption DEF KeyNos
  <2> QED BY <1>1, <2>1 DEF Inserting
<1>3. \A u \in Threads \ {t} : ~Inserting(u, j, k)
  BY <1>1, OnlyInserting
<1>4. state[j] = "ACTIVE"
  BY <1>1, <1>2, <1>3, LiveNext
<1>5. row'[j] = row[j]
  <2>1. ~Truncate(t) /\ ~Delete(t) /\ ~UpdateWrite(t)
    BY DEF InsertAlloc, Truncate, Delete, UpdateWrite
  <2> QED BY <1>4, <2>1, ActiveKept
<1> QED BY <1>1, <1>4, <1>5 DEF LiveDelta, LiveFrom, Live

LEMMA LiveLink ==
    ASSUME BaseInv, NEW t \in Threads, Step(t), InsertLink(t), NEW j \in Slots, NEW k \in KeyNos,
           Live(j, k)'
    PROVE  LiveDelta(t, j, k)
<1>0. LocalTypes /\ ArgsOK(t)
  BY DEF BaseInv, Types
<1>1. /\ state' = state /\ raced' = raced /\ row' = row /\ idx' = idx /\ pc[t] = "ins_walk"
      /\ key'[t] = key[t] + 1 /\ key[t] \in KeyNos
  BY <1>0 DEF InsertLink, slotVars, argVars, LocalTypes, ArgsOK
<1>2. ASSUME Inserting(t, j, k)' PROVE Inserting(t, j, k) \/ (j = idx[t] /\ k = key[t])
  <2>1. k < key[t] + 1 /\ idx[t] = j
    BY <1>1, <1>2 DEF Inserting
  <2>2. k < key[t] \/ k = key[t]
    BY SMTT(30), <1>1, <2>1, KeysAssumption DEF KeyNos
  <2> QED BY <1>1, <2>1, <2>2 DEF Inserting, LivePhase
<1>3. Live(j, k) \/ (j = idx[t] /\ k = key[t])
  BY <1>1, <1>2, LiveNext DEF Live
<1> QED BY <1>1, <1>3 DEF LiveDelta, LiveFrom

LEMMA LivePublish ==
    ASSUME BaseInv, NEW t \in Threads, Step(t), InsertPublish(t), NEW j \in Slots, NEW k \in KeyNos,
           Live(j, k)'
    PROVE  LiveDelta(t, j, k)
<1>0. LocalTypes /\ SlotTypes /\ ArgsOK(t)
  BY DEF BaseInv, Types
<1>1. /\ state' = [state EXCEPT ![idx[t]] = "ACTIVE"] /\ raced' = raced /\ row' = row
      /\ pc[t] = "ins_publish" /\ pc'[t] = "idle" /\ key[t] = keys
  BY <1>0, ReturnFacts DEF InsertPublish, ArgsOK
<1>2. Inserting(t, idx[t], k)
  <2>1. k < key[t]
    BY <1>1, KeyNoFacts
  <2> QED BY <1>1, <2>1 DEF Inserting, LivePhase
<1>3. ~Inserting(t, j, k)'
  BY <1>1 DEF Inserting, LivePhase
<1>4. Live(j, k)
  <2>1. j # idx[t] => state'[j] = state[j]
    BY <1>0, <1>1 DEF SlotTypes
  <2> QED BY <1>2, <1>3, <2>1, LiveNext DEF Live
<1> QED BY <1>1, <1>4 DEF LiveDelta, LiveFrom

LEMMA LiveFree ==
    ASSUME BaseInv, NEW t \in Threads, Step(t), InsertFree(t), NEW j \in Slots, NEW k \in KeyNos,
           Live(j, k)'
    PROVE  LiveDelta(t, j, k)
<1>0. LocalTypes /\ RowOK(t)
  BY DEF BaseInv, Types
<1>1. /\ state' = state /\ raced' = raced \ {idx[t]} /\ row' = row
      /\ pc[t] = "ins_free" /\ pc'[t] = "idle" /\ state[idx[t]] \in {"FREE", "DELETED"}
  BY <1>0, ReturnFacts DEF InsertFree, RowOK, InsPhase, slotVars
<1>2. ~Inserting(t, j, k)' /\ \A u \in Threads \ {t} : ~Inserting(u, j, k)
  BY <1>1, OnlyInserting DEF Inserting, LivePhase, InsPhase
<1>3. state[j] = "ACTIVE" /\ j # idx[t]
  BY <1>1, <1>2, LiveNext
<1> QED BY <1>1, <1>3 DEF LiveDelta, LiveFrom, Live

LEMMA LiveDelete ==
    ASSUME BaseInv, NEW t \in Threads, Step(t), Delete(t) \/ DeleteDead(t), NEW j \in Slots,
           NEW k \in KeyNos, Live(j, k)'
    PROVE  LiveDelta(t, j, k)
<1>0. LocalTypes /\ SlotTypes /\ idx[t] \in Links
  BY DEF BaseInv, Types, LocalTypes
<1>1. /\ row' = row /\ pc'[t] \in {"dl_unlink", "dl_push"} /\ pc[t] \in RowPhase
      /\ \/ state' = [state EXCEPT ![idx[t]] = "DELETING"]
         \/ state' = [state EXCEPT ![idx[t]] = "DELETED"]
      /\ raced' = raced \/ raced' = raced \ {idx[t]}
  BY <1>0 DEF Delete, DeleteDead, Goto, LocalTypes, RowPhase, DelPhase
<1>2. ~Inserting(t, j, k)'
  BY <1>1 DEF Inserting, LivePhase
<1>3. Live(j, k) /\ j # idx[t]
  <2>1. CASE state'[j] = "ACTIVE"
    BY <1>0, <1>1, <2>1 DEF Live, SlotTypes
  <2>2. ASSUME NEW u \in Threads \ {t}, Inserting(u, j, k) PROVE Live(j, k) /\ j # idx[t]
    BY <1>1, <2>2, OnlyInserting DEF Live
  <2> QED BY <1>2, <2>1, <2>2, LiveNext
<1> QED BY <1>1, <1>3 DEF LiveDelta, LiveFrom

LEMMA LiveWrite ==
    ASSUME BaseInv, NEW t \in Threads, Step(t), UpdateWrite(t), NEW j \in Slots, NEW k \in KeyNos,
           Live(j, k)'
    PROVE  LiveDelta(t, j, k)
<1>0. LocalTypes /\ SlotTypes /\ RowOK(t) /\ idx[t] \in Links
  BY DEF BaseInv, Types, LocalTypes
<1>1. /\ state' = state /\ raced' = raced /\ row' = [row EXCEPT ![idx[t]] = new[t]]
      /\ pc[t] = "up_write" /\ row[idx[t]] = old[t]
  BY <1>0 DEF UpdateWrite, RowOK
<1>2. ~Inserting(t, j, k)'
  <2>1. pc'[t] \in {"idle", "up_relink"}
    BY <1>0, ReturnFacts DEF UpdateWrite, UnlockRow, Goto, LocalTypes
  <2> QED BY <2>1 DEF Inserting, LivePhase
<1>3. Live(j, k)
  BY <1>1, <1>2, LiveNext DEF Live
<1>4. \/ row'[j][k] = row[j][k]
      \/ j = idx[t] /\ k \in Changed(t) /\ row'[j] = new[t]
  <2>1. CASE j # idx[t]
    BY <1>0, <1>1, <2>1 DEF SlotTypes
  <2>2. CASE j = idx[t]
    BY <1>0, <1>1, <2>2 DEF SlotTypes, Changed
  <2> QED BY <2>1, <2>2
<1> QED BY <1>1, <1>3, <1>4 DEF LiveDelta, LiveFrom

LEMMA LiveTruncate ==
    ASSUME BaseInv, NEW t \in Threads, Step(t), Truncate(t), NEW j \in Slots, NEW k
    PROVE  ~Live(j, k)'
<1>1. state'[j] = "FREE" /\ \A u \in Threads : pc'[u] = "idle"
  BY DEF Truncate
<1> QED BY <1>1 DEF Live, Inserting, LivePhase

LEMMA LiveDeltas ==
    ASSUME BaseInv, NEW t \in Threads, Step(t), NEW j \in Slots, NEW k \in KeyNos, Live(j, k)'
    PROVE  LiveDelta(t, j, k)
<1>1. CASE LiveKept
  BY <1>1 DEF LiveKept, LiveDelta, LiveFrom
<1> QED BY <1>1, QuietStep, LiveAlloc, LiveLink, LivePublish, LiveFree, LiveDelete, LiveWrite,
          LiveTruncate DEF LiveStep

\* While thread u holds the bucket lock of value v, no step of another makes a
\* row with that value count, and the checks u has made stay valid.
LEMMA MeetsHeld ==
    ASSUME BaseInv, NEW t \in Threads, Step(t), NEW u \in Threads \ {t}, NEW i, NEW k \in KeyNos,
           NEW v \in Vals, block[k][Bucket(v)] = u, NEW R, Meets(i, k, v, R)
    PROVE  Meets(i, k, v, R)'
<1>1. ~HoldsBucket(t, k, Bucket(v)) \/ pc[t] = "up_bucket"
  BY BucketIn DEF BaseInv, LockOK, BlockOK
<1>2. ASSUME NEW j \in Slots, j # i, Live(j, k)', row'[j][k] = v PROVE j \in R \/ j \in raced'
  <2>1. LiveDelta(t, j, k)
    BY <1>2, LiveDeltas
  <2>2. CASE Live(j, k) /\ row'[j][k] = row[j][k]
    BY <1>2, <2>1, <2>2 DEF Meets, LiveDelta
  <2>3. ~(InsertLink(t) /\ j = idx[t] /\ k = key[t] /\ row' = row)
    <3>1. ASSUME InsertLink(t), j = idx[t], k = key[t], row' = row PROVE FALSE
      <4>1. pc[t] = "ins_walk"
        BY <3>1 DEF InsertLink
      <4>2. row[j] = new[t]
        BY <3>1, <4>1 DEF BaseInv, RowOK, InsPhase
      <4>3. HoldsBucket(t, k, Bucket(v))
        BY <1>2, <3>1, <4>1, <4>2 DEF HoldsBucket, NewBucket
      <4> QED BY <1>1, <4>1, <4>3
    <3> QED BY <3>1
  <2>4. ~(UpdateWrite(t) /\ j = idx[t] /\ k \in Changed(t) /\ row'[j] = new[t])
    <3>1. ASSUME UpdateWrite(t), k \in Changed(t), row'[j] = new[t] PROVE FALSE
      <4>1. pc[t] = "up_write"
        BY <3>1 DEF UpdateWrite
      <4>2. <<k, Bucket(v)>> \in LockSet(t)
        BY <1>2, <3>1, LockSetFacts
      <4>3. HoldsBucket(t, k, Bucket(v))
        BY <4>1, <4>2 DEF HoldsBucket, UpPhase
      <4> QED BY <1>1, <4>1, <4>3
    <3> QED BY <3>1
  <2> QED BY <2>1, <2>2, <2>3, <2>4 DEF LiveDelta, LiveFrom
<1> QED BY <1>2 DEF Meets

\* A duplicate check holds the bucket lock of every key it walks or has walked.
Checking(t, k) == (pc[t] \in {"ins_walk", "up_walk"} /\ key[t] = k) \/ Checked(t, k)

LEMMA ChecksHeld ==
    ASSUME BaseInv, NEW u \in Threads, NEW k \in KeyNos, NEW v \in Vals, new[u][k] = v,
           Checking(u, k)
    PROVE  block[k][Bucket(v)] = u /\ pc[u] # "idle"
<1>1. Bucket(v) \in Buckets /\ BlockOK(u)
  BY BucketIn DEF BaseInv, LockOK
<1>2. CASE pc[u] = "ins_walk" /\ key[u] = k
  BY <1>1, <1>2 DEF BlockOK, HoldsBucket, NewBucket
<1>3. CASE pc[u] \in {"up_walk", "up_write"} /\ k \in Changed(u)
  <2>1. <<k, Bucket(v)>> \in LockSet(u)
    BY <1>3, LockSetFacts
  <2> QED BY <1>1, <1>3, <2>1 DEF BlockOK, HoldsBucket, UpPhase
<1>4. pc[u] = "up_walk" => key[u] \in Changed(u)
  BY DEF BaseInv, ArgsOK
<1> QED BY <1>2, <1>3, <1>4 DEF Checking, Checked

LEMMA DupOthers ==
    ASSUME WellOrdered, BaseInv, ChainsOK, NEW t \in Threads, Step(t), NEW u \in Threads \ {t},
           DupOK(u), CheckedOK(u)
    PROVE  DupOK(u)' /\ CheckedOK(u)'
<1>1. SameLocals(u)
  BY OthersSame DEF BaseInv, Types
<1>2. pc'[u] = pc[u] /\ idx'[u] = idx[u] /\ key'[u] = key[u] /\ new'[u] = new[u] /\ h'[u] = h[u]
  BY <1>1 DEF SameLocals
<1>3. ASSUME NEW x \in Links, NEW i \in Slots, NEW k \in KeyNos, NEW v \in Vals,
             Checks(u, i, k, v)', h'[u] = x
      PROVE  DupAt(x, i, k, v)'
  <2>1. Checks(u, i, k, v) /\ h[u] = x
    BY <1>2, <1>3 DEF Checks
  <2>2. PICK R \in SUBSET Slots : Ahead(x, k, Bucket(v), R) /\ Meets(i, k, v, R)
    BY <2>1 DEF DupOK, DupAt
  <2>3. block[k][Bucket(v)] = u /\ pc[u] # "idle" /\ Bucket(v) \in Buckets
    <3>1. new[u][k] = v /\ Checking(u, k)
      BY <2>1 DEF Checks, Checking
    <3>2. block[k][Bucket(v)] = u /\ pc[u] # "idle"
      BY <3>1, ChecksHeld
    <3> QED BY <3>2, BucketIn
  <2>4. PICK b \in Buckets : b = Bucket(v)
    BY <2>3
  <2>5. ~Truncate(t)
    BY <2>3 DEF Truncate
  <2>6. Ahead(x, k, b, R)'
    <3>1. AheadNext(x, k, b, R)
      BY <2>2, <2>3, <2>4, <2>5, AheadHeld
    <3> QED BY <3>1, AheadPrime
  <2>7. Meets(i, k, v, R)'
    BY <2>2, <2>3, MeetsHeld
  <2> QED BY <2>4, <2>6, <2>7 DEF DupAt
<1>4. ASSUME NEW i \in Slots, NEW k \in KeyNos, NEW v \in Vals,
             Checked(u, k)', idx'[u] = i, new'[u][k] = v, Guarded(k, v)
      PROVE  Meets(i, k, v, {})'
  <2>1. Changed(u)' = Changed(u)
    BY <1>1, LockSetSame DEF SameLocals
  <2>2. Checked(u, k) /\ idx[u] = i /\ new[u][k] = v
    BY <1>2, <1>4, <2>1 DEF Checked
  <2>3. Meets(i, k, v, {}) /\ block[k][Bucket(v)] = u
    <3>1. Checking(u, k)
      BY <2>2 DEF Checking
    <3> QED BY <1>4, <2>2, <3>1, ChecksHeld DEF CheckedOK
  <2> QED BY <2>3, MeetsHeld
<1>5. DupOK(u)'
  BY <1>3 DEF DupOK
<1>6. CheckedOK(u)'
  BY <1>4 DEF CheckedOK, Guarded
<1> QED BY <1>5, <1>6

\* A duplicate check starts: every row with its value is in the chain.
LEMMA Fresh ==
    ASSUME BaseInv, NEW t \in Threads, pc[t] # "up_relink", NEW k \in KeyNos, NEW v \in Vals,
           block[k][Bucket(v)] \in {NoThread, t}, NEW i
    PROVE  Meets(i, k, v, Members(k, Bucket(v)))
<1>1. ASSUME NEW j \in Slots, Live(j, k), row[j][k] = v PROVE In(j, k, Bucket(v))
  <2>1. state[j] = "ACTIVE" \/ \E u \in Threads : Mine(u, j, k)
    BY <1>1 DEF Live, Inserting, LivePhase, Mine
  <2>2. ASSUME NEW u \in Threads, Pending(u, j, k) PROVE FALSE
    <3>1. /\ pc[u] = "up_relink" /\ idx[u] = j /\ k \in Changed(u) /\ row[j] = new[u] /\ BlockOK(u)
          /\ u # t
      BY <2>2 DEF Pending, BaseInv, RowOK, LockOK
    <3>2. <<k, Bucket(v)>> \in LockSet(u)
      BY <1>1, <3>1, LockSetFacts
    <3>3. block[k][Bucket(v)] = u
      BY <3>1, <3>2, BucketIn DEF BlockOK, HoldsBucket, UpPhase
    <3> QED BY <3>1, <3>3, ThreadsAssumption
  <2> QED BY <1>1, <2>1, <2>2 DEF In
<1> QED BY <1>1 DEF Meets, Members

\* The steps of a duplicate check change no row and no chain.
LEMMA CheckFrame ==
    ASSUME BaseInv, NEW t \in Threads, Step(t), CheckStep(t)
    PROVE  Kept /\ LiveKept
<1>1. CASE UpdateWalk(t)
  <2>0. LocalTypes
    BY DEF BaseInv, Types
  <2>1. /\ head' = head /\ next' = next /\ state' = state /\ row' = row /\ raced \subseteq raced'
        /\ pc[t] \notin LinkPhase /\ pc'[t] \notin LinkPhase
    BY <1>1 DEF UpdateWalk, DupStep, Pass, chainVars, slotVars, LinkPhase
  <2> QED BY <2>1, Idle
<1> QED BY <1>1, KeepInsertBucket, KeepInsertWalk, KeepUpdateBucket, KeepUpdateChecked, KeepUpdate
          DEF CheckStep

LEMMA CheckAhead ==
    ASSUME BaseInv, NEW t \in Threads, Step(t), CheckStep(t), NEW k \in KeyNos, NEW b \in Buckets,
           NEW x, NEW R, Ahead(x, k, b, R)
    PROVE  Ahead(x, k, b, R)'
<1>1. AheadNext(x, k, b, R)
  BY CheckFrame, AheadKept
<1> QED BY <1>1, AheadPrime

LEMMA CheckMeets ==
    ASSUME BaseInv, NEW t \in Threads, Step(t), CheckStep(t), NEW i, NEW k \in KeyNos, NEW v, NEW R,
           Meets(i, k, v, R)
    PROVE  Meets(i, k, v, R)'
<1>1. LiveKept
  BY CheckFrame
<1> QED BY <1>1 DEF LiveKept, Meets

LEMMA DupStart ==
    ASSUME BaseInv, ChainsOK, NEW t \in Threads, Step(t), CheckStep(t), pc[t] # "up_relink",
           NEW i \in Slots, NEW k \in KeyNos, NEW v \in Vals, block[k][Bucket(v)] \in {NoThread, t},
           NEW x, x = head[k][Bucket(v)]
    PROVE  DupAt(x, i, k, v)'
<1>1. PICK b \in Buckets, R \in SUBSET Slots : b = Bucket(v) /\ R = Members(k, b)
  BY BucketIn DEF Members
<1>2. Meets(i, k, v, R) /\ Ahead(x, k, b, R)
  BY <1>1, Fresh DEF ChainsOK, Ahead, Members
<1>3. Meets(i, k, v, R)' /\ Ahead(x, k, b, R)'
  BY <1>2, CheckMeets, CheckAhead
<1> QED BY <1>1, <1>3 DEF DupAt

\* The walk passes a row: it is no duplicate, or its insert has not published it.
LEMMA DupOn ==
    ASSUME BaseInv, NEW t \in Threads, Step(t), CheckStep(t), DupStep(t), DupOK(t),
           pc' = pc, key' = key, idx' = idx, new' = new
    PROVE  DupOK(t)'
<1> SUFFICES ASSUME NEW y \in Links, NEW i \in Slots, NEW k \in KeyNos, NEW v \in Vals,
                    Checks(t, i, k, v)', h'[t] = y
             PROVE  DupAt(y, i, k, v)'
  BY DEF DupOK
<1>1. Checks(t, i, k, v) /\ key[t] = k /\ new[t][k] = v
  BY DEF Checks
<1>2. PICK x \in Links : x = h[t] /\ x # FM_NULL_SLOT /\ y = next[k][x]
  <2>1. h \in [Threads -> Links]
    BY DEF BaseInv, Types, LocalTypes
  <2> QED BY <1>1, <2>1 DEF DupStep
<1>3. PICK R \in SUBSET Slots : Ahead(x, k, Bucket(v), R) /\ Meets(i, k, v, R)
  BY <1>1, <1>2 DEF DupOK, DupAt
<1>4. PICK b \in Buckets : b = Bucket(v)
  BY BucketIn
<1>5. x \in Slots /\ R \ {x} \in SUBSET Slots /\ Ahead(y, k, b, R \ {x})
  <2>1. Ahead(x, k, b, R)
    BY <1>3, <1>4
  <2>2. x \in Slots /\ R \ {x} \in SUBSET Slots /\ Ahead(next[k][x], k, b, R \ {x})
    BY <1>2, <2>1, AheadOn
  <2> QED BY <1>2, <2>2
<1>6. Ahead(y, k, b, R \ {x})'
  BY <1>5, CheckAhead
<1>7. LiveKept
  BY CheckFrame
<1>8. ASSUME Live(x, k), row[x][k] = v PROVE x \in raced'
  <2>1. state[x] # "ACTIVE"
    BY <1>1, <1>2, <1>8 DEF DupStep, IsDup
  <2>2. PICK u \in Threads : Inserting(u, x, k)
    BY <1>8, <2>1 DEF Live
  <2>3. state[x] \in {"FREE", "DELETED"}
    BY <2>2 DEF Inserting, LivePhase, InsPhase, BaseInv, RowOK
  <2> QED BY <1>1, <1>2, <1>8, <2>3 DEF DupStep, Pass
<1>9. Meets(i, k, v, R \ {x})'
  <2>1. ASSUME NEW j \in Slots, j # i, Live(j, k)',
               row'[j][k] = v PROVE j \in R \ {x} \/ j \in raced'
    <3>1. Live(j, k) /\ row[j][k] = v /\ raced \subseteq raced'
      BY <1>7, <2>1 DEF LiveKept
    <3>2. j \in R \/ j \in raced
      BY <1>3, <2>1, <3>1 DEF Meets
    <3> QED BY <1>8, <3>1, <3>2
  <2> QED BY <2>1 DEF Meets
<1> QED BY <1>4, <1>5, <1>6, <1>9 DEF DupAt

LEMMA OwnInsertBucket ==
    ASSUME BaseInv, ChainsOK, NEW t \in Threads, Step(t), InsertBucket(t)
    PROVE  DupOK(t)' /\ CheckedOK(t)'
<1>0. LocalTypes /\ CheckStep(t)
  BY DEF BaseInv, Types, CheckStep
<1>1. /\ pc[t] = "ins_bucket" /\ pc'[t] = "ins_walk" /\ key' = key /\ new' = new
      /\ h'[t] = DupFirst(key[t], new[t][key[t]]) /\ block[key[t]][NewBucket(t)] = NoThread
  BY <1>0 DEF InsertBucket, Lock, Goto, LocalTypes, argVars
<1>2. CheckedOK(t)'
  BY <1>1 DEF CheckedOK, Checked
<1> SUFFICES ASSUME NEW x \in Links, NEW i \in Slots, NEW k \in KeyNos, NEW v \in Vals,
                    Checks(t, i, k, v)', h'[t] = x
             PROVE  DupAt(x, i, k, v)'
  BY <1>2 DEF DupOK
<1>3. key[t] = k /\ new[t][k] = v /\ Guarded(k, v)
  BY <1>1 DEF Checks, Guarded
<1>4. x = head[k][Bucket(v)] /\ block[k][Bucket(v)] \in {NoThread, t}
  BY <1>1, <1>3 DEF DupFirst, Guarded, NewBucket
<1> QED BY <1>0, <1>1, <1>4, DupStart

\* An update goes on to the check of key FirstOf(ks), or to the write.
LEMMA OwnCheckKeys ==
    ASSUME WellOrdered, BaseInv, ChainsOK, NEW t \in Threads, Step(t), CheckStep(t),
           pc[t] \in {"up_bucket", "up_walk"}, NEW ks \in SUBSET Changed(t), CheckKeys(t, ks),
           idx' = idx, new' = new, old' = old,
           \A k \in ks : block[k][Bucket(new[t][k])] \in {NoThread, t},
           \A i \in Slots : \A k \in Changed(t) \ ks : \A v \in Vals :
               (\A l \in ks : k < l) /\ idx[t] = i /\ new[t][k] = v /\ Guarded(k, v)
                   => Meets(i, k, v, {})
    PROVE  DupOK(t)' /\ CheckedOK(t)'
<1>0. LocalTypes /\ Changed(t) \subseteq KeyNos /\ Changed(t)' = Changed(t)
  BY LockSetFacts, LockSetSame DEF BaseInv, Types
<1>1. CASE ks = {}
  <2>1. pc'[t] = "up_write"
    BY <1>0, <1>1 DEF CheckKeys, Goto, LocalTypes
  <2>2. DupOK(t)'
    BY <2>1 DEF DupOK, Checks
  <2>3. ASSUME NEW i \in Slots, NEW k \in KeyNos, NEW v \in Vals,
               Checked(t, k)', idx'[t] = i, new'[t][k] = v, Guarded(k, v)
        PROVE  Meets(i, k, v, {})'
    <3>1. k \in Changed(t) \ ks /\ (\A l \in ks : k < l)
      BY <1>0, <1>1, <2>3 DEF Checked
    <3>2. Meets(i, k, v, {})
      BY <2>3, <3>1
    <3> QED BY <3>2, CheckMeets
  <2>4. CheckedOK(t)'
    BY <2>3 DEF CheckedOK, Guarded
  <2> QED BY <2>2, <2>4
<1>2. CASE ks # {}
  <2>0. PICK f \in ks : f = FirstOf(ks) /\ \A l \in ks : f <= l
    <3>1. ks \in SUBSET KeyNos
      BY <1>0
    <3>2. FirstOf(ks) \in ks /\ \A l \in ks : FirstOf(ks) <= l
      BY <1>2, <3>1, FirstOfFacts
    <3> QED BY <3>2
  <2>1. pc'[t] = "up_walk" /\ key'[t] = f /\ h'[t] = DupFirst(f, new[t][f])
    <3>1. /\ key' = [key EXCEPT ![t] = FirstOf(ks)]
          /\ h' = [h EXCEPT ![t] = DupFirst(FirstOf(ks), new[t][FirstOf(ks)])]
          /\ pc' = [pc EXCEPT ![t] = "up_walk"]
      BY <1>2 DEF CheckKeys, Goto
    <3>2. LocalTypes
      BY DEF BaseInv, Types
    <3>3. /\ pc'[t] = "up_walk" /\ key'[t] = FirstOf(ks)
          /\ h'[t] = DupFirst(FirstOf(ks), new[t][FirstOf(ks)])
      BY <3>1, <3>2 DEF LocalTypes
    <3> QED BY <2>0, <3>3
  <2>2. ASSUME NEW x \in Links, NEW i \in Slots, NEW k \in KeyNos, NEW v \in Vals,
               Checks(t, i, k, v)', h'[t] = x
        PROVE  DupAt(x, i, k, v)'
    <3>1. k = f /\ new[t][k] = v /\ Guarded(k, v)
      BY <2>1, <2>2 DEF Checks, Guarded
    <3>2. x = head[k][Bucket(v)] /\ block[k][Bucket(v)] \in {NoThread, t} /\ pc[t] # "up_relink"
      BY <2>1, <2>2, <3>1 DEF DupFirst, Guarded
    <3> QED BY <3>2, DupStart
  <2>3. ASSUME NEW i \in Slots, NEW k \in KeyNos, NEW v \in Vals,
               Checked(t, k)', idx'[t] = i, new'[t][k] = v, Guarded(k, v)
        PROVE  Meets(i, k, v, {})'
    <3>1. k \in Changed(t) /\ k < f
      BY <1>0, <2>1, <2>3 DEF Checked
    <3>2. ASSUME NEW l \in ks PROVE k < l
      <4>1. f <= l /\ f \in KeyNos /\ l \in KeyNos
        BY <1>0, <2>0
      <4> QED BY SMTT(30), <3>1, <4>1, KeysAssumption DEF KeyNos
    <3>3. k \notin ks
      <4>1. ~(k < k)
        BY SMTT(30), KeysAssumption DEF KeyNos
      <4> QED BY <3>2, <4>1
    <3>4. Meets(i, k, v, {})
      BY <2>3, <3>1, <3>2, <3>3
    <3> QED BY <3>4, CheckMeets
  <2>4. DupOK(t)'
    BY <2>2 DEF DupOK
  <2>5. CheckedOK(t)'
    BY <2>3 DEF CheckedOK, Guarded
  <2> QED BY <2>4, <2>5
<1> QED BY <1>1, <1>2

LEMMA OwnUpdateBucket ==
    ASSUME WellOrdered, BaseInv, ChainsOK, NEW t \in Threads, Step(t), UpdateBucket(t)
    PROVE  DupOK(t)' /\ CheckedOK(t)'
<1>0. CheckStep(t) /\ pc[t] = "up_bucket" /\ idx' = idx /\ new' = new /\ old' = old
  BY DEF CheckStep, UpdateBucket, argVars
<1>1. CASE Missing(t) # {NextLock(t)}
  <2>1. pc' = pc
    BY <1>1 DEF UpdateBucket
  <2> QED BY <1>0, <2>1 DEF DupOK, Checks, CheckedOK, Checked
<1>2. CASE Missing(t) = {NextLock(t)}
  <2>1. CheckKeys(t, Changed(t)) /\ block[NextLock(t)[1]][NextLock(t)[2]] = NoThread
    BY <1>2 DEF UpdateBucket, Lock
  <2>2. ASSUME NEW k \in Changed(t) PROVE block[k][Bucket(new[t][k])] \in {NoThread, t}
    <3>1. PICK l : l = <<k, Bucket(new[t][k])>>
      OBVIOUS
    <3>2. l \in LockSet(t)
      BY <3>1, LockSetFacts
    <3>3. l \in Missing(t) \/ block[l[1]][l[2]] = t
      BY <3>2 DEF Missing
    <3>4. block[l[1]][l[2]] \in {NoThread, t}
      BY <1>2, <2>1, <3>3
    <3> QED BY <3>1, <3>4
  <2>3. Changed(t) \in SUBSET Changed(t) /\ Changed(t) \ Changed(t) = {}
    OBVIOUS
  <2> QED BY <1>0, <2>1, <2>2, <2>3, OwnCheckKeys
<1> QED BY <1>1, <1>2

\* The check of key k has reached the end of the chain.
LEMMA DupEnd ==
    ASSUME WellOrdered, NEW t \in Threads, DupOK(t), h[t] = FM_NULL_SLOT,
           NEW i \in Slots, NEW k \in KeyNos, NEW v \in Vals, Checks(t, i, k, v)
    PROVE  Meets(i, k, v, {})
<1>1. FM_NULL_SLOT \in Links
  BY DEF Links
<1>2. PICK R \in SUBSET Slots : Ahead(FM_NULL_SLOT, k, Bucket(v), R) /\ Meets(i, k, v, R)
  BY <1>1 DEF DupOK, DupAt
<1>3. R = {}
  BY <1>2, ChainEnd DEF Ahead
<1> QED BY <1>2, <1>3

LEMMA OwnUpdateChecked ==
    ASSUME WellOrdered, BaseInv, ChainsOK, NEW t \in Threads, Step(t), UpdateChecked(t), DupOK(t),
           CheckedOK(t)
    PROVE  DupOK(t)' /\ CheckedOK(t)'
<1>0. /\ CheckStep(t) /\ pc[t] = "up_walk" /\ h[t] = FM_NULL_SLOT /\ idx' = idx /\ new' = new
      /\ old' = old
  BY DEF CheckStep, UpdateChecked, argVars
<1>1. PICK ks \in SUBSET Changed(t) : ks = After(Changed(t), key[t]) /\ CheckKeys(t, ks)
  BY DEF UpdateChecked, After
<1>2. /\ new[t] \in Recs /\ key[t] \in Changed(t) /\ Changed(t) \subseteq KeyNos
  BY <1>0, LockSetFacts DEF BaseInv, ArgsOK, UpPhase
<1>3. ASSUME NEW k \in ks PROVE block[k][Bucket(new[t][k])] \in {NoThread, t}
  <2>1. <<k, Bucket(new[t][k])>> \in LockSet(t) /\ k \in KeyNos /\ Bucket(new[t][k]) \in Buckets
    BY <1>2, LockSetFacts, RecFacts
  <2>2. PICK b \in Buckets : b = Bucket(new[t][k])
    BY <2>1
  <2>3. BlockOK(t) /\ HoldsBucket(t, k, b) /\ pc[t] # "up_bucket"
    BY <1>0, <2>1, <2>2 DEF BaseInv, LockOK, HoldsBucket, UpPhase
  <2>4. block[k][b] = t
    BY <2>1, <2>3 DEF BlockOK
  <2> QED BY <2>2, <2>4
<1>4. ASSUME NEW i \in Slots, NEW k \in Changed(t) \ ks, NEW v \in Vals,
             idx[t] = i, new[t][k] = v, Guarded(k, v)
      PROVE  Meets(i, k, v, {})
  <2>1. k \in KeyNos /\ key[t] \in KeyNos /\ ~(k > key[t])
    BY <1>1, <1>2 DEF After
  <2>2. k = key[t] \/ k < key[t]
    BY SMTT(30), <2>1, KeysAssumption DEF KeyNos
  <2>3. CASE k = key[t]
    <3>1. Checks(t, i, k, v)
      BY <1>0, <1>4, <2>3 DEF Checks
    <3> QED BY <1>0, <2>1, <3>1, DupEnd
  <2>4. CASE k < key[t]
    <3>1. Checked(t, k)
      BY <1>0, <2>4 DEF Checked
    <3> QED BY <1>4, <2>1, <3>1 DEF CheckedOK
  <2> QED BY <2>2, <2>3, <2>4
<1> QED BY <1>0, <1>1, <1>3, <1>4, OwnCheckKeys

\* The walk of t in its own steps.
LEMMA DupOwn ==
    ASSUME WellOrdered, BaseInv, ChainsOK, NEW t \in Threads, Step(t), DupOK(t), CheckedOK(t)
    PROVE  DupOK(t)' /\ CheckedOK(t)'
<1>1. CASE pc'[t] \notin {"ins_walk", "up_walk", "up_write"}
  BY <1>1 DEF DupOK, Checks, CheckedOK, Checked
<1>2. CASE InsertBucket(t)
  BY <1>2, OwnInsertBucket
<1>3. CASE UpdateBucket(t)
  BY <1>3, OwnUpdateBucket
<1>4. CASE UpdateChecked(t)
  BY <1>4, OwnUpdateChecked
<1>5. CASE InsertWalk(t) \/ UpdateWalk(t)
  <2>1. /\ CheckStep(t) /\ DupStep(t) /\ pc' = pc /\ key' = key /\ idx' = idx /\ new' = new
        /\ old' = old
    BY <1>5 DEF CheckStep, InsertWalk, UpdateWalk, argVars
  <2>2. DupOK(t)'
    BY <2>1, DupOn
  <2>3. Changed(t)' = Changed(t)
    BY <2>1, LockSetSame
  <2>4. ASSUME NEW i \in Slots, NEW k \in KeyNos, NEW v \in Vals,
               Checked(t, k)', idx'[t] = i, new'[t][k] = v, Guarded(k, v)
        PROVE  Meets(i, k, v, {})'
    <3>1. Checked(t, k) /\ idx[t] = i /\ new[t][k] = v
      BY <2>1, <2>3, <2>4 DEF Checked
    <3>2. Meets(i, k, v, {})
      BY <2>4, <3>1 DEF CheckedOK
    <3> QED BY <2>1, <3>2, CheckMeets
  <2>5. CheckedOK(t)'
    BY <2>4 DEF CheckedOK, Guarded
  <2> QED BY <2>2, <2>5
<1>6. CASE Update(t)
  <2>0. LocalTypes
    BY DEF BaseInv, Types
  <2>1. pc'[t] = "up_write" => new'[t] = old'[t]
    BY <1>6, <2>0 DEF Update, Goto, LocalTypes
  <2>2. pc'[t] \in {"up_write", "up_bucket"}
    BY <1>6, <2>0 DEF Update, Goto, LocalTypes
  <2>3. pc'[t] = "up_write" => \A k \in KeyNos : k \notin Changed(t)'
    BY <2>1 DEF Changed
  <2> QED BY <2>2, <2>3 DEF DupOK, Checks, CheckedOK, Checked
<1> QED BY <1>1, <1>2, <1>3, <1>4, <1>5, <1>6, LocalStep DEF LocalEffects, CheckStep

\* Two rows that count for a unique key have different values of it, unless a
\* check passed over one of them.
LEMMA NewMeets ==
    ASSUME WellOrdered, BaseInv, NEW t \in Threads, DupOK(t), CheckedOK(t), NEW i \in Slots,
           NEW k \in KeyNos, NEW v \in Vals, Guarded(k, v), row'[i][k] = v, LiveFrom(t, i, k),
           ~(Live(i, k) /\ row'[i][k] = row[i][k])
    PROVE  Meets(i, k, v, {}) /\ i = idx[t]
<1>1. CASE InsertLink(t) /\ i = idx[t] /\ k = key[t] /\ row' = row
  <2>1. pc[t] = "ins_walk" /\ h[t] = FM_NULL_SLOT
    BY <1>1 DEF InsertLink
  <2>2. row[i] = new[t]
    BY <1>1, <2>1 DEF BaseInv, RowOK, InsPhase
  <2>3. Checks(t, i, k, v)
    BY <1>1, <2>1, <2>2 DEF Checks
  <2> QED BY <1>1, <2>1, <2>3, DupEnd
<1>2. CASE UpdateWrite(t) /\ i = idx[t] /\ k \in Changed(t) /\ row'[i] = new[t]
  <2>1. Checked(t, k) /\ new[t][k] = v
    BY <1>2 DEF UpdateWrite, Checked
  <2> QED BY <1>2, <2>1 DEF CheckedOK
<1> QED BY <1>1, <1>2 DEF LiveFrom

LEMMA UniqueStep ==
    ASSUME WellOrdered, BaseInv, NEW t \in Threads, Step(t), DupOK(t), CheckedOK(t), UniqueOK
    PROVE  UniqueOK'
<1> SUFFICES ASSUME NEW k \in KeyNos, NEW i \in Slots, NEW j \in Slots, i # j, Live(i, k)',
                    Live(j, k)', row'[i][k] = row'[j][k], Guarded(k, row'[i][k])
             PROVE  i \in raced' \/ j \in raced'
  BY DEF UniqueOK, Guarded
<1>1. LiveDelta(t, i, k) /\ LiveDelta(t, j, k)
  BY LiveDeltas
<1>2. PICK v \in Vals : row'[i][k] = v
  <2>1. BaseInv'
    BY BaseStep
  <2>2. row' \in [Slots -> Recs]
    BY <2>1 DEF BaseInv, Types, SlotTypes
  <2> QED BY <2>2, RecFacts
<1> DEFINE Same(q) == Live(q, k) /\ row'[q][k] = row[q][k]
<1>3. CASE Same(i) /\ Same(j)
  <2>1. i \in raced \/ j \in raced
    BY <1>3 DEF UniqueOK
  <2> QED BY <1>1, <2>1 DEF LiveDelta
<1>4. ASSUME NEW p \in Slots, NEW q \in Slots, p # q, ~Same(p), row'[p][k] = v, row'[q][k] = v,
             LiveDelta(t, p, k), LiveDelta(t, q, k)
      PROVE  q \in raced'
  <2>1. LiveFrom(t, p, k) /\ LiveFrom(t, q, k) /\ (q \in raced => q \in raced') /\ Guarded(k, v)
    BY <1>2, <1>4 DEF LiveDelta
  <2>2. Meets(p, k, v, {}) /\ p = idx[t]
    BY <1>4, <2>1, NewMeets
  <2>3. Live(q, k) /\ row[q][k] = v
    BY <1>4, <2>1, <2>2 DEF LiveFrom
  <2> QED BY <1>4, <2>1, <2>2, <2>3 DEF Meets
<1>5. CASE ~Same(i)
  BY <1>1, <1>2, <1>4, <1>5
<1>6. CASE ~Same(j)
  BY <1>1, <1>2, <1>4, <1>6
<1> QED BY <1>3, <1>5, <1>6

\* Every step keeps the whole invariant.
LEMMA IndexStep ==
    ASSUME WellOrdered, IndexInv, NEW t \in Threads, Step(t)
    PROVE  IndexInv'
<1>1. BaseInv /\ ChainsOK /\ UniqueOK /\ \A u \in Threads : FindOK(u) /\ DupOK(u) /\ CheckedOK(u)
  BY DEF IndexInv
<1>2. BaseInv'
  BY <1>1, BaseStep
<1>3. ChainsOK'
  BY <1>1, ChainsStep
<1>4. UniqueOK'
  BY <1>1, UniqueStep
<1>5. ASSUME NEW u \in Threads PROVE FindOK(u)' /\ DupOK(u)' /\ CheckedOK(u)'
  <2>1. FindOK(u) /\ DupOK(u) /\ CheckedOK(u)
    BY <1>1
  <2>2. FindOK(u)'
    BY <1>1, <2>1, FindInvStep
  <2>3. DupOK(u)' /\ CheckedOK(u)'
    BY <1>1, <2>1, DupOwn, DupOthers
  <2> QED BY <2>2, <2>3
<1> QED BY <1>2, <1>3, <1>4, <1>5 DEF IndexInv

-----------------------------------------------------------------------------
(* The initial state, stuttering, and what the invariant implies.          *)

LEMMA IndexInit == ASSUME WellOrdered, Init PROVE IndexInv
<1>1. BaseInv
  BY BaseInit
<1>2. ASSUME NEW t \in Threads
      PROVE  pc[t] = "idle" /\ op[t] = "none" /\ ret[t] = "none"
  BY DEF Init
<1>3. ASSUME NEW i \in Slots, NEW k \in KeyNos PROVE state[i] # "ACTIVE" /\ ~Live(i, k)
  <2>1. state[i] # "ACTIVE"
    BY DEF Init
  <2>2. ASSUME NEW t \in Threads PROVE ~Inserting(t, i, k)
    BY <1>2 DEF Inserting, LivePhase
  <2> QED BY <2>1, <2>2 DEF Live
<1>4. ASSUME NEW k \in KeyNos, NEW b \in Buckets
      PROVE  Chain(head[k][b], next[k], Members(k, b))
  <2>1. ASSUME NEW i \in Slots PROVE ~In(i, k, b)
    <3>1. ASSUME NEW t \in Threads PROVE ~Mine(t, i, k)
      BY <1>2 DEF Mine
    <3> QED BY <1>3, <3>1 DEF In
  <2>2. Members(k, b) = {}
    BY <2>1 DEF Members
  <2>3. head[k][b] = FM_NULL_SLOT
    BY DEF Init
  <2> QED BY <2>2, <2>3, ChainEmpty
<1>5. ChainsOK
  BY <1>4 DEF ChainsOK
<1>6. UniqueOK
  BY <1>3 DEF UniqueOK
<1>7. ASSUME NEW t \in Threads PROVE FindOK(t) /\ DupOK(t) /\ CheckedOK(t)
  <2>1. FindOK(t)
    BY <1>2 DEF FindOK
  <2>2. DupOK(t) /\ CheckedOK(t)
    BY <1>2 DEF DupOK, Checks, CheckedOK, Checked
  <2> QED BY <2>1, <2>2
<1> QED BY <1>1, <1>5, <1>6, <1>7 DEF IndexInv

LEMMA IndexStutter == ASSUME IndexInv, UNCHANGED vars PROVE IndexInv'
<1>1. BaseInv'
  BY BaseStutter DEF IndexInv
<1>2. /\ state' = state /\ row' = row /\ raced' = raced /\ head' = head /\ next' = next
      /\ pc' = pc /\ op' = op /\ idx' = idx /\ old' = old /\ new' = new /\ want' = want
      /\ key' = key /\ h' = h /\ after' = after /\ ret' = ret
      /\ stable' = stable /\ seen' = seen /\ lost' = lost
  BY DEF vars, slotVars, chainVars, argVars, walkVars, scanVars
<1> USE <1>2
<1>3. ASSUME NEW t \in Threads PROVE Changed(t)' = Changed(t) /\ WantBucket(t)' = WantBucket(t)
  BY DEF Changed, WantBucket
<1>4. ASSUME NEW i, NEW k, NEW b PROVE In(i, k, b)' = In(i, k, b)
  BY <1>3 DEF In, Mine, Pending
<1>5. ASSUME NEW i, NEW k PROVE Live(i, k)' = Live(i, k)
  BY DEF Live, Inserting
<1>6. ChainsOK'
  <2>1. ASSUME NEW k, NEW b PROVE Members(k, b)' = Members(k, b)
    BY <1>4 DEF Members
  <2> QED BY <2>1 DEF IndexInv, ChainsOK
<1>7. UniqueOK'
  BY <1>5 DEF IndexInv, UniqueOK
<1>8. ASSUME NEW x, NEW k, NEW b, NEW R PROVE Ahead(x, k, b, R)' = Ahead(x, k, b, R)
  BY <1>4 DEF Ahead
<1>9. ASSUME NEW i, NEW k, NEW v, NEW R PROVE Meets(i, k, v, R)' = Meets(i, k, v, R)
  BY <1>5 DEF Meets
<1>10. ASSUME NEW t \in Threads PROVE FindOK(t)'
  <2>1. FindOK(t)
    BY DEF IndexInv
  <2>2. StableOK(t)' = StableOK(t)
    BY <1>3 DEF StableOK, Settled, Pending
  <2>3. ASSUME CursorOK(t) PROVE CursorOK(t)'
    <3>1. ASSUME NEW i \in Slots, NEW k \in KeyNos, NEW b \in Buckets,
                 Looks(t, k, b)', idx'[t] = i, ret'[t] # "NOT_FOUND"
          PROVE  CursorAt(t, i, k, b)'
      <4>1. Looks(t, k, b) /\ idx[t] = i /\ ret[t] # "NOT_FOUND"
        BY <1>3, <3>1 DEF Looks
      <4>2. CursorAt(t, i, k, b)
        BY <2>3, <4>1 DEF CursorOK
      <4> QED BY <1>4, <1>8, <4>2 DEF CursorAt
    <3> QED BY <3>1 DEF CursorOK
  <2>4. WalkOK(t)' = WalkOK(t)
    BY <1>3, <1>8 DEF WalkOK, Looks, WalkAt
  <2> QED BY <2>1, <2>2, <2>3, <2>4 DEF FindOK, AnswerOK
<1>11. ASSUME NEW t \in Threads PROVE DupOK(t)' /\ CheckedOK(t)'
  <2>1. DupOK(t) /\ CheckedOK(t)
    BY DEF IndexInv
  <2> QED BY <1>3, <1>8, <1>9, <2>1 DEF DupOK, Checks, DupAt, CheckedOK, Checked
<1> QED BY <1>1, <1>6, <1>7, <1>10, <1>11 DEF IndexInv

\* Where the lock of a bucket is free, no update is moving a row into it or out
\* of it, so its chain holds the rows that belong there.
LEMMA ChainsAtRest == ASSUME WellOrdered, IndexInv PROVE ChainsExact
<1> SUFFICES ASSUME NEW k \in KeyNos, NEW b \in Buckets, block[k][b] = NoThread
             PROVE  /\ Ends(k, b)
                    /\ Nodes(k, b) = {i \in Slots : BelongsIn(i, k) /\ Bucket(row[i][k]) = b}
  BY DEF ChainsExact
<1>1. BaseInv /\ Chain(head[k][b], next[k], Members(k, b)) /\ Members(k, b) \in SUBSET Slots
  BY DEF IndexInv, ChainsOK, Members
<1>2. Ends(k, b) /\ Nodes(k, b) = Members(k, b)
  BY <1>1, ChainNodes
<1>3. ASSUME NEW i \in Slots PROVE In(i, k, b) <=> BelongsIn(i, k) /\ Bucket(row[i][k]) = b
  <2>1. BelongsIn(i, k) <=> state[i] = "ACTIVE" \/ \E t \in Threads : Mine(t, i, k)
    BY DEF BelongsIn, Mine
  <2>2. ASSUME NEW t \in Threads, Pending(t, i, k)
        PROVE  Bucket(row[i][k]) # b /\ Bucket(old[t][k]) # b
    BY <1>1, <2>2, LockFree
  <2> QED BY <2>1, <2>2 DEF In
<1> QED BY <1>2, <1>3 DEF Members

-----------------------------------------------------------------------------
(* Theorems.                                                               *)

\* A set of naturals that is not empty has a least element.
LEMMA LeastNat == WellOrdered
<1>1. ASSUME NEW T \in SUBSET Nat, T # {} PROVE \E x \in T : \A y \in T : x <= y
  <2>1. PICK x \in T : \A y \in T : ~ (<<y, x>> \in OpToRel(<, Nat))
    BY <1>1, NatLessThanWellFounded, WFMin
  <2>2. \A y \in T : ~(y < x)
    BY <2>1 DEF OpToRel
  <2> QED BY SMTT(30), <2>2
<1> QED BY <1>1 DEF WellOrdered

\* At every step of every schedule of inserts, write statements, lookups and
\* clears, the threads hold the locks and own the slots that BaseInv says, every
\* chain holds the rows that In says, every lookup has the rows it owes ahead of
\* it, and every duplicate check has the rows it has not compared ahead of it.
THEOREM IndexInvariant == Spec => []IndexInv
<1>1. Init => IndexInv
  BY IndexInit, LeastNat
<1>2. IndexInv /\ [Next]_vars => IndexInv'
  <2> SUFFICES ASSUME IndexInv, [Next]_vars PROVE IndexInv'
    OBVIOUS
  <2>1. CASE Next
    <3>1. PICK t \in Threads : Step(t)
      BY <2>1 DEF Next, Step
    <3> QED BY <3>1, IndexStep, LeastNat
  <2>2. CASE UNCHANGED vars
    BY <2>2, IndexStutter
  <2> QED BY <2>1, <2>2
<1> QED BY <1>1, <1>2, PTL DEF Spec

\* Every variable keeps its type: fm_core_insert_row, the write statements, the
\* lookups and fm_core_clear write only slots, links, lock owners, generations
\* and return codes where the structures of fm_core.h hold them.
THEOREM TypeCorrect == Spec => []TypeOK
<1>1. IndexInv => TypeOK
  BY DEF IndexInv, BaseInv, Types, SlotTypes, ChainTypes, ShareTypes, LocalTypes, Owners, Links,
     TypeOK
<1> QED BY <1>1, IndexInvariant, PTL

\* No set of threads waits for one another: whoever waits for struct_mutex, a
\* wlock or a bucket lock waits in the end for an update that takes its bucket
\* locks (fm_core_update_row_locked), and those are taken in ascending order of
\* key number and bucket.
THEOREM DeadlockFree == Spec => []NoCircularWait
<1>1. IndexInv => NoCircularWait
  BY NoCycle, LeastNat DEF IndexInv
<1> QED BY <1>1, IndexInvariant, PTL

\* Whenever a bucket lock is free, its chain ends and holds exactly the rows that
\* belong there: fm_core_chain_link, fm_core_chain_unlink, the rollback of an
\* insert and the moves of an update, of any number of threads, lose no row,
\* leave none behind and close no cycle.
THEOREM ChainsHoldTheirRows == Spec => []ChainsExact
<1>1. IndexInv => ChainsExact
  BY ChainsAtRest, LeastNat
<1> QED BY <1>1, IndexInvariant, PTL

\* Two visible rows agree on a unique key only if a duplicate check passed one of
\* them before its insert had published it: every other duplicate is refused by
\* fm_core_insert_row and by fm_core_update_row_locked.
THEOREM DuplicatesOnlyByRace == Spec => []UniqueUnlessRaced
<1>1. IndexInv => UniqueUnlessRaced
  <2> SUFFICES ASSUME IndexInv, NEW i \in Active, NEW j \in Active, Clash(i, j)
               PROVE  raced \cap {i, j} # {}
    BY DEF UniqueUnlessRaced
  <2>1. PICK k \in Unique : row[i][k] = row[j][k] /\ row[i][k] \notin NullVals
    BY DEF Clash
  <2>2. k \in KeyNos /\ Guarded(k, row[i][k])
    BY <2>1, KeysAssumption DEF Guarded
  <2>3. i \in Slots /\ j \in Slots /\ i # j /\ Live(i, k) /\ Live(j, k)
    BY DEF Active, Live, Clash
  <2>4. i \in raced \/ j \in raced
    BY <2>1, <2>2, <2>3 DEF IndexInv, UniqueOK
  <2> QED BY <2>4
<1> QED BY <1>1, IndexInvariant, PTL

\* A lookup and the calls after it (fm_core_find, fm_core_find_next) return every
\* row that had the value all the while, unless the row the scan stood on left
\* its chain, whatever other threads link, unlink, move and recycle between and
\* during the calls.
THEOREM LookupMissesNoRow == Spec => []LookupComplete
<1>1. IndexInv => LookupComplete
  <2> SUFFICES ASSUME IndexInv, NEW t \in Threads, ret[t] = "NOT_FOUND", ~lost[t]
               PROVE  stable[t] \subseteq seen[t]
    BY DEF LookupComplete
  <2>1. FindOK(t)
    BY DEF IndexInv
  <2> QED BY <2>1 DEF FindOK, AnswerOK
<1> QED BY <1>1, IndexInvariant, PTL
=============================================================================
