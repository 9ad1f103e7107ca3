-------------------------- MODULE FmRegistry_proofs --------------------------
(***************************************************************************)
(* No handler of FmRegistry is ever left with a freed share, the list and  *)
(* the counts are exact, a dropped share is freed and a table's rows stay  *)
(* until it is dropped, for any number of handlers, names and shares.      *)
(***************************************************************************)
EXTENDS FmRegistry, FiniteSetTheorems, WellFoundedInduction, TLAPS

\* A handler holds a share from fm_create or fm_open to its close.
HoldsShare == \A h \in Handlers : share[h] = NoShare <=> pc[h] \in {"closed", "create"}

\* An internal share has one handler.
InternalPrivate ==
    \A g, h \in Handlers :
        share[g] # NoShare /\ share[g] = share[h] /\ internal[share[g]] => g = h

\* The inductive invariant: a share is freed when its count is zero, so that
\* its handlers live rests on the count being exact, and this on which handlers
\* hold a share at all.
IInv ==
    /\ TypeOK
    /\ HandlesLive
    /\ HandlesCounted
    /\ ListExact
    /\ HoldsShare
    /\ InternalPrivate

-----------------------------------------------------------------------------
\* A nonempty set of shares has a newest one.
LEMMA NewestExists ==
    ASSUME NEW S \in SUBSET Shares, S # {}
    PROVE  \E s \in S : \A r \in S : r <= s
<1> DEFINE T == {x \in Nat : \E s \in S : x = MaxShares - s}
           R == OpToRel(<, Nat)
<1>1. PICK s0 \in S : TRUE
  BY Zenon
<1>2. MaxShares - s0 \in T
  BY <1>1, MaxSharesAssumption DEF Shares
<1>3. T \subseteq Nat /\ T # {}
  BY Zenon, <1>2
<1>4. IsWellFoundedOn(R, Nat)
  BY Zenon, NatLessThanWellFounded
<1> HIDE DEF T, R
<1>5. PICK x \in T : \A y \in T : ~ (<<y, x>> \in R)
  BY Zenon, <1>3, <1>4, WFMin
<1>6. \A y \in T : x <= y
  <2> TAKE y \in T
  <2>1. x \in Nat /\ y \in Nat
    BY Zenon DEF T
  <2>2. ~ (y < x)
    BY Zenon, <1>5, <2>1 DEF R, OpToRel
  <2> QED
    BY <2>1, <2>2
<1>7. PICK s \in S : x = MaxShares - s
  BY Zenon DEF T
<1>8. \A r \in S : MaxShares - r \in T
  BY MaxSharesAssumption DEF T, Shares
<1>9. \A r \in S : r <= s
  BY <1>6, <1>7, <1>8, MaxSharesAssumption DEF Shares
<1> QED
  BY Zenon, <1>9

\* fm_find_named_share returns a registered share or none.
LEMMA FindRegistered ==
    ASSUME IInv, NEW n \in Names, Find(n) # NoShare
    PROVE  /\ Find(n) \in fm_share_list
           /\ Find(n) \in live
           /\ Find(n) \in Shares
           /\ ~internal[Find(n)]
           /\ name[Find(n)] = n
<1>1. Named(n) \subseteq fm_share_list /\ fm_share_list \subseteq live /\ live \subseteq Shares
  BY MaxSharesAssumption DEF IInv, ListExact, TypeOK, Named, Shares
<1>2. Named(n) # {}
  BY Zenon DEF Find
<1>3. \E s \in Named(n) : \A r \in Named(n) : r <= s
  BY Zenon, <1>1, <1>2, NewestExists
<1>4. Find(n) \in Named(n)
  BY Zenon, <1>2, <1>3 DEF Find
<1> QED
  BY Zenon, <1>1, <1>4 DEF IInv, ListExact, Named

\* The set that open_count counts is finite.
LEMMA CountedFinite ==
    ASSUME NEW s
    PROVE  IsFiniteSet(Counted(s)) /\ Cardinality(Counted(s)) \in Nat
<1>1. Counted(s) \in SUBSET Handlers
  BY Zenon DEF Counted
<1> QED
  BY Zenon, <1>1, HandlersAssumption, FS_Subset, FS_CardinalityType

\* A registered share with open_count zero has no handler.
LEMMA UnusedNotHeld ==
    ASSUME IInv, NEW s \in live, ~internal[s], open_count[s] = 0, NEW h \in Handlers
    PROVE  share[h] # s
<1>1. Counted(s) = {}
  BY Zenon, CountedFinite, FS_EmptySet DEF IInv, HandlesCounted
<1>2. s # NoShare
  BY MaxSharesAssumption DEF IInv, TypeOK, NoShare
<1>3. pc[h] \in {"closed", "create", "register", "open"}
  BY Zenon DEF IInv, TypeOK
<1> QED
  BY Zenon, <1>1, <1>2, <1>3 DEF Counted, IInv, HoldsShare

\* The next share to be allocated is not live, and nobody holds it.
LEMMA FreshShare ==
    ASSUME IInv
    PROVE  /\ allocated + 1 \notin live
           /\ allocated + 1 # NoShare
           /\ \A h \in Handlers : share[h] # allocated + 1
<1>1. allocated + 1 \notin live /\ allocated + 1 # NoShare
  BY MaxSharesAssumption DEF IInv, TypeOK, NoShare
<1>2. \A h \in Handlers : share[h] = NoShare \/ share[h] \in live
  BY Zenon DEF IInv, TypeOK, HandlesLive, HoldsShare
<1> QED
  BY Zenon, <1>1, <1>2

-----------------------------------------------------------------------------
LEMMA Initial == Init => IInv
<1> SUFFICES ASSUME Init PROVE IInv
  BY Zenon
<1>1. TypeOK
  BY MaxSharesAssumption, NamesAssumption DEF Init, TypeOK, Shares, NoShare
<1>2. HandlesLive /\ HandlesCounted /\ ListExact /\ HoldsShare /\ InternalPrivate
  BY Zenon DEF Init, HandlesLive, HandlesCounted, ListExact, HoldsShare, InternalPrivate
<1> QED
  BY Zenon, <1>1, <1>2 DEF IInv

-----------------------------------------------------------------------------
(* Statements on tables: no handler moves.                                 *)

\* Shares in S go, nobody holds them, and every other share and handler stays:
\* what all the DDL steps that free have in common.
LEMMA FreeUnheld ==
    ASSUME IInv, NEW S, Free(S),
           \A s \in S : \A h \in Handlers : share[h] # s,
           UNCHANGED <<allocated, name, internal, open_count, open_list, pc, share, path, late>>,
           delete_on_close' \in [Shares -> BOOLEAN]
    PROVE  IInv'
<1>1. TypeOK'
  BY Zenon DEF IInv, TypeOK, Free
<1>2. HandlesLive' /\ ListExact' /\ HoldsShare' /\ InternalPrivate'
  BY Zenon DEF IInv, HandlesLive, ListExact, HoldsShare, InternalPrivate, Free
<1>3. \A s : Counted(s)' = Counted(s)
  BY Zenon DEF Counted
<1>4. HandlesCounted'
  BY Zenon, <1>3 DEF IInv, HandlesCounted, Free
<1> QED
  BY Zenon, <1>1, <1>2, <1>4 DEF IInv

\* fm_create frees a registered share that nobody holds, or nothing.
LEMMA UnusedFacts ==
    ASSUME IInv, NEW n \in Names
    PROVE  \A s \in Unused(n) : s \in live /\ ~internal[s] /\ \A h \in Handlers : share[h] # s
<1> SUFFICES ASSUME NEW s \in Unused(n)
             PROVE  s \in live /\ ~internal[s] /\ \A h \in Handlers : share[h] # s
  BY Zenon
<1>1. s = Find(n) /\ s # NoShare /\ open_count[s] = 0
  BY Zenon DEF Unused
<1>2. s \in live /\ ~internal[s]
  BY Zenon, <1>1, FindRegistered
<1> QED
  BY Zenon, <1>1, <1>2, UnusedNotHeld

\* A new share that nobody holds yet, or that handler h is about to hold: the
\* other handlers keep what they have.
LEMMA NewShareFacts ==
    ASSUME IInv, NEW n \in Names, NEW int \in BOOLEAN, NEW pins \in Nat, NewShare(n, int, pins)
    PROVE  /\ allocated + 1 \in Shares
           /\ allocated + 1 \in live'
           /\ internal' = [internal EXCEPT ![allocated + 1] = int]
           /\ open_count' = [open_count EXCEPT ![allocated + 1] = pins]
           /\ open_list' = [open_list EXCEPT ![allocated + 1] = {}]
           /\ ListExact'
           /\ \A s \in live' : s \in live \/ s = allocated + 1
           /\ \A h \in Handlers : share[h] # NoShare => share[h] \in live'
<1> DEFINE gone == IF int THEN {} ELSE Unused(n)
<1>1. \A s \in gone : s \in live /\ ~internal[s] /\ \A h \in Handlers : share[h] # s
  BY Zenon, UnusedFacts
<1>2. allocated + 1 \notin live
  BY Zenon, FreshShare
<1>3. \A h \in Handlers : share[h] # NoShare => share[h] \in live
  BY Zenon DEF IInv, TypeOK, HandlesLive, HoldsShare
<1>4. ListExact'
  <2>1. fm_share_list = {s \in live : ~internal[s]} /\ live \subseteq Shares
    BY MaxSharesAssumption DEF IInv, ListExact, TypeOK, Shares
  <2>2. /\ live' = (live \ gone) \cup {allocated + 1}
        /\ fm_share_list' = (fm_share_list \ gone) \cup (IF int THEN {} ELSE {allocated + 1})
        /\ internal' = [internal EXCEPT ![allocated + 1] = int]
        /\ allocated + 1 \in Shares
    BY Zenon DEF NewShare
  <2>3. internal \in [Shares -> BOOLEAN]
    BY Zenon DEF IInv, TypeOK
  <2>4. \A s \in live : internal'[s] = internal[s]
    BY Zenon, <1>2, <2>1, <2>2, <2>3
  <2>5. internal'[allocated + 1] = int
    BY Zenon, <2>2, <2>3
  <2> HIDE DEF gone
  <2> QED
    BY Zenon, <1>1, <1>2, <2>1, <2>2, <2>4, <2>5 DEF ListExact
<1> QED
  BY Zenon, <1>1, <1>2, <1>3, <1>4 DEF NewShare

\* ... and the types of what it changes.
LEMMA NewShareTypes ==
    ASSUME IInv, NEW n \in Names, NEW int \in BOOLEAN, NEW pins \in Nat, NewShare(n, int, pins),
           pc' \in [Handlers -> {"closed", "create", "register", "open"}],
           share' \in [Handlers -> Shares \cup {NoShare}],
           path' \in [Handlers -> Names], late' \in SUBSET Handlers
    PROVE  TypeOK'
<1> DEFINE gone == IF int THEN {} ELSE Unused(n)
<1>1. allocated + 1 \in Shares /\ allocated' = allocated + 1 /\ allocated \in 0 .. MaxShares
  BY Zenon DEF NewShare, IInv, TypeOK
<1>2. allocated' \in 0 .. MaxShares /\ live' \subseteq 1 .. allocated'
  <2>1. live' \subseteq live \cup {allocated + 1} /\ live \subseteq 1 .. allocated
    BY Zenon DEF NewShare, IInv, TypeOK
  <2> QED
    BY <1>1, <2>1, MaxSharesAssumption DEF Shares
<1>3. rows' \subseteq live'
  BY Zenon DEF NewShare, IInv, TypeOK
<1>4. /\ name' \in [Shares -> Names] /\ internal' \in [Shares -> BOOLEAN]
      /\ open_count' \in [Shares -> Nat] /\ delete_on_close' \in [Shares -> BOOLEAN]
      /\ open_list' \in [Shares -> SUBSET Handlers]
  BY Zenon DEF NewShare, IInv, TypeOK
<1> QED
  BY Zenon, <1>2, <1>3, <1>4 DEF TypeOK

LEMMA CreateStep == ASSUME IInv, NEW n \in Names, Create(n) PROVE IInv'
<1> DEFINE new == allocated + 1
<1>1. NewShare(n, FALSE, 0) /\ UNCHANGED <<pc, share, path>>
  BY Zenon DEF Create
<1>2. TypeOK'
  <2>1. late' \in SUBSET Handlers
    BY Zenon DEF Create, IInv, TypeOK
  <2>2. /\ pc' \in [Handlers -> {"closed", "create", "register", "open"}]
        /\ share' \in [Handlers -> Shares \cup {NoShare}]
        /\ path' \in [Handlers -> Names]
    BY Zenon, <1>1 DEF IInv, TypeOK
  <2> QED
    BY Zenon, <1>1, <2>1, <2>2, NewShareTypes
<1>3. /\ new \in Shares /\ new \in live'
      /\ internal' = [internal EXCEPT ![new] = FALSE]
      /\ open_count' = [open_count EXCEPT ![new] = 0]
      /\ open_list' = [open_list EXCEPT ![new] = {}]
      /\ ListExact'
      /\ \A s \in live' : s \in live \/ s = new
      /\ \A h \in Handlers : share[h] # NoShare => share[h] \in live'
  BY Zenon, <1>1, NewShareFacts
<1>4. new \notin live /\ new # NoShare /\ \A h \in Handlers : share[h] # new
  BY Zenon, FreshShare
<1>5. live \subseteq Shares /\ internal \in [Shares -> BOOLEAN]
      /\ open_count \in [Shares -> Nat] /\ open_list \in [Shares -> SUBSET Handlers]
  BY MaxSharesAssumption DEF IInv, TypeOK, Shares
<1> HIDE DEF new
<1>6. HandlesLive' /\ HoldsShare'
  BY Zenon, <1>1, <1>3 DEF IInv, HandlesLive, HoldsShare
<1>7. InternalPrivate'
  BY Zenon, <1>1, <1>3, <1>4, <1>5 DEF IInv, InternalPrivate
<1>8. HandlesCounted'
  <2> SUFFICES ASSUME NEW s \in live'
               PROVE  /\ open_count'[s] = Cardinality(Counted(s)')
                      /\ open_list'[s] = {h \in Handlers :
                              share'[h] = s /\ pc'[h] = "open" /\ ~internal'[s]}
    BY Zenon DEF HandlesCounted
  <2>1. CASE s = new
    <3>1. Counted(s)' = {}
      BY Zenon, <1>1, <1>4, <2>1 DEF Counted
    <3>2. Cardinality(Counted(s)') = 0
      BY Zenon, <3>1, FS_EmptySet
    <3> QED
      BY Zenon, <1>1, <1>3, <1>4, <1>5, <2>1, <3>2
  <2>2. CASE s \in live
    <3>1. internal'[s] = internal[s] /\ open_count'[s] = open_count[s]
          /\ open_list'[s] = open_list[s]
      BY Zenon, <1>3, <1>4, <1>5, <2>2
    <3>2. Counted(s)' = Counted(s)
      BY Zenon, <1>1, <3>1 DEF Counted
    <3> QED
      BY Zenon, <1>1, <2>2, <3>1, <3>2 DEF IInv, HandlesCounted
  <2> QED
    BY Zenon, <1>3, <2>1, <2>2
<1> QED
  BY Zenon, <1>2, <1>3, <1>6, <1>7, <1>8 DEF IInv

LEMMA CreateFailsStep == ASSUME IInv, NEW n \in Names, CreateFails(n) PROVE IInv'
<1>1. Free(Unused(n)) /\ UNCHANGED <<allocated, shareVars, pc, share, path, late>>
  BY Zenon DEF CreateFails
<1>2. delete_on_close' \in [Shares -> BOOLEAN]
  BY Zenon, <1>1 DEF IInv, TypeOK, shareVars
<1> QED
  BY Zenon, <1>1, <1>2, UnusedFacts, FreeUnheld DEF shareVars

LEMMA DeleteTableStep == ASSUME IInv, NEW n \in Names, DeleteTable(n) PROVE IInv'
<1> DEFINE s == Find(n)
<1>1. s \in live /\ s \in Shares /\ ~internal[s]
  BY Zenon, FindRegistered DEF DeleteTable
<1>2. CASE open_count[s] = 0
  <2>1. \A h \in Handlers : share[h] # s
    BY Zenon, <1>1, <1>2, UnusedNotHeld
  <2>2. Free({s}) /\ delete_on_close' \in [Shares -> BOOLEAN]
    BY Zenon, <1>2 DEF DeleteTable, TryFree, IInv, TypeOK
  <2> QED
    BY Zenon, <2>1, <2>2, FreeUnheld DEF DeleteTable
<1>3. CASE open_count[s] # 0
  <2>1. Free({}) /\ delete_on_close' \in [Shares -> BOOLEAN]
    BY Zenon, <1>3 DEF DeleteTable, TryFree, Free, IInv, TypeOK
  <2> QED
    BY Zenon, <2>1, FreeUnheld DEF DeleteTable
<1> QED
  BY Zenon, <1>2, <1>3

\* Steps that change only names, rows and history.
LEMMA Rest ==
    ASSUME IInv,
           UNCHANGED <<allocated, live, fm_share_list, internal, open_count, delete_on_close,
                       open_list, pc, share>>,
           name' \in [Shares -> Names], path' \in [Handlers -> Names],
           rows' \subseteq live, late' \in SUBSET Handlers
    PROVE  IInv'
<1>1. TypeOK' /\ HandlesLive' /\ ListExact' /\ HoldsShare' /\ InternalPrivate'
  BY Zenon DEF IInv, TypeOK, HandlesLive, ListExact, HoldsShare, InternalPrivate
<1>2. HandlesCounted'
  BY DEF IInv, HandlesCounted, Counted
<1> QED
  BY Zenon, <1>1, <1>2 DEF IInv

LEMMA RenameStep == ASSUME IInv, NEW n \in Names, NEW m \in Names, Rename(n, m) PROVE IInv'
<1>1. name' \in [Shares -> Names] /\ late' \in SUBSET Handlers
  BY Zenon DEF Rename, IInv, TypeOK
<1>2. path' \in [Handlers -> Names] /\ rows' \subseteq live
  BY Zenon DEF Rename, IInv, TypeOK
<1> QED
  BY Zenon, <1>1, <1>2, Rest DEF Rename

LEMMA WriteStep == ASSUME IInv, NEW h \in Handlers, Write(h) PROVE IInv'
<1>1. rows' \subseteq live
  BY Zenon DEF Write, IInv, TypeOK, HandlesLive
<1>2. name' \in [Shares -> Names] /\ path' \in [Handlers -> Names] /\ late' \in SUBSET Handlers
  BY Zenon DEF Write, shareVars, IInv, TypeOK
<1> QED
  BY Zenon, <1>1, <1>2, Rest DEF Write, shareVars

-----------------------------------------------------------------------------
(* Handlers: one handler moves, and open_count moves with it.              *)

\* What HandlesCounted says of one share.
CountOK(s) ==
    /\ open_count[s] = Cardinality(Counted(s))
    /\ open_list[s] = {h \in Handlers : share[h] = s /\ pc[h] = "open" /\ ~internal[s]}

\* A handler that moves between other shares does not count for s.
LEMMA Elsewhere ==
    ASSUME IInv, NEW s \in live, NEW h \in Handlers,
           NEW x, NEW l, Hold(h, x), Goto(h, l), x # s, share[h] # s,
           open_count'[s] = open_count[s], open_list'[s] = open_list[s],
           internal'[s] = internal[s]
    PROVE  CountOK(s)'
<1>1. share \in [Handlers -> Shares \cup {NoShare}]
      /\ pc \in [Handlers -> {"closed", "create", "register", "open"}]
  BY Zenon DEF IInv, TypeOK
<1>2. \A g \in Handlers : share'[g] = s <=> share[g] = s
  BY Zenon, <1>1 DEF Hold
<1>3. \A g \in Handlers : share[g] = s => pc'[g] = pc[g]
  BY Zenon, <1>1 DEF Goto
<1>4. Counted(s)' = Counted(s)
  BY Zenon, <1>2, <1>3 DEF Counted
<1>5. {g \in Handlers : share'[g] = s /\ pc'[g] = "open" /\ ~internal'[s]}
      = {g \in Handlers : share[g] = s /\ pc[g] = "open" /\ ~internal[s]}
  BY Zenon, <1>2, <1>3
<1>6. CountOK(s)
  BY Zenon DEF IInv, HandlesCounted, CountOK
<1> QED
  BY Zenon, <1>4, <1>5, <1>6 DEF CountOK

\* Handler h moves to share x and step l.  It remains to look at the share it
\* comes from and the one it goes to.
LEMMA Move ==
    ASSUME IInv, TypeOK', ListExact', NEW h \in Handlers, NEW x \in Shares \cup {NoShare}, NEW l,
           Hold(h, x), Goto(h, l),
           x = NoShare <=> l \in {"closed", "create"},
           x # NoShare => x \in live',
           x # NoShare /\ internal'[x] => \A g \in Handlers \ {h} : share[g] # x,
           \A g \in Handlers \ {h} : share[g] # NoShare => share[g] \in live',
           \A s \in live' \ {x} : s \in live,
           \A s \in live : internal'[s] = internal[s],
           \A s \in live' \ {x, share[h]} :
               open_count'[s] = open_count[s] /\ open_list'[s] = open_list[s],
           \A s \in live' : s \in {x, share[h]} => CountOK(s)'
    PROVE  IInv'
<1>1. share \in [Handlers -> Shares \cup {NoShare}]
      /\ pc \in [Handlers -> {"closed", "create", "register", "open"}]
  BY Zenon DEF IInv, TypeOK
<1>2. share'[h] = x /\ pc'[h] = l
      /\ \A g \in Handlers \ {h} : share'[g] = share[g] /\ pc'[g] = pc[g]
  BY Zenon, <1>1 DEF Hold, Goto
<1>3. HoldsShare'
  BY Zenon, <1>2 DEF IInv, HoldsShare
<1>4. HandlesLive'
  BY Zenon, <1>2, <1>3 DEF IInv, HandlesLive, HoldsShare
<1>5. InternalPrivate'
  <2> SUFFICES ASSUME NEW f \in Handlers, NEW g \in Handlers, share'[f] # NoShare,
                      share'[f] = share'[g], internal'[share'[f]], f # g
               PROVE  FALSE
    BY Zenon DEF InternalPrivate
  <2>1. CASE f = h \/ g = h
    BY <1>2, <2>1
  <2>2. CASE f # h /\ g # h
    <3>1. share[f] = share[g] /\ share[f] # NoShare /\ share'[f] = share[f]
      BY Zenon, <1>2, <2>2
    <3>2. share[f] \in live
      BY Zenon, <3>1, <1>1 DEF IInv, HandlesLive, HoldsShare
    <3> QED
      BY Zenon, <3>1, <3>2 DEF IInv, InternalPrivate
  <2> QED
    BY Zenon, <2>1, <2>2
<1>6. \A s \in live' : CountOK(s)'
  <2> TAKE s \in live'
  <2>1. CASE s \notin {x, share[h]}
    BY Zenon, <2>1, Elsewhere
  <2> QED
    BY Zenon, <2>1
<1>7. HandlesCounted'
  BY Zenon, <1>6 DEF CountOK, HandlesCounted
<1> QED
  BY Zenon, <1>3, <1>4, <1>5, <1>7 DEF IInv

\* A handler that opens or pins adds one to the share's count.
LEMMA CountUp ==
    ASSUME IInv, NEW x \in live, NEW h \in Handlers, h \notin Counted(x), NEW l,
           Hold(h, x), Goto(h, l), internal'[x] = internal[x],
           l = "open" \/ (l = "register" /\ ~internal[x])
    PROVE  Cardinality(Counted(x)') = open_count[x] + 1
<1>1. share \in [Handlers -> Shares \cup {NoShare}]
      /\ pc \in [Handlers -> {"closed", "create", "register", "open"}]
  BY Zenon DEF IInv, TypeOK
<1>2. share'[h] = x /\ pc'[h] = l
      /\ \A g \in Handlers \ {h} : share'[g] = share[g] /\ pc'[g] = pc[g]
  BY Zenon, <1>1 DEF Hold, Goto
<1>3. Counted(x)' = Counted(x) \cup {h}
  BY Zenon, <1>2 DEF Counted
<1>4. open_count[x] = Cardinality(Counted(x))
  BY Zenon DEF IInv, HandlesCounted
<1>5. Cardinality(Counted(x) \cup {h}) = Cardinality(Counted(x)) + 1
  BY Zenon, CountedFinite, FS_AddElement
<1> QED
  BY Zenon, <1>3, <1>4, <1>5

\* A handler that closes or drops its pin takes one from it.
LEMMA CountDown ==
    ASSUME IInv, NEW h \in Handlers, NEW x \in Shares, h \in Counted(x),
           Hold(h, NoShare), Goto(h, "closed"), internal'[x] = internal[x]
    PROVE  /\ Cardinality(Counted(x)') = open_count[x] - 1
           /\ open_count[x] \in Nat \ {0}
<1>1. share \in [Handlers -> Shares \cup {NoShare}]
      /\ pc \in [Handlers -> {"closed", "create", "register", "open"}]
  BY Zenon DEF IInv, TypeOK
<1>2. share'[h] = NoShare /\ pc'[h] = "closed"
      /\ \A g \in Handlers \ {h} : share'[g] = share[g] /\ pc'[g] = pc[g]
  BY Zenon, <1>1 DEF Hold, Goto
<1>3. Counted(x)' = Counted(x) \ {h}
  BY Zenon, <1>2, MaxSharesAssumption DEF Counted, Shares, NoShare
<1>4. x \in live
  BY Zenon DEF Counted, IInv, HandlesLive
<1>5. open_count[x] = Cardinality(Counted(x))
  BY Zenon, <1>4 DEF IInv, HandlesCounted
<1>6. Cardinality(Counted(x) \ {h}) = Cardinality(Counted(x)) - 1
  BY Zenon, CountedFinite, FS_RemoveElement
<1>7. Cardinality(Counted(x)) # 0 /\ Cardinality(Counted(x)) \in Nat
  BY Zenon, CountedFinite, FS_EmptySet
<1> QED
  BY Zenon, <1>3, <1>5, <1>6, <1>7

\* Types that most of a handler's steps leave alone.
LEMMA HandlerTypes ==
    ASSUME IInv, NEW h \in Handlers, NEW x \in Shares \cup {NoShare},
           NEW l \in {"closed", "create", "register", "open"},
           Hold(h, x), Goto(h, l), UNCHANGED <<allocated, name, internal>>,
           live' \subseteq live, rows' \subseteq live',
           open_count' \in [Shares -> Nat], open_list' \in [Shares -> SUBSET Handlers],
           delete_on_close' \in [Shares -> BOOLEAN],
           path' \in [Handlers -> Names], late' \in SUBSET Handlers
    PROVE  TypeOK'
BY Zenon DEF IInv, TypeOK, Hold, Goto

LEMMA OpenMissingStep ==
    ASSUME IInv, NEW h \in Handlers, NEW n \in Names, OpenMissing(h, n) PROVE IInv'
<1>1. share[h] = NoShare
  BY Zenon DEF OpenMissing, IInv, HoldsShare
<1>2. Hold(h, NoShare) /\ Goto(h, "create")
  BY Zenon, <1>1 DEF OpenMissing, Hold, IInv, TypeOK
<1>3. UNCHANGED <<allocated, live, fm_share_list, shareVars, rows, late>>
      /\ path' \in [Handlers -> Names]
  BY Zenon DEF OpenMissing, IInv, TypeOK
<1>4. TypeOK'
  <2>1. /\ rows \subseteq live /\ open_count \in [Shares -> Nat] /\ late \in SUBSET Handlers
        /\ open_list \in [Shares -> SUBSET Handlers] /\ delete_on_close \in [Shares -> BOOLEAN]
    BY Zenon DEF IInv, TypeOK
  <2> QED
    BY Zenon, <1>2, <1>3, <2>1, HandlerTypes DEF shareVars
<1>5. ListExact'
  BY Zenon, <1>3 DEF IInv, ListExact, shareVars
<1>6. \A g \in Handlers : share[g] # NoShare => share[g] \in live
  BY Zenon DEF IInv, TypeOK, HandlesLive, HoldsShare
<1>7. NoShare \notin live
  BY DEF IInv, TypeOK, NoShare
<1> QED
  BY Zenon, <1>1, <1>2, <1>3, <1>4, <1>5, <1>6, <1>7, Move DEF shareVars

LEMMA OpenCreateFailsStep ==
    ASSUME IInv, NEW h \in Handlers, OpenCreateFails(h) PROVE IInv'
<1>1. share[h] = NoShare
  BY Zenon DEF OpenCreateFails, IInv, HoldsShare
<1>2. Hold(h, NoShare) /\ Goto(h, "closed")
  BY Zenon, <1>1 DEF OpenCreateFails, Hold, IInv, TypeOK
<1>3. PICK S : S = Unused(path[h])
  BY Zenon
<1>4. /\ live' = live \ S /\ fm_share_list' = fm_share_list \ S /\ rows' = rows \ S
      /\ UNCHANGED <<allocated, shareVars, path>> /\ late' \in SUBSET Handlers
  BY Zenon, <1>3 DEF OpenCreateFails, Free, IInv, TypeOK
<1>5. \A s \in S : \A g \in Handlers : share[g] # s
  <2>1. path[h] \in Names
    BY Zenon DEF IInv, TypeOK
  <2> QED
    BY Zenon, <1>3, <2>1, UnusedFacts
<1>6. TypeOK'
  <2>1. /\ rows \subseteq live /\ open_count \in [Shares -> Nat] /\ path \in [Handlers -> Names]
        /\ open_list \in [Shares -> SUBSET Handlers] /\ delete_on_close \in [Shares -> BOOLEAN]
    BY Zenon DEF IInv, TypeOK
  <2> QED
    BY Zenon, <1>2, <1>4, <2>1, HandlerTypes DEF shareVars
<1>7. ListExact'
  BY Zenon, <1>4 DEF IInv, ListExact, shareVars
<1>8. \A g \in Handlers : share[g] # NoShare => share[g] \in live'
  BY Zenon, <1>4, <1>5 DEF IInv, TypeOK, HandlesLive, HoldsShare
<1>9. NoShare \notin live
  BY DEF IInv, TypeOK, NoShare
<1> QED
  BY Zenon, <1>1, <1>2, <1>4, <1>6, <1>7, <1>8, <1>9, Move DEF shareVars

\* Handler h, which holds nothing, opens or pins registered share x.
LEMMA Join ==
    ASSUME IInv, NEW h \in Handlers, share[h] = NoShare,
           NEW x \in live, x \in Shares, ~internal[x], NEW l \in {"register", "open"},
           Hold(h, x), Goto(h, l),
           UNCHANGED <<allocated, live, fm_share_list, name, internal, delete_on_close, path, rows>>,
           open_count' = [open_count EXCEPT ![x] = open_count[x] + 1],
           open_list' = [open_list EXCEPT ![x] = IF l = "open" THEN @ \cup {h} ELSE @],
           late' \in SUBSET Handlers
    PROVE  IInv'
<1>0. x # NoShare
  BY MaxSharesAssumption DEF Shares, NoShare
<1>1. /\ open_count \in [Shares -> Nat] /\ open_list \in [Shares -> SUBSET Handlers]
      /\ rows \subseteq live /\ delete_on_close \in [Shares -> BOOLEAN]
      /\ path \in [Handlers -> Names] /\ live \subseteq Shares
      /\ share \in [Handlers -> Shares \cup {NoShare}]
      /\ pc \in [Handlers -> {"closed", "create", "register", "open"}]
  BY MaxSharesAssumption DEF IInv, TypeOK, Shares
<1>2. open_count' \in [Shares -> Nat] /\ open_list' \in [Shares -> SUBSET Handlers]
  BY <1>1
<1>3. TypeOK'
  BY Zenon, <1>1, <1>2, HandlerTypes
<1>4. ListExact'
  BY Zenon DEF IInv, ListExact
<1>5. CountOK(x)'
  <2>1. h \notin Counted(x)
    BY Zenon, <1>0 DEF Counted
  <2>2. Cardinality(Counted(x)') = open_count[x] + 1
    BY Zenon, <2>1, CountUp
  <2>3. open_count'[x] = open_count[x] + 1
    BY Zenon, <1>1
  <2>4. share'[h] = x /\ pc'[h] = l
        /\ \A g \in Handlers \ {h} : share'[g] = share[g] /\ pc'[g] = pc[g]
    BY Zenon, <1>1 DEF Hold, Goto
  <2>5. open_list[x] = {g \in Handlers : share[g] = x /\ pc[g] = "open" /\ ~internal[x]}
    BY Zenon DEF IInv, HandlesCounted
  <2>6. open_list'[x] = {g \in Handlers : share'[g] = x /\ pc'[g] = "open" /\ ~internal'[x]}
    BY Zenon, <1>0, <1>1, <2>4, <2>5
  <2> QED
    BY Zenon, <2>2, <2>3, <2>6 DEF CountOK
<1>6. \A g \in Handlers : share[g] # NoShare => share[g] \in live
  BY Zenon DEF IInv, TypeOK, HandlesLive, HoldsShare
<1>7. NoShare \notin live
  BY DEF IInv, TypeOK, NoShare
<1>8. \A s \in live \ {x} : open_count'[s] = open_count[s] /\ open_list'[s] = open_list[s]
  BY Zenon, <1>1
<1> QED
  BY <1>0, <1>3, <1>4, <1>5, <1>6, <1>7, <1>8, Move

LEMMA OpenFoundStep ==
    ASSUME IInv, NEW h \in Handlers, NEW n \in Names, OpenFound(h, n) PROVE IInv'
<1>1. PICK x : x = Find(n)
  BY Zenon
<1>2. x \in live /\ x \in Shares /\ ~internal[x]
  BY Zenon, <1>1, FindRegistered DEF OpenFound
<1>3. share[h] = NoShare
  BY Zenon DEF OpenFound, IInv, HoldsShare
<1>4. late' \in SUBSET Handlers
  BY Zenon DEF OpenFound, IInv, TypeOK
<1>5. /\ Hold(h, x) /\ Goto(h, "open")
      /\ open_count' = [open_count EXCEPT ![x] = open_count[x] + 1]
      /\ open_list' = [open_list EXCEPT ![x] = @ \cup {h}]
  BY Zenon, <1>1, <1>2 DEF OpenFound, Opened
<1> QED
  BY Zenon, <1>2, <1>3, <1>4, <1>5, Join DEF OpenFound

LEMMA OpenUsedStep == ASSUME IInv, NEW h \in Handlers, OpenUsed(h) PROVE IInv'
<1>1. PICK x : x = Find(path[h])
  BY Zenon
<1>2. x \in live /\ x \in Shares /\ ~internal[x]
  <2>1. path[h] \in Names
    BY Zenon DEF IInv, TypeOK
  <2> QED
    BY Zenon, <1>1, <2>1, FindRegistered DEF OpenUsed, Used
<1>3. share[h] = NoShare
  BY Zenon DEF OpenUsed, IInv, HoldsShare
<1>4. late' \in SUBSET Handlers
  BY Zenon DEF OpenUsed, IInv, TypeOK
<1>5. /\ Hold(h, x) /\ Goto(h, "register")
      /\ open_count' = [open_count EXCEPT ![x] = open_count[x] + 1]
      /\ open_list' = [open_list EXCEPT ![x] = @]
  BY Zenon, <1>1, <1>2 DEF OpenUsed, IInv, TypeOK
<1> QED
  BY Zenon, <1>2, <1>3, <1>4, <1>5, Join DEF OpenUsed

\* fm_create allocates share x for handler h: pinned, or internal and not counted.
LEMMA NewHeld ==
    ASSUME IInv, NEW h \in Handlers, share[h] = NoShare, NEW n \in Names, NEW int \in BOOLEAN,
           NewShare(n, int, IF int THEN 0 ELSE 1),
           NEW x, x = allocated + 1, Hold(h, x), Goto(h, "register"), path' = path,
           late' \in SUBSET Handlers
    PROVE  IInv'
<1>1. /\ x \in Shares /\ x \in live'
      /\ internal' = [internal EXCEPT ![x] = int]
      /\ open_count' = [open_count EXCEPT ![x] = IF int THEN 0 ELSE 1]
      /\ open_list' = [open_list EXCEPT ![x] = {}]
      /\ ListExact'
      /\ \A s \in live' : s \in live \/ s = x
      /\ \A g \in Handlers : share[g] # NoShare => share[g] \in live'
  BY NewShareFacts
<1>2. x \notin live /\ x # NoShare /\ \A g \in Handlers : share[g] # x
  BY Zenon, FreshShare
<1>3. /\ open_count \in [Shares -> Nat] /\ open_list \in [Shares -> SUBSET Handlers]
      /\ internal \in [Shares -> BOOLEAN] /\ live \subseteq Shares
      /\ share \in [Handlers -> Shares \cup {NoShare}] /\ path \in [Handlers -> Names]
      /\ pc \in [Handlers -> {"closed", "create", "register", "open"}]
  BY MaxSharesAssumption DEF IInv, TypeOK, Shares
<1>4. TypeOK'
  <2>1. /\ pc' \in [Handlers -> {"closed", "create", "register", "open"}]
        /\ share' \in [Handlers -> Shares \cup {NoShare}]
    BY Zenon, <1>1, <1>3 DEF Hold, Goto
  <2> QED
    BY Zenon, <1>3, <2>1, NewShareTypes
<1>5. CountOK(x)'
  <2>1. share'[h] = x /\ pc'[h] = "register"
        /\ \A g \in Handlers \ {h} : share'[g] = share[g] /\ pc'[g] = pc[g]
    BY Zenon, <1>3 DEF Hold, Goto
  <2>2. internal'[x] = int /\ open_list'[x] = {} /\ open_count'[x] = IF int THEN 0 ELSE 1
    BY Zenon, <1>1, <1>3
  <2>3. Counted(x)' = IF int THEN {} ELSE {h}
    BY Zenon, <1>2, <2>1, <2>2 DEF Counted
  <2>4. Cardinality(Counted(x)') = IF int THEN 0 ELSE 1
    BY Zenon, <2>3, FS_EmptySet, FS_Singleton
  <2>5. {g \in Handlers : share'[g] = x /\ pc'[g] = "open" /\ ~internal'[x]} = {}
    BY Zenon, <1>2, <2>1
  <2> QED
    BY Zenon, <2>2, <2>4, <2>5 DEF CountOK
<1>6. NoShare \notin live'
  BY <1>4 DEF TypeOK, NoShare
<1>7. \A s \in live : internal'[s] = internal[s]
      /\ open_count'[s] = open_count[s] /\ open_list'[s] = open_list[s]
  BY Zenon, <1>1, <1>2, <1>3
<1> QED
  BY <1>1, <1>2, <1>4, <1>5, <1>6, <1>7, Move

LEMMA OpenCreateStep == ASSUME IInv, NEW h \in Handlers, OpenCreate(h) PROVE IInv'
<1>1. PICK n, x : n = path[h] /\ x = allocated + 1
  BY Zenon
<1>2. share[h] = NoShare /\ n \in Names
  BY Zenon, <1>1 DEF OpenCreate, IInv, HoldsShare, TypeOK
<1>3. late' \in SUBSET Handlers
  BY Zenon DEF OpenCreate, Registers, IInv, TypeOK
<1>4. NewShare(n, FALSE, IF FALSE THEN 0 ELSE 1)
  BY Zenon, <1>1 DEF OpenCreate
<1>5. Hold(h, x) /\ Goto(h, "register") /\ path' = path
  BY Zenon, <1>1 DEF OpenCreate
<1> QED
  BY Zenon, <1>1, <1>2, <1>3, <1>4, <1>5, NewHeld

LEMMA OpenInternalStep ==
    ASSUME IInv, NEW h \in Handlers, NEW n \in Names, OpenInternal(h, n) PROVE IInv'
<1>1. PICK x : x = allocated + 1
  BY Zenon
<1>2. share[h] = NoShare /\ late' \in SUBSET Handlers
  BY Zenon DEF OpenInternal, IInv, HoldsShare, TypeOK
<1>3. NewShare(n, TRUE, IF TRUE THEN 0 ELSE 1)
  BY Zenon DEF OpenInternal
<1>4. Hold(h, x) /\ Goto(h, "register") /\ path' = path
  BY Zenon, <1>1 DEF OpenInternal
<1> QED
  BY Zenon, <1>1, <1>2, <1>3, <1>4, NewHeld

LEMMA OpenRegisterStep == ASSUME IInv, NEW h \in Handlers, OpenRegister(h) PROVE IInv'
<1>1. PICK x : x = share[h]
  BY Zenon
<1>2. /\ open_count \in [Shares -> Nat] /\ open_list \in [Shares -> SUBSET Handlers]
      /\ rows \subseteq live /\ delete_on_close \in [Shares -> BOOLEAN]
      /\ path \in [Handlers -> Names] /\ live \subseteq Shares /\ late \in SUBSET Handlers
      /\ share \in [Handlers -> Shares \cup {NoShare}]
      /\ pc \in [Handlers -> {"closed", "create", "register", "open"}]
  BY MaxSharesAssumption DEF IInv, TypeOK, Shares
<1>3. pc[h] = "register" /\ x \in live /\ x \in Shares /\ x # NoShare
  BY Zenon, <1>1, <1>2 DEF OpenRegister, IInv, HandlesLive, HoldsShare
<1>4. /\ Hold(h, x) /\ Goto(h, "open")
      /\ open_count' = [open_count EXCEPT ![x] =
                            IF internal[x] THEN open_count[x] + 1 ELSE open_count[x]]
      /\ open_list' = [open_list EXCEPT ![x] = IF internal[x] THEN @ ELSE @ \cup {h}]
      /\ UNCHANGED <<allocated, live, fm_share_list, name, internal, delete_on_close, path, rows,
                     late>>
  BY Zenon, <1>1 DEF OpenRegister, Opened
<1>5. TypeOK'
  <2>1. open_count' \in [Shares -> Nat] /\ open_list' \in [Shares -> SUBSET Handlers]
    <3>1. (IF internal[x] THEN open_count[x] + 1 ELSE open_count[x]) \in Nat
      BY <1>2, <1>3
    <3> QED
      BY Zenon, <1>2, <1>4, <3>1
  <2> QED
    BY Zenon, <1>2, <1>3, <1>4, <2>1, HandlerTypes
<1>6. ListExact'
  BY Zenon, <1>4 DEF IInv, ListExact
<1>7. share'[h] = x /\ pc'[h] = "open"
      /\ \A g \in Handlers \ {h} : share'[g] = share[g] /\ pc'[g] = pc[g]
  BY Zenon, <1>2, <1>4 DEF Hold, Goto
<1>8. CountOK(x)
  BY Zenon, <1>3 DEF IInv, HandlesCounted, CountOK
<1>9. ASSUME internal[x] PROVE CountOK(x)'
  <2>1. h \notin Counted(x)
    BY Zenon, <1>3, <1>9 DEF Counted
  <2>2. Cardinality(Counted(x)') = open_count[x] + 1
    BY Zenon, <1>3, <1>4, <2>1, CountUp
  <2>3. open_count'[x] = open_count[x] + 1 /\ open_list'[x] = open_list[x]
    BY Zenon, <1>2, <1>3, <1>4, <1>9
  <2>4. open_list'[x] = {g \in Handlers : share'[g] = x /\ pc'[g] = "open" /\ ~internal'[x]}
    BY Zenon, <1>4, <1>8, <1>9, <2>3 DEF CountOK
  <2> QED
    BY Zenon, <2>2, <2>3, <2>4 DEF CountOK
<1>10. ASSUME ~internal[x] PROVE CountOK(x)'
  <2>1. Counted(x)' = Counted(x)
    BY Zenon, <1>1, <1>3, <1>4, <1>7, <1>10 DEF Counted
  <2>2. open_count'[x] = open_count[x] /\ open_list'[x] = open_list[x] \cup {h}
    BY Zenon, <1>2, <1>3, <1>4, <1>10
  <2>3. open_list'[x] = {g \in Handlers : share'[g] = x /\ pc'[g] = "open" /\ ~internal'[x]}
    BY Zenon, <1>1, <1>4, <1>7, <1>8, <1>10, <2>2 DEF CountOK
  <2> QED
    BY Zenon, <1>8, <2>1, <2>2, <2>3 DEF CountOK
<1>11. CountOK(x)'
  BY Zenon, <1>9, <1>10
<1>12. \A g \in Handlers : share[g] # NoShare => share[g] \in live
  BY Zenon DEF IInv, TypeOK, HandlesLive, HoldsShare
<1>13. \A s \in live \ {x} : open_count'[s] = open_count[s] /\ open_list'[s] = open_list[s]
  BY Zenon, <1>2, <1>4
<1>14. internal[x] => \A g \in Handlers \ {h} : share[g] # x
  BY Zenon, <1>1, <1>3 DEF IInv, InternalPrivate
<1> QED
  BY <1>1, <1>3, <1>4, <1>5, <1>6, <1>11, <1>12, <1>13, <1>14, Move

\* Handler h gives up share x, which is freed if S has it.
LEMMA Part ==
    ASSUME IInv, NEW h \in Handlers, NEW x, x = share[h], x # NoShare, NEW S, S \subseteq {x},
           Hold(h, NoShare), Goto(h, "closed"), Free(S),
           UNCHANGED <<allocated, name, internal, path, late>>,
           open_count' \in [Shares -> Nat], open_list' \in [Shares -> SUBSET Handlers],
           open_list'[x] = open_list[x] \ {h},
           \A s \in Shares \ {x} :
               open_count'[s] = open_count[s] /\ open_list'[s] = open_list[s],
           delete_on_close' \in [Shares -> BOOLEAN],
           S = {x} => \A g \in Handlers \ {h} : share[g] # x,
           S = {} => open_count'[x] = Cardinality(Counted(x)')
    PROVE  IInv'
<1>1. /\ open_count \in [Shares -> Nat] /\ open_list \in [Shares -> SUBSET Handlers]
      /\ rows \subseteq live /\ path \in [Handlers -> Names] /\ live \subseteq Shares
      /\ late \in SUBSET Handlers /\ share \in [Handlers -> Shares \cup {NoShare}]
      /\ pc \in [Handlers -> {"closed", "create", "register", "open"}]
  BY MaxSharesAssumption DEF IInv, TypeOK, Shares
<1>2. x \in Shares /\ x \in live
  BY ZenonT(30), <1>1 DEF IInv, HandlesLive, HoldsShare
<1>3. live' = live \ S /\ fm_share_list' = fm_share_list \ S /\ rows' = rows \ S
  BY Zenon DEF Free
<1>4. TypeOK'
  BY Zenon, <1>1, <1>3, HandlerTypes
<1>5. ListExact'
  BY Zenon, <1>3 DEF IInv, ListExact
<1>6. x \in live' => CountOK(x)'
  <2> SUFFICES ASSUME x \in live' PROVE CountOK(x)'
    BY Zenon
  <2>1. S = {}
    BY Zenon, <1>3
  <2>2. share'[h] = NoShare
        /\ \A g \in Handlers \ {h} : share'[g] = share[g] /\ pc'[g] = pc[g]
    BY Zenon, <1>1 DEF Hold, Goto
  <2>3. open_list[x] = {g \in Handlers : share[g] = x /\ pc[g] = "open" /\ ~internal[x]}
    BY Zenon, <1>2 DEF IInv, HandlesCounted
  <2>4. open_list'[x] = {g \in Handlers : share'[g] = x /\ pc'[g] = "open" /\ ~internal'[x]}
    BY Zenon, <2>2, <2>3
  <2> QED
    BY Zenon, <2>1, <2>4 DEF CountOK
<1>7. \A g \in Handlers \ {h} : share[g] # NoShare => share[g] \in live'
  BY <1>3 DEF IInv, TypeOK, HandlesLive, HoldsShare
<1>8. NoShare \notin live
  BY DEF IInv, TypeOK, NoShare
<1>9. \A s \in live \ {x} : open_count'[s] = open_count[s] /\ open_list'[s] = open_list[s]
  BY Zenon, <1>1
<1> QED
  BY <1>3, <1>4, <1>5, <1>6, <1>7, <1>8, <1>9, Move

\* When the count of x falls to zero with h, no other handler has x.
LEMMA LastOne ==
    ASSUME IInv, NEW h \in Handlers, NEW x \in live, h \in Counted(x), open_count[x] = 1,
           NEW g \in Handlers \ {h}
    PROVE  share[g] # x
<1>1. Cardinality(Counted(x)) = 1
  BY Zenon DEF IInv, HandlesCounted
<1>2. Counted(x) = {h}
  BY <1>1, CountedFinite, FS_Singleton
<1>3. x # NoShare /\ share[h] = x
  BY DEF Counted, IInv, TypeOK, NoShare
<1>4. CASE internal[x]
  BY Zenon, <1>3, <1>4 DEF IInv, InternalPrivate
<1>5. CASE ~internal[x]
  BY Zenon, <1>2, <1>3, <1>5 DEF Counted, IInv, HoldsShare, TypeOK
<1> QED
  BY Zenon, <1>4, <1>5

\* fm_release_share of a pinned share, or of an internal one.
LEMMA OpenReleaseStep == ASSUME IInv, NEW h \in Handlers, OpenRelease(h) PROVE IInv'
<1>1. PICK x : x = share[h]
  BY Zenon
<1>2. pc[h] = "register" /\ x \in live /\ x \in Shares /\ x # NoShare
  BY Zenon, <1>1, MaxSharesAssumption DEF OpenRelease, IInv, HandlesLive, HoldsShare, TypeOK, Shares
<1>3. PICK c : c = IF internal[x] THEN 0 ELSE open_count[x] - 1
  BY Zenon
<1>4. PICK S : S = IF c = 0 THEN {x} ELSE {}
  BY Zenon
<1>5. /\ Hold(h, NoShare) /\ Goto(h, "closed") /\ Free(S)
      /\ UNCHANGED <<allocated, name, internal, path, late>>
      /\ open_count' = [open_count EXCEPT ![x] = c]
      /\ open_list' = open_list /\ delete_on_close' = delete_on_close
  BY Zenon, <1>1, <1>3, <1>4 DEF OpenRelease
<1>6. /\ open_count \in [Shares -> Nat] /\ open_list' \in [Shares -> SUBSET Handlers]
      /\ delete_on_close' \in [Shares -> BOOLEAN] /\ open_list'[x] = open_list[x] \ {h}
  BY Zenon, <1>2, <1>5 DEF IInv, HandlesCounted, TypeOK
<1>7. \A s \in Shares \ {x} : open_count'[s] = open_count[s] /\ open_list'[s] = open_list[s]
  BY Zenon, <1>5, <1>6
<1>8. CASE internal[x]
  <2>1. \A g \in Handlers \ {h} : share[g] # x
    BY Zenon, <1>1, <1>2, <1>8 DEF IInv, InternalPrivate
  <2>2. c \in Nat /\ S = {x}
    BY Zenon, <1>3, <1>4, <1>8
  <2>3. open_count' \in [Shares -> Nat]
    BY Zenon, <1>5, <1>6, <2>2
  <2>4. S \subseteq {x} /\ (S = {} => open_count'[x] = Cardinality(Counted(x)'))
    BY Zenon, <2>2
  <2> QED
    BY Zenon, <1>1, <1>2, <1>5, <1>6, <1>7, <2>1, <2>3, <2>4, Part
<1>9. CASE ~internal[x]
  <2>1. h \in Counted(x)
    BY Zenon, <1>1, <1>2, <1>9 DEF Counted
  <2>2. Cardinality(Counted(x)') = open_count[x] - 1 /\ open_count[x] \in Nat \ {0}
    BY Zenon, <1>2, <1>5, <2>1, CountDown
  <2>3. c \in Nat /\ c = open_count[x] - 1
    BY <1>3, <1>9, <2>2
  <2>4. S = {x} => \A g \in Handlers \ {h} : share[g] # x
    BY <1>2, <1>4, <2>1, <2>2, <2>3, LastOne
  <2>5. open_count' \in [Shares -> Nat] /\ open_count'[x] = Cardinality(Counted(x)')
    BY Zenon, <1>2, <1>5, <1>6, <2>2, <2>3
  <2>6. S \subseteq {x}
    BY Zenon, <1>4
  <2> QED
    BY Zenon, <1>1, <1>2, <1>5, <1>6, <1>7, <2>4, <2>5, <2>6, Part
<1> QED
  BY Zenon, <1>8, <1>9

\* fm_close, after ha_fastmem::drop_table or not.
LEMMA LeaveStep == ASSUME IInv, NEW h \in Handlers, NEW drop \in BOOLEAN, Leave(h, drop) PROVE IInv'
<1>1. PICK x : x = share[h]
  BY Zenon
<1>2. pc[h] = "open" /\ x \in live /\ x \in Shares /\ x # NoShare
  BY Zenon, <1>1, MaxSharesAssumption DEF Leave, IInv, HandlesLive, HoldsShare, TypeOK, Shares
<1>3. PICK c : c = open_count[x] - 1
  BY Zenon
<1>4. PICK S : S = IF c = 0 /\ delete_on_close'[x] THEN {x} ELSE {}
  BY Zenon
<1>5. /\ Hold(h, NoShare) /\ Goto(h, "closed") /\ Free(S)
      /\ UNCHANGED <<allocated, name, internal, path, late>>
      /\ open_count' = [open_count EXCEPT ![x] = c]
      /\ open_list' = [open_list EXCEPT ![x] = @ \ {h}]
      /\ delete_on_close' = [delete_on_close EXCEPT ![x] = @ \/ drop]
  BY Zenon, <1>1, <1>3, <1>4 DEF Leave
<1>6. delete_on_close' \in [Shares -> BOOLEAN]
  <2>1. delete_on_close \in [Shares -> BOOLEAN]
    BY Zenon DEF IInv, TypeOK
  <2> QED
    BY Zenon, <1>5, <2>1
<1>7. h \in Counted(x)
  BY Zenon, <1>1, <1>2 DEF Counted
<1>8. Cardinality(Counted(x)') = c /\ open_count[x] \in Nat \ {0}
  BY Zenon, <1>2, <1>3, <1>5, <1>7, CountDown
<1>9. c \in Nat /\ (c = 0 => open_count[x] = 1)
  BY <1>3, <1>8
<1>10. S = {x} => \A g \in Handlers \ {h} : share[g] # x
  BY Zenon, <1>2, <1>4, <1>7, <1>9, LastOne
<1>11. S \subseteq {x}
  BY Zenon, <1>4
<1>12. open_count \in [Shares -> Nat] /\ open_list \in [Shares -> SUBSET Handlers]
  BY Zenon DEF IInv, TypeOK
<1>13. /\ open_count' \in [Shares -> Nat] /\ open_count'[x] = Cardinality(Counted(x)')
       /\ open_list' \in [Shares -> SUBSET Handlers] /\ open_list'[x] = open_list[x] \ {h}
  BY Zenon, <1>2, <1>5, <1>8, <1>9, <1>12
<1>14. \A s \in Shares \ {x} : open_count'[s] = open_count[s] /\ open_list'[s] = open_list[s]
  BY Zenon, <1>5, <1>12
<1> QED
  BY <1>1, <1>2, <1>5, <1>6, <1>10, <1>11, <1>13, <1>14, Part

-----------------------------------------------------------------------------
LEMMA Inductive == IInv /\ [Next]_vars => IInv'
<1> SUFFICES ASSUME IInv, [Next]_vars PROVE IInv'
  BY Zenon
<1>1. ASSUME NEW n \in Names, Create(n) PROVE IInv'
  BY Zenon, <1>1, CreateStep
<1>2. ASSUME NEW n \in Names, CreateFails(n) PROVE IInv'
  BY Zenon, <1>2, CreateFailsStep
<1>3. ASSUME NEW n \in Names, DeleteTable(n) PROVE IInv'
  BY Zenon, <1>3, DeleteTableStep
<1>4. ASSUME NEW n \in Names, NEW m \in Names, Rename(n, m) PROVE IInv'
  BY Zenon, <1>4, RenameStep
<1>5. ASSUME NEW h \in Handlers, NEW n \in Names, OpenFound(h, n) PROVE IInv'
  BY Zenon, <1>5, OpenFoundStep
<1>6. ASSUME NEW h \in Handlers, NEW n \in Names, OpenMissing(h, n) PROVE IInv'
  BY Zenon, <1>6, OpenMissingStep
<1>7. ASSUME NEW h \in Handlers, NEW n \in Names, OpenInternal(h, n) PROVE IInv'
  BY Zenon, <1>7, OpenInternalStep
<1>8. ASSUME NEW h \in Handlers, OpenCreate(h) PROVE IInv'
  BY Zenon, <1>8, OpenCreateStep
<1>9. ASSUME NEW h \in Handlers, OpenUsed(h) PROVE IInv'
  BY Zenon, <1>9, OpenUsedStep
<1>10. ASSUME NEW h \in Handlers, OpenCreateFails(h) PROVE IInv'
  BY Zenon, <1>10, OpenCreateFailsStep
<1>11. ASSUME NEW h \in Handlers, OpenRegister(h) PROVE IInv'
  BY Zenon, <1>11, OpenRegisterStep
<1>12. ASSUME NEW h \in Handlers, OpenRelease(h) PROVE IInv'
  BY Zenon, <1>12, OpenReleaseStep
<1>13. ASSUME NEW h \in Handlers, Close(h) PROVE IInv'
  BY Zenon, <1>13, LeaveStep DEF Close
<1>14. ASSUME NEW h \in Handlers, DropTable(h) PROVE IInv'
  BY Zenon, <1>14, LeaveStep DEF DropTable
<1>15. ASSUME NEW h \in Handlers, Write(h) PROVE IInv'
  BY Zenon, <1>15, WriteStep
<1>16. ASSUME UNCHANGED vars PROVE IInv'
  <2>1. /\ name' \in [Shares -> Names] /\ path' \in [Handlers -> Names]
        /\ rows' \subseteq live /\ late' \in SUBSET Handlers
    BY Zenon, <1>16 DEF vars, shareVars, IInv, TypeOK
  <2> QED
    BY Zenon, <1>16, <2>1, Rest DEF vars, shareVars
<1> QED
  BY Zenon, <1>1, <1>2, <1>3, <1>4, <1>5, <1>6, <1>7, <1>8, <1>9, <1>10, <1>11, <1>12, <1>13, <1>14,
     <1>15, <1>16 DEF Next

LEMMA Invariance == Spec => []IInv
  BY Initial, Inductive, PTL DEF Spec

\* Type correctness of the registry and the handlers (fm_create.cc, ha_fastmem.cc).
THEOREM TypeCorrect == Spec => []TypeOK
<1>1. IInv => TypeOK
  BY Zenon DEF IInv
<1> QED
  BY <1>1, Invariance, PTL

\* No handler is left with a freed share (fm_close, fm_release_share, fm_try_free
\* and fm_create free only what nobody holds), for any number of handlers.
THEOREM NoFreedHandle == Spec => []HandlesLive
<1>1. IInv => HandlesLive
  BY Zenon DEF IInv
<1> QED
  BY <1>1, Invariance, PTL

\* open_count and open_list of every share are exact after any sequence of
\* opens, pins, failures and closes.
THEOREM CountsExact == Spec => []HandlesCounted
<1>1. IInv => HandlesCounted
  BY Zenon DEF IInv
<1> QED
  BY <1>1, Invariance, PTL

\* fm_share_list has exactly the shares that are alive and not internal.
THEOREM RegistryExact == Spec => []ListExact
<1>1. IInv => ListExact
  BY Zenon DEF IInv
<1> QED
  BY <1>1, Invariance, PTL

-----------------------------------------------------------------------------
\* A dropped share keeps a handler in every step: it is dropped or left while
\* its count is not zero, and fm_close frees it when the count gets there.
LEMMA DroppedStep == IInv /\ IInv' /\ DroppedFreed /\ [Next]_vars => DroppedFreed'
<1> SUFFICES ASSUME IInv, IInv', DroppedFreed, [Next]_vars,
                    NEW s \in live', delete_on_close'[s]
             PROVE  \E h \in Handlers : share'[h] = s
  BY Zenon DEF DroppedFreed
<1>0. s \in Shares /\ s # NoShare
  BY MaxSharesAssumption DEF IInv, TypeOK, Shares, NoShare
<1>1. CASE open_count'[s] # 0
  <2>1. /\ IsFiniteSet(Counted(s)')
        /\ open_count'[s] = Cardinality(Counted(s)')
    <3>1. Counted(s)' \in SUBSET Handlers
      BY Zenon DEF Counted
    <3> QED
      BY Zenon, <3>1, HandlersAssumption, FS_Subset DEF IInv, HandlesCounted
  <2>2. Counted(s)' # {}
    BY Zenon, <1>1, <2>1, FS_EmptySet
  <2> QED
    BY Zenon, <2>2 DEF Counted
<1>2. ASSUME s \in live, delete_on_close[s], \A h \in Handlers : share[h] = s => share'[h] = s
      PROVE  \E h \in Handlers : share'[h] = s
  BY Zenon, <1>2 DEF DroppedFreed
<1>3. ASSUME NEW h \in Handlers, share[h] = NoShare, NEW x, Hold(h, x),
             s \in live, delete_on_close[s]
      PROVE  \E g \in Handlers : share'[g] = s
  BY Zenon, <1>0, <1>2, <1>3 DEF Hold, IInv, TypeOK
<1>4. ASSUME NEW n \in Names, NEW int \in BOOLEAN, NEW pins \in Nat, NewShare(n, int, pins)
      PROVE  \/ s = allocated + 1 /\ int
             \/ s \in live /\ delete_on_close[s]
  BY Zenon, <1>0, <1>4 DEF NewShare, IInv, TypeOK
<1>5. ASSUME NEW n \in Names, Create(n) PROVE \E h \in Handlers : share'[h] = s
  BY Zenon, <1>2, <1>4, <1>5 DEF Create
<1>6. ASSUME NEW n \in Names, CreateFails(n) PROVE \E h \in Handlers : share'[h] = s
  BY Zenon, <1>2, <1>6 DEF CreateFails, Free, shareVars
<1>7. ASSUME NEW n \in Names, DeleteTable(n) PROVE \E h \in Handlers : share'[h] = s
  <2>1. CASE s = Find(n) /\ open_count[s] # 0
    BY Zenon, <1>1, <1>7, <2>1 DEF DeleteTable
  <2>2. CASE s = Find(n) /\ open_count[s] = 0
    BY Zenon, <1>7, <2>2 DEF DeleteTable, TryFree, Free
  <2>3. CASE s # Find(n)
    BY Zenon, <1>0, <1>2, <1>7, <2>3 DEF DeleteTable, TryFree, Free, IInv, TypeOK
  <2> QED
    BY Zenon, <2>1, <2>2, <2>3
<1>8. ASSUME NEW n \in Names, NEW m \in Names, Rename(n, m) PROVE \E h \in Handlers : share'[h] = s
  BY Zenon, <1>2, <1>8 DEF Rename
<1>9. ASSUME NEW h \in Handlers, NEW n \in Names, OpenFound(h, n)
      PROVE  \E g \in Handlers : share'[g] = s
  <2>1. share[h] = NoShare
    BY Zenon, <1>9 DEF OpenFound, IInv, HoldsShare
  <2> QED
    BY Zenon, <1>3, <1>9, <2>1 DEF OpenFound, Opened
<1>10. ASSUME NEW h \in Handlers, NEW n \in Names, OpenMissing(h, n)
       PROVE  \E g \in Handlers : share'[g] = s
  BY Zenon, <1>2, <1>10 DEF OpenMissing, shareVars
<1>11. ASSUME NEW h \in Handlers, NEW n \in Names, OpenInternal(h, n)
       PROVE  \E g \in Handlers : share'[g] = s
  <2>1. share[h] = NoShare /\ share'[h] = allocated + 1
    BY Zenon, <1>11 DEF OpenInternal, Hold, IInv, TypeOK, HoldsShare
  <2>2. NewShare(n, TRUE, 0) /\ Hold(h, allocated + 1)
    BY Zenon, <1>11 DEF OpenInternal
  <2> QED
    BY Zenon, <1>3, <1>4, <2>1, <2>2
<1>12. ASSUME NEW h \in Handlers, OpenCreate(h) PROVE \E g \in Handlers : share'[g] = s
  <2>1. share[h] = NoShare /\ path[h] \in Names
    BY Zenon, <1>12 DEF OpenCreate, IInv, TypeOK, HoldsShare
  <2>2. NewShare(path[h], FALSE, 1) /\ Hold(h, allocated + 1)
    BY Zenon, <1>12 DEF OpenCreate
  <2> QED
    BY Zenon, <1>3, <1>4, <2>1, <2>2
<1>13. ASSUME NEW h \in Handlers, OpenUsed(h) PROVE \E g \in Handlers : share'[g] = s
  <2>1. share[h] = NoShare
    BY Zenon, <1>13 DEF OpenUsed, IInv, HoldsShare
  <2> QED
    BY Zenon, <1>3, <1>13, <2>1 DEF OpenUsed
<1>14. ASSUME NEW h \in Handlers, OpenCreateFails(h) PROVE \E g \in Handlers : share'[g] = s
  BY Zenon, <1>2, <1>14 DEF OpenCreateFails, Free, shareVars
<1>15. ASSUME NEW h \in Handlers, OpenRegister(h) PROVE \E g \in Handlers : share'[g] = s
  BY Zenon, <1>2, <1>15 DEF OpenRegister, Opened, Hold, IInv, TypeOK
<1>16. ASSUME NEW h \in Handlers, Hold(h, NoShare), share[h] # s, s \in live, delete_on_close[s]
       PROVE  \E g \in Handlers : share'[g] = s
  BY Zenon, <1>2, <1>16 DEF Hold, IInv, TypeOK
<1>17. ASSUME NEW h \in Handlers, OpenRelease(h) PROVE \E g \in Handlers : share'[g] = s
  <2>1. CASE share[h] = s
    <3>1. open_count'[s] # 0
      BY Zenon, <1>0, <1>17, <2>1 DEF OpenRelease, Free, IInv, TypeOK
    <3> QED
      BY Zenon, <1>1, <3>1
  <2>2. CASE share[h] # s
    BY Zenon, <1>16, <1>17, <2>2 DEF OpenRelease, Free
  <2> QED
    BY Zenon, <2>1, <2>2
<1>18. ASSUME NEW h \in Handlers, NEW drop \in BOOLEAN, Leave(h, drop)
       PROVE  \E g \in Handlers : share'[g] = s
  <2>1. CASE share[h] = s
    <3>1. open_count'[s] # 0
      BY Zenon, <1>0, <1>18, <2>1 DEF Leave, Free, IInv, TypeOK
    <3> QED
      BY Zenon, <1>1, <3>1
  <2>2. CASE share[h] # s
    BY Zenon, <1>0, <1>16, <1>18, <2>2 DEF Leave, Free, IInv, TypeOK
  <2> QED
    BY Zenon, <2>1, <2>2
<1>19. ASSUME NEW h \in Handlers, Write(h) PROVE \E g \in Handlers : share'[g] = s
  BY Zenon, <1>2, <1>19 DEF Write, shareVars
<1>20. CASE UNCHANGED vars
  BY Zenon, <1>2, <1>20 DEF vars, shareVars
<1> QED
  BY Zenon, <1>5, <1>6, <1>7, <1>8, <1>9, <1>10, <1>11, <1>12, <1>13, <1>14, <1>15, <1>17, <1>18,
    <1>19,
     <1>20 DEF Next, Close, DropTable

\* A share that was dropped, or that is internal, is freed with its last handler
\* (fm_try_free, fm_close, fm_release_share): none is left behind without one.
THEOREM NoDroppedLeft == Spec => []DroppedFreed
<1>1. Init => DroppedFreed
  BY Zenon DEF Init, DroppedFreed
<1> QED
  BY <1>1, DroppedStep, Invariance, PTL DEF Spec

-----------------------------------------------------------------------------
\* A handler between its lookup and its create whose name is registered by now
\* is known to be late.
LateKnown ==
    \A h \in Handlers : pc[h] = "create" =>
        \A s \in fm_share_list : name[s] = path[h] => h \in late

\* Every registration of a name, by create, open or rename, makes those late
\* that have looked for the name before.
LEMMA LateStep == IInv /\ LateKnown /\ [Next]_vars => LateKnown'
<1> SUFFICES ASSUME IInv, LateKnown, [Next]_vars,
                    NEW u \in Handlers, pc'[u] = "create",
                    NEW s \in fm_share_list', name'[s] = path'[u]
             PROVE  u \in late'
  BY Zenon DEF LateKnown
<1> USE DEF IInv, TypeOK
<1>1. ASSUME pc[u] = "create", path'[u] = path[u], s \in fm_share_list, name'[s] = name[s],
             u \in late => u \in late'
      PROVE  u \in late'
  BY Zenon, <1>1 DEF LateKnown
<1>2. ASSUME NEW n \in Names, NEW int \in BOOLEAN, NEW pins \in Nat, NewShare(n, int, pins)
      PROVE  \/ s = allocated + 1 /\ name'[s] = n /\ ~int
             \/ s \in fm_share_list /\ name'[s] = name[s]
  <2>1. allocated + 1 \notin fm_share_list /\ allocated + 1 \in Shares
    BY <1>2 DEF NewShare, ListExact
  <2> QED
    BY <1>2, <2>1 DEF NewShare
<1>3. ASSUME NEW n \in Names, Create(n) PROVE u \in late'
  BY Zenon, <1>1, <1>2, <1>3 DEF Create
<1>4. ASSUME NEW n \in Names, CreateFails(n) \/ DeleteTable(n) PROVE u \in late'
  BY Zenon, <1>1, <1>4 DEF CreateFails, DeleteTable, TryFree, Free, shareVars
<1>5. ASSUME NEW n \in Names, NEW m \in Names, Rename(n, m) PROVE u \in late'
  <2>1. CASE s = Find(n)
    <3>1. s \in Shares
      BY Zenon, <1>5, <2>1, FindRegistered DEF Rename
    <3> QED
      BY Zenon, <1>5, <2>1, <3>1 DEF Rename
  <2>2. CASE s # Find(n)
    BY <1>1, <1>5, <2>2 DEF Rename
  <2> QED
    BY Zenon, <2>1, <2>2
<1>6. ASSUME NEW h \in Handlers, NEW n \in Names, OpenFound(h, n) PROVE u \in late'
  BY Zenon, <1>1, <1>6 DEF OpenFound, Opened, Goto
<1>7. ASSUME NEW h \in Handlers, NEW n \in Names, OpenMissing(h, n) PROVE u \in late'
  <2>1. CASE u = h
    <3>1. Named(n) = {}
      <4>1. SUFFICES ASSUME Named(n) # {} PROVE FALSE
        BY Zenon
      <4>2. Named(n) \in SUBSET Shares
        <5>1. Named(n) \subseteq fm_share_list /\ fm_share_list \subseteq live
          BY Zenon DEF Named, ListExact
        <5>2. live \subseteq Shares
          BY MaxSharesAssumption DEF Shares
        <5> QED
          BY Zenon, <5>1, <5>2
      <4>3. \E r \in Named(n) : \A q \in Named(n) : q <= r
        BY Zenon, <4>1, <4>2, NewestExists
      <4>4. Find(n) \in Named(n)
        BY Zenon, <4>1, <4>3 DEF Find
      <4> QED
        BY <1>7, <4>2, <4>4 DEF OpenMissing, Shares, NoShare
    <3> QED
      BY Zenon, <1>7, <2>1, <3>1 DEF OpenMissing, Named, shareVars
  <2>2. CASE u # h
    BY Zenon, <1>1, <1>7, <2>2 DEF OpenMissing, Goto, shareVars
  <2> QED
    BY Zenon, <2>1, <2>2
<1>8. ASSUME NEW h \in Handlers, NEW n \in Names, OpenInternal(h, n) PROVE u \in late'
  BY Zenon, <1>1, <1>2, <1>8 DEF OpenInternal, Goto
<1>9. ASSUME NEW h \in Handlers, OpenCreate(h) PROVE u \in late'
  <2>1. u # h /\ pc[u] = "create" /\ path[h] \in Names /\ path'[u] = path[u]
    BY Zenon, <1>9 DEF OpenCreate, Goto
  <2>2. \/ s = allocated + 1 /\ name'[s] = path[h]
        \/ s \in fm_share_list /\ name'[s] = name[s]
    BY Zenon, <1>2, <1>9, <2>1 DEF OpenCreate
  <2>3. late' = (late \cup {v \in Handlers : pc[v] = "create" /\ path[v] = path[h]}) \ {h}
    BY Zenon, <1>9 DEF OpenCreate, Registers
  <2> QED
    BY Zenon, <1>1, <2>1, <2>2, <2>3
<1>10. ASSUME NEW h \in Handlers, OpenUsed(h) \/ OpenCreateFails(h) PROVE u \in late'
  BY Zenon, <1>1, <1>10 DEF OpenUsed, OpenCreateFails, Free, Goto, shareVars
<1>11. ASSUME NEW h \in Handlers, OpenRegister(h) PROVE u \in late'
  BY Zenon, <1>1, <1>11 DEF OpenRegister, Opened, Goto
<1>12. ASSUME NEW h \in Handlers, OpenRelease(h) PROVE u \in late'
  BY Zenon, <1>1, <1>12 DEF OpenRelease, Free, Goto
<1>13. ASSUME NEW h \in Handlers, NEW drop \in BOOLEAN, Leave(h, drop) PROVE u \in late'
  BY Zenon, <1>1, <1>13 DEF Leave, Free, Goto
<1>14. ASSUME NEW h \in Handlers, Write(h) PROVE u \in late'
  BY Zenon, <1>1, <1>14 DEF Write, shareVars
<1>15. CASE UNCHANGED vars
  BY Zenon, <1>1, <1>15 DEF vars, shareVars
<1> QED
  BY Zenon, <1>3, <1>4, <1>5, <1>6, <1>7, <1>8, <1>9, <1>10, <1>11, <1>12, <1>13, <1>14, <1>15
  DEF Next, Close, DropTable

\* What KeepsRows says of a step and a share s with rows.
Kept(s) ==
    /\ s \notin live' => GoesByName(s) \/ GoesToLateOpen(s) \/ GoesWithLast(s)
    /\ delete_on_close'[s] # delete_on_close[s] =>
          DeleteTable(name[s]) \/ \E h \in Holders(s) : DropTable(h)

\* A share with rows is allocated and has a mark, set or not.
LEMMA RowShare ==
    ASSUME IInv, NEW s \in rows
    PROVE  s \in live /\ s \in Shares /\ delete_on_close[s] \in BOOLEAN
<1>1. s \in live /\ s \in Shares
  BY MaxSharesAssumption DEF IInv, TypeOK, Shares
<1> QED
  BY Zenon, <1>1 DEF IInv, TypeOK

\* fm_create replaces no share but the unused one of its name, and leaves the marks
\* of all shares but the new one alone.
LEMMA ReplacesUnused ==
    ASSUME IInv, NEW n \in Names, NEW int \in BOOLEAN, NEW pins, NewShare(n, int, pins),
           NEW s \in rows
    PROVE  /\ s \notin live' => s \in Unused(n) /\ ~int
           /\ delete_on_close'[s] = delete_on_close[s]
<1>1. s \in live
  BY Zenon DEF IInv, TypeOK
<1>2. s \notin live' => s \in Unused(n) /\ ~int
  BY Zenon, <1>1 DEF NewShare
<1>3. s # allocated + 1
  BY Zenon, <1>1, FreshShare
<1>4. delete_on_close'[s] = delete_on_close[s]
  <2>1. delete_on_close' = [delete_on_close EXCEPT ![allocated + 1] = int]
    BY Zenon DEF NewShare
  <2> QED
    BY Zenon, <1>3, <2>1, RowShare DEF IInv, TypeOK
<1> QED
  BY Zenon, <1>2, <1>4

\* The share fm_create frees has its name and no handler.
LEMMA UnusedOfName ==
    ASSUME IInv, NEW n \in Names, NEW s \in Unused(n)
    PROVE  name[s] = n /\ Holders(s) = {} /\ s \in fm_share_list
<1>1. s = Find(n) /\ s # NoShare
  BY Zenon DEF Unused
<1>2. name[s] = n /\ s \in fm_share_list
  BY Zenon, <1>1, FindRegistered
<1> QED
  BY Zenon, <1>2, UnusedFacts DEF Holders

\* create and drop of a name: they free a share of that name that no handler has,
\* or mark it.
LEMMA NameKeeps ==
    ASSUME IInv, NEW n \in Names, Create(n) \/ CreateFails(n) \/ DeleteTable(n), NEW s \in rows
    PROVE  Kept(s)
<1>1. s \in live
  BY Zenon DEF IInv, TypeOK
<1>2. CASE Create(n)
  <2>1. NewShare(n, FALSE, 0)
    BY Zenon, <1>2 DEF Create
  <2>2. /\ s \notin live' => s \in Unused(n)
        /\ delete_on_close'[s] = delete_on_close[s]
    BY Zenon, <2>1, ReplacesUnused
  <2> QED
    BY Zenon, <1>2, <2>2, UnusedOfName DEF Kept, GoesByName
<1>3. CASE CreateFails(n)
  <2>1. /\ s \notin live' => s \in Unused(n)
        /\ delete_on_close'[s] = delete_on_close[s]
    BY Zenon, <1>1, <1>3 DEF CreateFails, Free, shareVars
  <2> QED
    BY Zenon, <1>3, <2>1, UnusedOfName DEF Kept, GoesByName
<1>4. CASE DeleteTable(n)
  <2>1. /\ Find(n) # NoShare /\ Find(n) \in live /\ name[Find(n)] = n /\ ~internal[Find(n)]
    BY Zenon, <1>4, FindRegistered DEF DeleteTable
  <2>2. CASE open_count[Find(n)] = 0
    <3>1. /\ s \notin live' => s = Find(n)
          /\ delete_on_close'[s] = delete_on_close[s]
      BY Zenon, <1>1, <1>4, <2>2 DEF DeleteTable, TryFree, Free
    <3>2. Holders(Find(n)) = {}
      BY Zenon, <2>1, <2>2, UnusedNotHeld DEF Holders
    <3> QED
      BY Zenon, <1>4, <2>1, <3>1, <3>2 DEF Kept, GoesByName
  <2>3. CASE open_count[Find(n)] # 0
    <3>1. live' = live /\ delete_on_close' = [delete_on_close EXCEPT ![Find(n)] = TRUE]
      BY Zenon, <1>4, <2>3 DEF DeleteTable, TryFree
    <3>2. delete_on_close'[s] # delete_on_close[s] => s = Find(n)
      BY Zenon, <3>1, RowShare DEF IInv, TypeOK
    <3> QED
      BY Zenon, <1>1, <1>4, <2>1, <3>1, <3>2 DEF Kept
  <2> QED
    BY Zenon, <2>2, <2>3
<1> QED
  BY Zenon, <1>2, <1>3, <1>4

\* ha_fastmem::open that goes on to create: the share it frees was registered after
\* its lookup.
LEMMA LateOpenKeeps ==
    ASSUME IInv, LateKnown, NEW h \in Handlers, OpenCreate(h) \/ OpenCreateFails(h), NEW s \in rows
    PROVE  Kept(s)
<1>1. s \in live /\ path[h] \in Names
  BY Zenon DEF IInv, TypeOK
<1>2. pc[h] = "create" /\ pc'[h] # "create"
  BY Zenon DEF OpenCreate, OpenCreateFails, Goto, IInv, TypeOK
<1>3. /\ s \notin live' => s \in Unused(path[h])
      /\ delete_on_close'[s] = delete_on_close[s]
  <2>1. CASE OpenCreate(h)
    <3>1. NewShare(path[h], FALSE, 1)
      BY Zenon, <2>1 DEF OpenCreate
    <3> QED
      BY Zenon, <1>1, <3>1, ReplacesUnused
  <2>2. CASE OpenCreateFails(h)
    BY Zenon, <1>1, <2>2 DEF OpenCreateFails, Free, shareVars
  <2> QED
    BY Zenon, <2>1, <2>2
<1>4. s \in Unused(path[h]) => name[s] = path[h] /\ Holders(s) = {} /\ h \in late
  BY Zenon, <1>1, <1>2, UnusedOfName DEF LateKnown
<1> QED
  BY Zenon, <1>2, <1>3, <1>4 DEF Kept, GoesToLateOpen

\* fm_release_share frees a share that nobody else has.
LEMMA ReleaseKeeps ==
    ASSUME IInv, NEW h \in Handlers, OpenRelease(h), NEW s \in rows
    PROVE  Kept(s)
<1>1. s \in live /\ pc[h] = "register" /\ pc'[h] = "closed" /\ share[h] \in live
  BY Zenon DEF OpenRelease, Goto, IInv, TypeOK, HandlesLive
<1>2. PICK x : x = share[h]
  BY Zenon
<1>3. /\ s \notin live' => s = x /\ (internal[x] \/ open_count[x] - 1 = 0)
      /\ delete_on_close'[s] = delete_on_close[s]
  BY Zenon, <1>1, <1>2 DEF OpenRelease, Free
<1>4. x # NoShare
  BY <1>1, <1>2 DEF IInv, TypeOK, NoShare
<1>5. CASE internal[x]
  BY Zenon, <1>1, <1>2, <1>3, <1>4, <1>5
  DEF IInv, InternalPrivate, Kept, GoesWithLast, Holders
<1>6. CASE ~internal[x]
  <2>1. open_count[x] \in Nat
    BY <1>1, <1>2, MaxSharesAssumption DEF IInv, TypeOK, Shares
  <2>2. s \notin live' => s = x /\ open_count[x] = 1
    BY <1>3, <1>6, <2>1
  <2>3. h \in Counted(x)
    BY Zenon, <1>1, <1>2, <1>6 DEF Counted
  <2>4. s \notin live' => Holders(s) = {h}
    BY Zenon, <1>1, <1>2, <2>2, <2>3, LastOne DEF Holders
  <2> QED
    BY Zenon, <1>1, <1>3, <2>4 DEF Kept, GoesWithLast
<1> QED
  BY Zenon, <1>5, <1>6

\* fm_close frees a dropped share with its last handler, and only drop_table marks it.
LEMMA LeaveKeeps ==
    ASSUME IInv, NEW h \in Handlers, NEW drop \in BOOLEAN, Leave(h, drop), NEW s \in rows
    PROVE  Kept(s)
<1>1. s \in live /\ pc[h] = "open" /\ pc'[h] = "closed" /\ share[h] \in live
  BY Zenon DEF Leave, Goto, IInv, TypeOK, HandlesLive
<1>2. PICK x : x = share[h]
  BY Zenon
<1>3. /\ s \notin live' => s = x /\ open_count[x] - 1 = 0 /\ delete_on_close'[x]
      /\ delete_on_close' = [delete_on_close EXCEPT ![x] = @ \/ drop]
  BY Zenon, <1>1, <1>2 DEF Leave, Free
<1>4. open_count[x] \in Nat
  BY <1>1, <1>2, MaxSharesAssumption DEF IInv, TypeOK, Shares
<1>5. s \notin live' => s = x /\ open_count[x] = 1 /\ delete_on_close'[x]
  BY <1>3, <1>4
<1>6. h \in Counted(x)
  BY Zenon, <1>1, <1>2 DEF Counted
<1>7. s \notin live' => GoesWithLast(s)
  <2>1. s \notin live' => Holders(s) = {h}
    BY Zenon, <1>1, <1>2, <1>5, <1>6, LastOne DEF Holders
  <2> QED
    BY Zenon, <1>1, <1>5, <2>1 DEF GoesWithLast
<1>8. delete_on_close'[s] # delete_on_close[s] => s = x /\ drop
  <2>1. delete_on_close'[s] = IF s = x THEN delete_on_close[s] \/ drop ELSE delete_on_close[s]
    BY Zenon, <1>3, RowShare DEF IInv, TypeOK
  <2> QED
    BY Zenon, <2>1, RowShare
<1>9. s = x /\ drop => h \in Holders(s) /\ DropTable(h)
  BY Zenon, <1>2 DEF Holders, DropTable
<1> QED
  BY Zenon, <1>7, <1>8, <1>9 DEF Kept

\* Opens, closes and renames lose no rows (fm_open, fm_create, fm_close,
\* fm_release_share, fm_rename): a share with rows goes only by a create or drop of
\* its own name, to an open of its name that was late, or with its last handler if
\* it was dropped or that handler could not register; and it is dropped only by its
\* name or by a handler that has it.
THEOREM RowsSurvive == Spec => KeepsRows
<1>1. IInv /\ LateKnown /\ [Next]_vars => [\A s \in rows : Kept(s)]_vars
  <2> SUFFICES ASSUME IInv, LateKnown, Next, NEW s \in rows PROVE Kept(s)
    BY Zenon
  <2>1. s \in live
    BY Zenon DEF IInv, TypeOK
  <2>2. ASSUME live' = live, delete_on_close' = delete_on_close PROVE Kept(s)
    BY Zenon, <2>1, <2>2 DEF Kept
  <2>3. ASSUME NEW n \in Names, Create(n) \/ CreateFails(n) \/ DeleteTable(n) PROVE Kept(s)
    BY Zenon, <2>3, NameKeeps
  <2>4. ASSUME NEW n \in Names, NEW m \in Names, Rename(n, m) PROVE Kept(s)
    BY Zenon, <2>2, <2>4 DEF Rename
  <2>5. ASSUME NEW h \in Handlers, NEW n \in Names, OpenFound(h, n) \/ OpenMissing(h, n)
        PROVE  Kept(s)
    BY Zenon, <2>2, <2>5 DEF OpenFound, OpenMissing, shareVars
  <2>6. ASSUME NEW h \in Handlers, NEW n \in Names, OpenInternal(h, n) PROVE Kept(s)
    <3>1. NewShare(n, TRUE, 0)
      BY Zenon, <2>6 DEF OpenInternal
    <3> QED
      BY Zenon, <3>1, ReplacesUnused DEF Kept
  <2>7. ASSUME NEW h \in Handlers, OpenUsed(h) \/ OpenRegister(h) \/ Write(h) PROVE Kept(s)
    BY Zenon, <2>2, <2>7 DEF OpenUsed, OpenRegister, Write, shareVars
  <2>8. ASSUME NEW h \in Handlers, OpenCreate(h) \/ OpenCreateFails(h) PROVE Kept(s)
    BY Zenon, <2>8, LateOpenKeeps
  <2>9. ASSUME NEW h \in Handlers, OpenRelease(h) PROVE Kept(s)
    BY Zenon, <2>9, ReleaseKeeps
  <2>10. ASSUME NEW h \in Handlers, Close(h) \/ DropTable(h) PROVE Kept(s)
    BY Zenon, <2>10, LeaveKeeps DEF Close, DropTable
  <2> QED
    BY Zenon, <2>3, <2>4, <2>5, <2>6, <2>7, <2>8, <2>9, <2>10 DEF Next
<1>2. Init => LateKnown
  BY Zenon DEF Init, LateKnown
<1> QED
  BY <1>1, <1>2, LateStep, Invariance, PTL DEF Spec, KeepsRows, Kept
=============================================================================
