----------------------------- MODULE FmRegistry -----------------------------
(***************************************************************************)
(* The registry of shares (fm_create.cc): a share is the in-memory table   *)
(* that all handlers of one name use.  It is counted by open_count and     *)
(* freed by whoever finds the count at zero: the last close of a dropped   *)
(* table, DROP, a failed open, or the next create of the name.             *)
(*                                                                         *)
(* A function that holds THR_LOCK_fastmem from its first to its last       *)
(* access is one step.  ha_fastmem::open is several of them, and other     *)
(* handlers run in between.  The server's metadata locks are left out:     *)
(* the properties hold for any order of calls.                             *)
(***************************************************************************)
EXTENDS Integers, FiniteSets

CONSTANTS
    Handlers,       \* handler objects
    Names,          \* table names
    MaxShares       \* bound: allocations of a share

ASSUME HandlersAssumption == IsFiniteSet(Handlers)
ASSUME NamesAssumption == Names # {}
ASSUME MaxSharesAssumption == MaxShares \in Nat

Shares == 1 .. MaxShares    \* a share is the number of its allocation
NoShare == 0

VARIABLES
    allocated,          \* shares allocated so far
    live,               \* shares allocated and not freed
    fm_share_list,      \* registered shares; the list is ordered newest first
    name, internal, open_count, delete_on_close, open_list,     \* of a share
    pc, share, path,    \* of a handler: step, share it holds, name it opens
    \* history, read by the properties only
    rows,               \* shares with rows
    late                \* handlers whose name was registered after they looked

shareVars == <<name, internal, open_count, delete_on_close, open_list>>
vars == <<allocated, live, fm_share_list, shareVars, pc, share, path, rows, late>>

Init ==
    /\ allocated = 0
    /\ live = {}
    /\ fm_share_list = {}
    /\ name \in [Shares -> {CHOOSE n \in Names : TRUE}]
    /\ internal = [s \in Shares |-> FALSE]
    /\ open_count = [s \in Shares |-> 0]
    /\ delete_on_close = [s \in Shares |-> FALSE]
    /\ open_list = [s \in Shares |-> {}]
    /\ pc = [h \in Handlers |-> "closed"]
    /\ share = [h \in Handlers |-> NoShare]
    /\ path \in [Handlers -> {CHOOSE n \in Names : TRUE}]
    /\ rows = {}
    /\ late = {}

-----------------------------------------------------------------------------
(* Registry helpers.                                                       *)

\* fm_find_named_share: the first of the list with the name.
Named(n) == {s \in fm_share_list : name[s] = n}
Find(n) == IF Named(n) = {} THEN NoShare
           ELSE CHOOSE s \in Named(n) : \A r \in Named(n) : r <= s

\* fm_free: unregister the shares of S and free them.
\* Mutant: they stay in the list.
Free_StillListed(S) ==
    /\ live' = live \ S
    /\ rows' = rows \ S
    /\ UNCHANGED fm_share_list

Free(S) ==
    /\ live' = live \ S
    /\ fm_share_list' = fm_share_list \ S
    /\ rows' = rows \ S

\* The share fm_create finds for name n, and the one it frees because no
\* handler has it.
Unused(n) == {s \in {Find(n)} : s # NoShare /\ open_count[s] = 0}
Used(n) == Find(n) # NoShare /\ open_count[Find(n)] > 0

\* fm_create that allocates: a registered share replaces the unused one; an
\* internal one is not registered and its name not looked up.
NewShare(n, int, pins) ==
    LET s == allocated + 1
        gone == IF int THEN {} ELSE Unused(n)
    IN  /\ s \in Shares
        /\ allocated' = s
        /\ live' = (live \ gone) \cup {s}
        /\ fm_share_list' = (fm_share_list \ gone) \cup (IF int THEN {} ELSE {s})
        /\ rows' = rows \ gone
        /\ name' = [name EXCEPT ![s] = n]
        /\ internal' = [internal EXCEPT ![s] = int]
        /\ delete_on_close' = [delete_on_close EXCEPT ![s] = int]
        /\ open_count' = [open_count EXCEPT ![s] = pins]
        /\ open_list' = [open_list EXCEPT ![s] = {}]

\* History: name n is registered while others are between lookup and create.
Registers(n, h) ==
    late' = (late \cup {u \in Handlers : pc[u] = "create" /\ path[u] = n}) \ {h}

Goto(h, l) == pc' = [pc EXCEPT ![h] = l]
Hold(h, s) == share' = [share EXCEPT ![h] = s]

-----------------------------------------------------------------------------
(* ha_fastmem::create, delete_table, rename_table.                         *)

\* (A share with open handlers is left as it is, and create succeeds.)
Create(n) ==
    /\ ~Used(n)
    /\ NewShare(n, FALSE, 0)
    /\ late' = late \cup {u \in Handlers : pc[u] = "create" /\ path[u] = n}
    /\ UNCHANGED <<pc, share, path>>

\* No memory for the new share: the unused one is gone all the same.
CreateFails(n) ==
    /\ ~Used(n) /\ Unused(n) # {}
    /\ Free(Unused(n))
    /\ UNCHANGED <<allocated, shareVars, pc, share, path, late>>

\* fm_try_free: free a share nobody has open, or leave that to the last close.
\* Mutant: free it at once.
TryFree_Now(s) == Free({s}) /\ UNCHANGED delete_on_close

TryFree(s) ==
    IF open_count[s] = 0
    THEN Free({s}) /\ UNCHANGED delete_on_close
    ELSE /\ delete_on_close' = [delete_on_close EXCEPT ![s] = TRUE]
         /\ UNCHANGED <<live, fm_share_list, rows>>

DeleteTable(n) ==
    /\ Find(n) # NoShare
    /\ TryFree(Find(n))
    /\ UNCHANGED <<allocated, name, internal, open_count, open_list, pc, share, path, late>>

Rename(n, m) ==
    /\ Find(n) # NoShare
    /\ name' = [name EXCEPT ![Find(n)] = m]
    /\ late' = late \cup {u \in Handlers : pc[u] = "create" /\ path[u] = m}
    /\ UNCHANGED <<allocated, live, fm_share_list, internal, open_count, delete_on_close,
                   open_list, pc, share, path, rows>>

-----------------------------------------------------------------------------
(* ha_fastmem::open and close.                                             *)

\* fm_open_from_share_locked, then open_list: handler h has s open.
Opened(h, s, count) ==
    /\ open_count' = [open_count EXCEPT ![s] = count]
    /\ open_list' = [open_list EXCEPT ![s] = IF internal[s] THEN @ ELSE @ \cup {h}]
    /\ Hold(h, s)
    /\ Goto(h, "open")

\* fm_open finds the share.  (Without memory for the handle it changes nothing.)
OpenFound(h, n) ==
    /\ pc[h] = "closed" /\ Find(n) # NoShare
    /\ Opened(h, Find(n), open_count[Find(n)] + 1)
    /\ UNCHANGED <<allocated, live, fm_share_list, name, internal, delete_on_close, path, rows,
                   late>>

\* fm_open returns ENOENT: ha_fastmem::open goes on to create the share.
OpenMissing(h, n) ==
    /\ pc[h] = "closed" /\ Find(n) = NoShare
    /\ path' = [path EXCEPT ![h] = n]
    /\ Goto(h, "create")
    /\ UNCHANGED <<allocated, live, fm_share_list, shareVars, share, rows, late>>

OpenCreate(h) ==
    /\ pc[h] = "create"
    /\ ~Used(path[h])
    /\ NewShare(path[h], FALSE, 1)
    /\ Hold(h, allocated + 1)
    /\ Registers(path[h], h)
    /\ Goto(h, "register")
    /\ UNCHANGED path

\* Another handler has created and opened it meanwhile.
\* Mutant: the share found is not pinned.
OpenUsed_NoPin(h) ==
    /\ pc[h] = "create" /\ Used(path[h])
    /\ Hold(h, Find(path[h]))
    /\ Goto(h, "register")
    /\ late' = late \ {h}
    /\ UNCHANGED <<allocated, live, fm_share_list, shareVars, path, rows>>

OpenUsed(h) ==
    /\ pc[h] = "create" /\ Used(path[h])
    /\ open_count' = [open_count EXCEPT ![Find(path[h])] = @ + 1]
    /\ Hold(h, Find(path[h]))
    /\ Goto(h, "register")
    /\ late' = late \ {h}
    /\ UNCHANGED <<allocated, live, fm_share_list, name, internal, delete_on_close, open_list,
                   path, rows>>

OpenCreateFails(h) ==
    /\ pc[h] = "create" /\ ~Used(path[h])
    /\ Free(Unused(path[h]))
    /\ Goto(h, "closed")
    /\ late' = late \ {h}
    /\ UNCHANGED <<allocated, shareVars, share, path>>

\* An internal table: fm_create does not count the handler, fm_open_from_share will.
OpenInternal(h, n) ==
    /\ pc[h] = "closed"
    /\ NewShare(n, TRUE, 0)
    /\ Hold(h, allocated + 1)
    /\ Goto(h, "register")
    /\ UNCHANGED <<path, late>>

\* fm_open_from_share_and_register turns the pin into the handle's count.
OpenRegister(h) ==
    /\ pc[h] = "register"
    /\ Opened(h, share[h], IF internal[share[h]] THEN open_count[share[h]] + 1
                           ELSE open_count[share[h]])
    /\ UNCHANGED <<allocated, live, fm_share_list, name, internal, delete_on_close, path, rows,
                   late>>

\* No memory for the handle: fm_release_share.
\* Mutant: it takes an internal share for a counted one.
OpenRelease_Counted(h) ==
    /\ pc[h] = "register"
    /\ LET s == share[h]
       IN  /\ open_count' = [open_count EXCEPT ![s] = @ - 1]
           /\ Free(IF open_count[s] = 1 THEN {s} ELSE {})
    /\ Hold(h, NoShare)
    /\ Goto(h, "closed")
    /\ UNCHANGED <<allocated, name, internal, delete_on_close, open_list, path, late>>

OpenRelease(h) ==
    /\ pc[h] = "register"
    /\ LET s == share[h]
           n == IF internal[s] THEN 0 ELSE open_count[s] - 1
       IN  /\ open_count' = [open_count EXCEPT ![s] = n]
           /\ Free(IF n = 0 THEN {s} ELSE {})
    /\ Hold(h, NoShare)
    /\ Goto(h, "closed")
    /\ UNCHANGED <<allocated, name, internal, delete_on_close, open_list, path, late>>

\* fm_close; ha_fastmem::drop_table marks the share first.  The mark is set without
\* the mutex, but its handler is still counted: nobody acts on it before the close.
\* Mutant: the last close frees the share, dropped or not.
Leave_FreesAll(h, drop) ==
    /\ pc[h] = "open"
    /\ LET s == share[h]
           n == open_count[s] - 1
       IN  /\ open_count' = [open_count EXCEPT ![s] = n]
           /\ open_list' = [open_list EXCEPT ![s] = @ \ {h}]
           /\ delete_on_close' = [delete_on_close EXCEPT ![s] = @ \/ drop]
           /\ Free(IF n = 0 THEN {s} ELSE {})
    /\ Hold(h, NoShare)
    /\ Goto(h, "closed")
    /\ UNCHANGED <<allocated, name, internal, path, late>>

Leave(h, drop) ==
    /\ pc[h] = "open"
    /\ LET s == share[h]
           n == open_count[s] - 1
       IN  /\ open_count' = [open_count EXCEPT ![s] = n]
           /\ open_list' = [open_list EXCEPT ![s] = @ \ {h}]
           /\ delete_on_close' = [delete_on_close EXCEPT ![s] = @ \/ drop]
           /\ Free(IF n = 0 /\ delete_on_close'[s] THEN {s} ELSE {})
    /\ Hold(h, NoShare)
    /\ Goto(h, "closed")
    /\ UNCHANGED <<allocated, name, internal, path, late>>

\* Mutant: the check of the count comes before the decrement.
Close_CheckFirst(h) ==
    /\ pc[h] = "open"
    /\ LET s == share[h]
       IN  /\ open_count' = [open_count EXCEPT ![s] = @ - 1]
           /\ open_list' = [open_list EXCEPT ![s] = @ \ {h}]
           /\ Free(IF open_count[s] = 0 /\ delete_on_close[s] THEN {s} ELSE {})
    /\ Hold(h, NoShare)
    /\ Goto(h, "closed")
    /\ UNCHANGED <<allocated, name, internal, delete_on_close, path, late>>

Close(h) == Leave(h, FALSE)
DropTable(h) == Leave(h, TRUE)

\* A statement inserts rows through an open handler.
Write(h) ==
    /\ pc[h] = "open"
    /\ rows' = rows \cup {share[h]}
    /\ UNCHANGED <<allocated, live, fm_share_list, shareVars, pc, share, path, late>>

-----------------------------------------------------------------------------
Next ==
    \/ \E n \in Names : Create(n) \/ CreateFails(n) \/ DeleteTable(n)
    \/ \E n, m \in Names : Rename(n, m)
    \/ \E h \in Handlers, n \in Names : OpenFound(h, n) \/ OpenMissing(h, n) \/ OpenInternal(h, n)
    \/ \E h \in Handlers : \/ OpenCreate(h) \/ OpenUsed(h) \/ OpenCreateFails(h)
                           \/ OpenRegister(h) \/ OpenRelease(h)
                           \/ Close(h) \/ DropTable(h) \/ Write(h)

Spec == Init /\ [][Next]_vars

-----------------------------------------------------------------------------
(* Properties.                                                             *)

TypeOK ==
    /\ allocated \in 0 .. MaxShares
    /\ live \subseteq 1 .. allocated
    /\ name \in [Shares -> Names]
    /\ internal \in [Shares -> BOOLEAN]
    /\ open_count \in [Shares -> Nat]
    /\ delete_on_close \in [Shares -> BOOLEAN]
    /\ open_list \in [Shares -> SUBSET Handlers]
    /\ pc \in [Handlers -> {"closed", "create", "register", "open"}]
    /\ share \in [Handlers -> Shares \cup {NoShare}]
    /\ path \in [Handlers -> Names]
    /\ rows \subseteq live
    /\ late \subseteq Handlers

\* No handler is left with a freed share: neither an open one nor one that is
\* between fm_create and its registration.
HandlesLive ==
    \A h \in Handlers : pc[h] \in {"register", "open"} => share[h] \in live

\* Handlers that count for share s: those that have it open, and those that
\* pinned it with fm_create.  An internal share is not pinned.
Counted(s) ==
    {h \in Handlers : share[h] = s /\ (pc[h] = "open" \/ (pc[h] = "register" /\ ~internal[s]))}

\* open_count is the number of handlers that hold the share, open_list the set
\* of those that registered with it, through pins, unpins and failed opens.
HandlesCounted ==
    \A s \in live :
        /\ open_count[s] = Cardinality(Counted(s))
        /\ open_list[s] = {h \in Handlers : share[h] = s /\ pc[h] = "open" /\ ~internal[s]}

\* The list has exactly the shares that are alive and not internal: none is
\* found by name after it was freed, and none is lost.
ListExact == fm_share_list = {s \in live : ~internal[s]}

\* The memory of a dropped or internal table is freed with its last handler.
DroppedFreed ==
    \A s \in live : delete_on_close[s] => \E h \in Handlers : share[h] = s

\* Handlers that have share s, or are about to register with it.
Holders(s) == {h \in Handlers : share[h] = s}

\* The calls that may free share s, a table with rows.  A create or drop of its
\* name, if no handler has it:
GoesByName(s) ==
    /\ Holders(s) = {}
    /\ Create(name[s]) \/ CreateFails(name[s]) \/ DeleteTable(name[s])

\* The second half of an open of its name, whose first half found no such table:
GoesToLateOpen(s) ==
    /\ Holders(s) = {}
    /\ \E h \in late : pc[h] = "create" /\ path[h] = name[s] /\ pc'[h] # "create"

\* Its last handler, if the table was dropped or that handler cannot register:
GoesWithLast(s) ==
    \E h \in Handlers : /\ Holders(s) = {h}
                        /\ pc'[h] = "closed"
                        /\ delete_on_close'[s] \/ pc[h] = "register"

\* Rows survive opens, closes and renames (fm_open, fm_create, fm_close,
\* fm_release_share, fm_rename).  A share with rows goes only in one of those three
\* ways, never by a call on another name and never under a handler that has it; and
\* it is marked dropped only by a drop of its name, or of a handler that has it.
KeepsRows ==
    [][\A s \in rows :
        /\ s \notin live' => GoesByName(s) \/ GoesToLateOpen(s) \/ GoesWithLast(s)
        /\ delete_on_close'[s] # delete_on_close[s] =>
              DeleteTable(name[s]) \/ \E h \in Holders(s) : DropTable(h)]_vars
=============================================================================
