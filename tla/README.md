# FASTMEM verification

TLA+ specifications of FASTMEM, the MariaDB storage engine in `src/`, with TLC
configurations that check them on small instances and TLAPS proofs for instances
of any size. Every definition that models code is mapped to its source lines in
`PROJECT.json`.

## The system and its modules

FASTMEM keeps a table in memory as an array of slots in chunks, with one hash
index per key. Readers take no locks: a sequence number per slot (seqlock) tells
them whether they copied while a writer wrote. Writers take a spinlock per row
(`wlock`), spinlocks per hash bucket, and `struct_mutex` for the allocator. A
slot's generation grows whenever its row goes, so that `<slot, generation>` names
a row. A table's share is found by name in a registry that counts its handlers.

| part of the system | source | modules | proofs |
|---|---|---|---|
| row store: slots, seqlock, wlock, generations, freelist, chunks, scan, clear | `fm_core.h`, `fm_data.cc` | `FmRows` | `FmRows_base`, `FmRows_proofs` |
| hash indexes: chains, bucket locks, duplicate check, lookups | `fm_core.h`, `fm_data.cc` | `FmIndex` | `FmIndex_base`, `FmIndex_chains`, `FmIndex_proofs` |
| keys: segments, hashing, comparing, packing | `fm_hash.cc`, `fm_create.cc` | `FmKeys` | |
| auto increment | `fm_core.h`, `fm_data.cc` | `FmAutoInc` | `FmAutoInc_proofs` |
| statement layer: locks, reads and writes of a statement | `ha_fastmem.cc`, `ha_fastmem.h`, `fm_data.cc` | `FmHandler`, which implements `FmTable` | `FmHandler_proofs` |
| registry of shares | `fm_create.cc`, `ha_fastmem.cc` | `FmRegistry` | `FmRegistry_proofs` |

`MC*` modules give the constants of the runs.

The modules divide the system by grain. `FmRows` has one action per access to
shared memory, for a table without keys; a row image is a tuple of words that
`memcpy` moves one at a time. `FmIndex` takes a row image as one value and has one
action per node of a chain walk and per bucket lock. `FmHandler` takes the core's
operations as one step each and has the steps that other connections can come
between: finding a row, fetching its generation, locking it, reading it again,
writing it, unlocking it. `FmKeys` has no state: the functions of `fm_hash.cc` as
operators over segments and byte sequences.

What one module assumes another shows. `FmIndex` takes keys to be values with a
hash; `FmKeys` says that equal keys have equal hashes and which packed keys agree
with records. `FmHandler` takes `fm_core_update_row_locked` as one step on a row
whose lock is held; `FmRows` shows that the lock's owner is alone with the row.

### How the state corresponds to the code

- Variables have the names of the fields and locals they stand for (`state`,
  `gen`, `wlock`, `current_slot`, `row_locked`, `open_count`). `pc` says where in
  its function a thread is; labels carry a prefix for the function (`up_` for
  `fm_core_update_row`, `rs_` for a reservation).
- A spinlock is its owner. Taking a lock is merged with the step that follows and
  releasing it with the step before, which hides no interleaving of guarded data.
- Memory order: the models are sequentially consistent; the code is not written
  for that everywhere. Publication (`state`, `chunk_cnt`, the end of an image
  write) is acquire and release, but the increment that makes `seq` odd
  (`fm_core.h:683`), `gen` and `records` are relaxed, and the reader's second load
  of `seq` (`fm_core.h:384`) does not keep its `memcpy` before it in C++. On x86-64,
  the platform the repository documents, the hardware keeps these orders if the
  compiler does; what a weaker build could do is not covered by any run or proof.
- `memcpy` races, which C++ leaves undefined, are words copied one by one in any
  order.
- `Calls` is the workload: which entry points each thread or handler uses. A run
  narrows it to the calls its question is about; the proofs hold for any, with the
  conditions on clear, on statements over two tables and on huge reservations that
  the section on proofs names.
- History variables (`lost`, `stable`, `seen`, `raced` and the like) are read by
  properties only.

## Runs

| run | instance | what it checks |
|---|---|---|
| `RowsRead` | 3 threads, 1 row in a chunk of 2, images of 2 words, sequence numbers modulo 4 | reads beside updates, deletes and refills: what is published is whole, reads return the current row (unless the slot was recycled during the copy), no generation is used twice, the row limit holds |
| `RowsStore` | 3 threads, 2 rows, 3 generations | inserts, deletes, clears, updates: slot numbers and links stay inside the allocated chunks (types), every slot is in use or in the freelist and not both, the row count is exact, no writer works on a row that has gone |
| `RowsLive` | 2 threads, 2 chunks, fairness | scans miss no row that stays, no circular wait, all calls return |
| `RowsTorn` | 2 threads, 1 row | violation: a scan returns half of a deleted row and half of the one that refilled its slot |
| `RowsClearLock` | 2 threads, 1 row | violation: clear and a locked delete wait for each other |
| `AutoInc` | 2 threads, counter modulo 8, fairness | reserved intervals are disjoint, the counter never goes back, reservations fail at the end of the range only, first values are the right ones, all calls return |
| `Index` | 2 threads, 2 rows, 2 keys of which one is unique, 2 buckets | chains hold exactly the rows of their bucket, unique keys are unique but for the race below, lookups with `index_next` miss no row that stays, no circular wait; and the assumptions of `MCFmKeys` |
| `IndexRace` | the same | violation: two rows with the same unique key |
| `Handler` | 2 connections, 2 rows, one handler with read check and one without | row locks are exact, a row read for writing stays as read, nobody waits with a lock held, statements implement `FmTable` |
| `HandlerRecycled` | 2 connections, 2 rows | violation: a statement goes on with a row that is not the one it looked up |
| `HandlerJoin` | 2 connections with 2 handlers each, 2 tables | violation: two statements over two tables wait for each other |
| `Registry` | 3 handlers, 2 names, 3 allocations | no handler has a freed share, open counts and lists are exact, dropped tables are freed with their last handler, rows survive opens, closes, renames and all calls on other names |

The four assumptions of `MCFmKeys` are evaluated by TLC when `Index` and
`IndexRace` start: over thirty keys of two columns (every segment type, before and
after another column, nullable or not, one- and two-byte characters, key prefixes,
trailing spaces, stale bytes behind short values) comparing is reflexive and
symmetric and respects hash and NULL parts; keys packed by the SQL layer hash and
compare like the records they come from exactly when no BIT column with uneven bits
comes before another; `fm_make_key` packs fixed-size single-byte columns as the SQL
layer does; and it never writes behind `lastkey`.

### Why the bounds are enough

- Two threads suffice for a race between two operations; the third in `RowsRead`
  and `RowsStore` separates the thread that recycles a slot from the two that
  overlap on it. Words, records and handlers are interchangeable, hence the
  symmetry; liveness runs use none.
- One or two rows: rows interact through the freelist, chains and chunks only, and
  two rows make a freelist of two, a chain with a predecessor, two chunks of one.
- `MaxGen` lets a slot be refilled once or twice, so that stale references of
  every age exist. `SEQ_MOD` 4 lets the counter come round; the property about
  reads excludes a read during which it came round fully, which takes 2^31 writes
  in the code.
- `MOD` 8 puts the end of the counter's range within a few reservations.
- `va` and `vc` share a bucket, `vb` has the other, `vn` has a NULL part.
- Deletes and clears in `RowsStore` are calls of one thread: clear beside a locked
  delete is `RowsClearLock`.

### Fairness

`RowsLive`: weak fairness of every thread inside a call, which is that the operating
system runs it, and strong fairness of taking a spinlock. Spinlocks are not queued,
so the second is an assumption about the hardware rather than a promise of the code:
a thread that tries again and again gets a lock that is free again and again.
`AutoInc`: the same for a compare-and-swap. Client calls have no fairness. The other
runs check safety only.

### Deadlock

TLC's deadlock check is on in every run: clients can always make another call.
Circular waits of some of the threads are the subject of the `NoCircularWait` and
`NoHoldAndWait` invariants.

## Refinement

`FmTable` is what write statements rely on: a table whose rows change by atomic
inserts, updates that replace a value by what is computed from it, and deletes;
calls that fail change nothing. `FmHandler` implements it (`AtomicWrites`), with
`rows[i]` the value of slot `i` if it is ACTIVE. An update there is five or more
steps: lookup, lock, second read, computation by the server, verification, write.
If any of lock, second read and verification is missing, an update that reports
success writes a value computed from one that is no longer there, and that step is
none of `FmTable`'s.

## Proofs

All theorems are for any number of threads, handlers, rows, values and
generations. The named `ASSUME`s of the modules state only that sizes are positive
numbers, that "nobody" is no thread, that constant functions have their types, and
that a table has at most `FM_MAX_CHANGED_KEYS` keys.

### Row store

`FmRows_base` and `FmRows_proofs`. Three workload conditions occur:

| theorem | states | for workloads |
|---|---|---|
| `TypeCorrect` | `TypeOK` | all |
| `ScanMissesNoRow` | `ScanComplete` | all |
| `DeadlockFree` | `NoCircularWait` | `ClearsApart` |
| `WritersSafe` | `WritersOwnTheirRow` | `ClearsApart` |
| `RefsUnique` | `FreshGeneration` | `ClearsApart` |
| `NoSlotLost` | `SlotsAccounted` | `ClearsApart` |
| `CountExact` | `RecordsExact` | `ClearsApart` |
| `RowsWhole` | `PublishedImageWhole` | `ClearsApart` |
| `ReadsCurrent` | `ReadReturnsCurrentRow` | `ClearsApart` |
| `LimitHolds` | `RowLimit` | `NoClear` |

`ClearsApart`: a thread that clears the table is the only one that deletes rows;
all others insert, update, read and scan beside it. The condition is needed. A
locked delete beside a clear is the circular wait of `RowsClearLock`. An unlocked
delete holds no lock after its store of DELETING, so that a clear passes over it and
the delete then decrements the zeroed count and pushes its slot a second time.
`RowLimit` fails once a clear has put the slots past `max_records` on the freelist.

The argument goes in four layers, each using the ones before it.

1. Types. The slot of a thread inside a call is a slot of an allocated chunk; this
   rests on the arithmetic of chunks (`CapOK`, `CountOK`). For scans, a row that was
   live all the while and was not returned is not behind the cursor.
2. Locks. `LocksOK` ties each lock to the label of its owner. Who holds
   `struct_mutex` waits for nobody or, in a clear, for the wlock of one row; who
   holds a wlock waits at most for `struct_mutex`, at the end of a locked delete,
   which `ClearsApart` keeps away from the clear.
3. The life of a slot. `LifeInv` gives every slot one phase (on the freelist, being
   filled, live, being deleted) with at most one thread in charge, says that
   generations that were published are below the present one unless the row is
   live, and has the freelist as a sequence of distinct slots along the `next_free`
   links. Counts are cardinalities: the lemmas of `FmRows_base` name the facts about
   finite sets they use (`Counting`), and `FmRows_proofs` proves those from
   `FiniteSetTheorems` (`Counts`). While a clear runs there is no such list; then
   `LifeInv` says instead that the slots behind the sweep are free (`Swept`).
   `struct_mutex` keeps inserts out and `ClearsApart` deletes, so at the rebuild all
   slots are free and belong on the new list.
4. The seqlock. `SeqInv` has four parts. `RowOK`: `seq` is odd only while an update
   is copying, and a slot that was ever published, is even and is not being filled
   holds one whole record, deleted or not. `CopyOK`: what a copy into a slot has
   moved so far. `SlotOK`: until an insert takes the slot, the row under a reader is
   the one the reader asked for. `SnapOK`: `seq` is the reader's first load plus the
   increments since, so that an equal second load means none or a full turn, and
   while there were none the words copied so far are the image. The two exceptions
   of `ReadReturnsCurrentRow`, a slot filled again during the attempt and a full
   turn of `seq`, remain; `RowsTorn` shows that the first is needed.

### Hash indexes

`FmIndex_base`, `FmIndex_chains` and `FmIndex_proofs`: `[]TypeOK`, `[]NoCircularWait`,
`[]ChainsExact`, `[]UniqueUnlessRaced` and `[]LookupComplete`, for every workload and
any number of threads, rows and buckets and up to `FM_MAX_CHANGED_KEYS` keys
(`ChangedKeysAssumption`; with more keys an update that changes them all leaves some
in their old chains). Clear is exclusive in this module: it runs while no other call
does, as under TRUNCATE, and the theorems say nothing of a DELETE without WHERE beside
other statements. All five follow from one inductive invariant, `IndexInv` (theorem
`IndexInvariant`):

- `BaseInv`: types, which slots are free or belong to an insert, and which of
  `struct_mutex`, wlock and bucket locks a thread holds at each label. An update
  takes its bucket locks in the order of key and bucket, so a lock a thread waits
  for comes after all it holds; a waiting set would have no last lock.
- `ChainsOK`: the chain of every bucket, at every step, ends, repeats no row and
  holds exactly the rows that `In` says. Those are the visible rows with that
  bucket, and in the middle of a call the rows an insert has linked, a rollback
  or delete has not unlinked yet (`Mine`), or an update has not moved yet, which
  are still in their old bucket (`Pending`).
- `FindOK`: the rows that matched a lookup all the while and were not returned yet
  are ahead of the walk (`Ahead`), unless the row the scan stood on left its chain.
- `DupOK`, `CheckedOK`: every other row with the value that a duplicate check looks
  for, visible or linked by an insert, is still ahead of its walk or came from a
  race; once the check is done only the latter remain. `UniqueOK`: of two such rows
  that agree on a unique key one came from a race.

The property `ChainsExact` walks a chain with the recursive function `NthLink`. The
proofs talk of a function `g` that satisfies the recursion equation (`Follows`) and
lists the rows (`Chain`), and show how linking and unlinking change `g`; they need no
induction over the chain. Positions in a chain are compared by least elements
(`WellOrdered`, proved from `WellFoundedInduction`).

### Auto increment

`FmAutoInc_proofs`: `[]TypeOK`, `[]FirstIsNext` and `FailsAtEndOnly` for every
counter width, increment, offset and request. `IntervalsDisjoint` and
`CounterMonotone` if no single request spans the whole width of the counter
(`SpanFits`; with 16-bit increments that takes 2^48 rows in one statement, and the
code multiplies without a check there). The invariant is that the interval a thread
is about to claim lies between the counter value it read and the one it is about to
store, so that a successful compare-and-swap makes it the thread's own. The checks
for wrap-around are what makes that true near the end of the range.

### Registry and statements

**`FmRegistry_proofs`**: `[]TypeOK`, `[]HandlesLive`, `[]HandlesCounted`,
`[]ListExact`, `[]DroppedFreed` and `KeepsRows`. A share is freed when its count is
zero, so that handlers have live shares rests on the counts being exact, and that on
which handlers hold a share at all (`HoldsShare`, `InternalPrivate`). The count is a
cardinality, which `FiniteSetTheorems` follows through pins and unpins. `DroppedFreed`
follows from the counts: a share whose count is not zero has a handler. `KeepsRows`
says of every step that frees a share with rows whose step it is: a create or drop of
that share's name when no handler has it (`GoesByName`), the second half of an open of
that name that had looked before the share was registered (`GoesToLateOpen`), or the
last handler of a dropped share or one whose registration fails (`GoesWithLast`). It
has one lemma per kind of step. Who holds a share comes from the exact counts
(`UnusedNotHeld`, `LastOne`), and the late open needs `LateKnown`: an open between its
lookup and its create whose name was registered meanwhile is counted as late.

**`FmHandler_proofs`**: `[]TypeOK`, `[]LocksAgree`, `[]ReadRowIsCurrent`, `[]NoHoldAndWait`,
the refinement `Spec => AtomicWrites`, and `[]NoCircularWait` if every thread uses
one handler (`HandlerJoin` shows that this condition is needed). The invariant
`IInv` is about each handler on its own; `Combine` carries the other handlers' part
through a step that changes only what is the acting handler's: its variables, its
lock, and rows it has locked or that are free. For the refinement the invariant says
that at the write a handler without read check has the row as it is.

### Only model-checked

- Liveness (`WritersReturn`, `ReadersReturn`, `CallsReturn`): the prover has no
  rules for fairness.
- `FmKeys`: what its recursive operators compute would need induction over byte
  sequences.

Where another thread deletes beside a clear the row store has theorems about types
and scans only: the wait, the freelist and the count go wrong there. The row limit
has none after a clear.

## What the checks found

1. `RowsTorn`: `fm_core_insert_row` fills a recycled slot without touching `seq`
   (fm_core.h:639), so a reader that started on the old row may return half of each
   row. DESIGN.md:54 excludes that.
2. `RowsClearLock`: clear takes wlocks under `struct_mutex` (fm_core.h:1065), a
   locked delete `struct_mutex` under a wlock (fm_core.h:1030).
3. `IndexRace`: an inserted row is linked before it is ACTIVE (fm_core.h:671) and
   the duplicate check looks at ACTIVE rows only.
4. `HandlerRecycled`: `fm_reread_locked` adopts the slot's current generation
   (fm_data.cc:100) and so accepts a row that refilled the slot.
5. `HandlerJoin`: row locks of the two handlers of a statement are taken in row
   order (ha_fastmem.cc:105), against DESIGN.md:152.

Five observations have no run of their own:

- `fm_key_cmp` passes a byte too many behind a BIT column with uneven bits
  (fm_hash.cc:344); `PackedKeysAgree` states the exact condition.
- `fm_make_key` (fm_hash.cc:442) copies a VARCHAR with the record's length bytes,
  where hashing and comparing expect two, and does not fill multi-byte texts, so
  `find_unique_row` looks for another key; `MadeKeysAgree` is restricted to the
  columns for which it is right.
- `fm_core_clear` rebuilds the freelist with all slots of all chunks
  (fm_core.h:1071), after which a table may hold more than `max_records` rows.
- The comment at fm_core.h:689 says of `expect_gen` "0 = don't care". The code always
  compares generations, and the standalone test relies on it; the models follow the
  code.
- An open that finds no share (ha_fastmem.cc:122) and goes on to `fm_create` frees a
  share of the name that was created, filled and closed in between (fm_create.cc:311),
  rows included. A registration that fails (fm_create.cc:510) does the same to a share
  all others have closed meanwhile. `KeepsRows` names both cases.

## Not modelled

- Statistics and costs (`fm_info`, `info`, `records_in_range`), flags, names and
  plugin declarations: they change no table state.
- `fm_prepare_create_info` beyond key segments: the estimate of `max_records` and
  the rejection of unsupported keys.
- `fm_core_update_row` and `fm_core_delete_row` on keyed tables: no handler calls
  them; the standalone test does. `FmRows` has them without keys.
- Clear on a keyed table beside key-changing updates: in `FmIndex` clear runs alone,
  as under TRUNCATE. DELETE without WHERE does not exclude other statements.
- `fm_extra` and the order of thr_lock and metadata locks of the server.
- Weak memory: see above. Allocation failure is modelled where the code handles it
  (chunk growth, share creation).
- The mixing arithmetic of the key hash: whatever it is, equal feeds give equal
  hashes. Collations are two rules, case and trailing spaces.
