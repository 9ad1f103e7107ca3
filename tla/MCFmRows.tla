------------------------------ MODULE MCFmRows ------------------------------
(* Small instances of FmRows for TLC: the workloads of the runs. *)
EXTENDS FmRows, TLC

CONSTANTS t1, t2, t3

TwoThreads == {t1, t2}
ThreeThreads == {t1, t2, t3}

\* A reader against an updater and a thread that deletes and refills the slot.
ReadCalls == t1 :> {"read"} @@ t2 :> {"update"} @@ t3 :> {"insert", "delete"}

\* Inserts, deletes and clears against inserts and updates.  Deletes and clears
\* are calls of one thread and never overlap.
StoreCalls == t1 :> {"insert", "delete", "clear"} @@ t2 :> {"insert"} @@ t3 :> {"update"}

\* Scans and deletes against inserts and locked writes.
LiveCalls == t1 :> {"scan", "delete"} @@ t2 :> {"insert", "lock"}

\* The workloads of the counterexamples.
RecycleCalls == t1 :> {"scan"} @@ t2 :> {"insert", "delete"}
ClearLockCalls == t1 :> {"clear"} @@ t2 :> {"insert", "lock"}

\* Words and records are interchangeable; so are threads with equal roles.
DataSymmetry == Permutations(Words) \union Permutations(Recs)
=============================================================================
