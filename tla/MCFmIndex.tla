------------------------------ MODULE MCFmIndex ------------------------------
(* Instances of FmIndex: key 0 allows duplicates, key 1 is unique.         *)
EXTENDS FmIndex, MCFmKeys, TLC

CONSTANTS t1, t2, va, vb, vc, vn

TwoThreads == {t1, t2}

\* va and vc share a bucket of two, vb has the other; vn has a NULL part.
MCVals == {va, vb, vc, vn}
MCHash == va :> 2 @@ vb :> 1 @@ vc :> 4 @@ vn :> 6

Rec(x, y) == 0 :> x @@ 1 :> y
\* Values that share a bucket, values that do not, NULLs; inserting a row twice
\* clashes on the unique key only.
IndexRecs == {Rec(va, va), Rec(va, vb), Rec(vc, vn)}
RaceRecs == {Rec(va, va), Rec(va, vb)}

IndexLookups == {<<0, va>>, <<1, vb>>}

IndexCalls == t1 :> {"insert", "lock"} @@ t2 :> {"lock", "find", "truncate"}
\* An insert beside an update that changes the unique key.
RaceCalls == t1 :> {"insert", "lock"} @@ t2 :> {"lock"}
=============================================================================
