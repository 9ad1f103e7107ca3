----------------------------- MODULE MCFmHandler -----------------------------
(* Instances of FmHandler. *)
EXTENDS FmHandler, TLC

CONSTANTS h1, h2, h3, h4

\* Two connections with a handler each, on one table; one checks reads.
TwoHandlers == {h1, h2}
OwnThread == [h \in Handlers |-> h]
OneTable == [h \in Handlers |-> Slots]
FirstChecks == h1 :> TRUE @@ h2 :> FALSE

MixedCalls == h1 :> {"select", "index", "insert", "update", "delete"}
           @@ h2 :> {"scan", "pos", "update"}

\* A row is deleted and its slot refilled while another statement looks it up.
RecycleCalls == h1 :> {"index", "insert", "delete"} @@ h2 :> {"index"}

\* Two connections run a statement that writes two tables.
FourHandlers == {h1, h2, h3, h4}
TwoThreads == h1 :> 1 @@ h2 :> 1 @@ h3 :> 2 @@ h4 :> 2
TwoTables == h1 :> {0} @@ h2 :> {1} @@ h3 :> {0} @@ h4 :> {1}
JoinCalls == [h \in Handlers |-> {"index", "insert"}]
AllCheck == [h \in Handlers |-> TRUE]

MCVals == 0 .. 1
MCCalc == [v \in Vals |-> 1 - v]
=============================================================================
