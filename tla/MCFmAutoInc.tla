----------------------------- MODULE MCFmAutoInc -----------------------------
(* A small instance of FmAutoInc for TLC. *)
EXTENDS FmAutoInc, TLC

CONSTANTS t1, t2

\* Zeros for the defaults, several values at a time, offset and increment.
SmallRequests == {<<0, 0, 0>>, <<1, 1, 2>>, <<2, 3, 2>>}

SmallKeyValues == {<<"signed", -3>>, <<"float", 11>>}
=============================================================================
