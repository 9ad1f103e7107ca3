------------------------------- MODULE FmTable -------------------------------
(***************************************************************************)
(* What a table promises to write statements, without locks, generations   *)
(* or handlers: an UPDATE that reports success has replaced the row's value *)
(* by what it computes from that value, in one step; a DELETE that reports *)
(* success has removed a row that was there; a call that fails has changed *)
(* nothing.                                                                *)
(***************************************************************************)
CONSTANTS
    Clients,
    Slots,
    Vals, Calc,     \* row values, and the value an UPDATE computes from each
    NoRow

VARIABLES
    rows,       \* value of the row in each slot, or NoRow
    answer      \* what the last write call of each client reported

vars == <<rows, answer>>

Answers == {"none", "inserted", "updated", "deleted", "failed"}

Init ==
    /\ rows = [i \in Slots |-> NoRow]
    /\ answer = [c \in Clients |-> "none"]

Report(c, a) == answer' = [answer EXCEPT ![c] = a]

Insert(c) ==
    /\ Report(c, "inserted")
    /\ \E i \in Slots, v \in Vals :
        rows[i] = NoRow /\ rows' = [rows EXCEPT ![i] = v]

Update(c) ==
    /\ Report(c, "updated")
    /\ \E i \in Slots :
        rows[i] # NoRow /\ rows' = [rows EXCEPT ![i] = Calc[rows[i]]]

Delete(c) ==
    /\ Report(c, "deleted")
    /\ \E i \in Slots :
        rows[i] # NoRow /\ rows' = [rows EXCEPT ![i] = NoRow]

\* A call that fails, and one that begins.
Fail(c) == Report(c, "failed") /\ UNCHANGED rows
Begin(c) == Report(c, "none") /\ UNCHANGED rows

Next == \E c \in Clients : Begin(c) \/ Fail(c) \/ Insert(c) \/ Update(c) \/ Delete(c)

Spec == Init /\ [][Next]_vars
=============================================================================
