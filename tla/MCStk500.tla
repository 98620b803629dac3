----------------------------- MODULE MCStk500 ------------------------------
(***************************************************************************)
(* Instances of Stk500 for TLC: the hex files that are posted.             *)
(***************************************************************************)
EXTENDS Stk500

MCBytes == {"FF", "b0", "b1", "b2", "b3", "c0", "c1", "c2", "c3", "c4"}

Data(addr, vals) == [data |-> TRUE, addr |-> addr, vals |-> vals]
EndRecord == [data |-> FALSE, addr |-> 0, vals |-> <<>>]

\* A file that fills its last page exactly, and one whose second record starts in a
\* page and ends in the next.
Even == <<Data(0, <<"b0", "b1">>), Data(2, <<"b2", "b3">>), EndRecord>>
Odd  == <<Data(0, <<"c0", "c1", "c2">>), Data(3, <<"c3", "c4">>), EndRecord>>

EvenFiles == {Even}
BothFiles == {Even, Odd}
=============================================================================
