----------------------------- MODULE MCLogFormat -----------------------------
(* Bytes of four values: offsets from 12 on have the high byte FF, and an  *)
(* image of 15 bytes reaches them while one of 10 ends before.  Images     *)
(* hold one value in an interval and zero elsewhere; the value 3 is FF.  A *)
(* change of 15 bytes takes five chunks, and the log has room for four.    *)
EXTENDS LogFormat

MCImages ==
    { [i \in 0 .. size - 1 |-> IF i \in f .. f + n - 1 THEN v ELSE 0] :
         size \in {10, 15}, f \in {0, 8, 9, 11, 13}, n \in {1, 2, 5}, v \in {1, 3} }
    \cup { [i \in 0 .. size - 1 |-> v] : size \in {10, 15}, v \in {0, 3} }
=============================================================================
