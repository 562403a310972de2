--------------------------- MODULE MCProgressFormat ---------------------------
(* Two bytes, eight slots.  The first byte takes every value, the second   *)
(* the values of an unused byte, of first slots started, completed, broken *)
(* or skipped, and of a whole completed byte.                              *)
EXTENDS ProgressFormat

MCContents ==
    { [i \in {0, 1} |-> IF i = 0 THEN a ELSE b] :
         a \in Byte, b \in {255, 127, 63, 191, 207, 254, 0} }
=============================================================================
