------------------------------- MODULE Keycodes -------------------------------
(***************************************************************************)
(* Keycodes: which internal codes are valid (src/keyboard/code.c) and how  *)
(* they translate to the 16-bit codes of Vial and back                     *)
(* (src/keyboard/code_convert.c).                                          *)
(*                                                                         *)
(* An internal code is <<opcode, mode, operand>>.  A translation that may  *)
(* fail is the set of its results: one code, or none.                      *)
(***************************************************************************)
EXTENDS Integers

NoOp == <<0, 0, 0>>
Transparent == <<1, 0, 0>>
Boot == <<\h14, 1, 0>>
LastVialCode == \hFFFF
VialCode == 0 .. LastVialCode
VialBoot == \h7C00
VialUser == \h7E40
UserCount == 32

\* The eight modifier bits; the right hand's are the upper four.
ModifierBit == {1, 2, 4, 8, 16, 32, 64, 128}
Left(mods) == mods % 16
Right(mods) == mods \div 16

-----------------------------------------------------------------------------
(* code.c                                                                  *)

ConsumerUsage == \hB2 .. \hB9 \cup {\hCC, \hCD, \hE2, \hE9, \hEA}
KeyboardUsage == \h04 .. \hA4 \cup \hB0 .. \hDD

\* code_icode_is_valid
Valid(i) ==
    LET mode == i[2]  operand == i[3] IN
    \/ i \in {NoOp, Transparent}
    \/ i[1] = \h10 /\ operand \in KeyboardUsage
    \/ i[1] = \h11 /\ operand = 0 /\ mode \in ModifierBit
    \/ i[1] = \h12 /\ mode = 0 /\ operand \in ConsumerUsage
    \/ /\ i[1] = \h13
       /\ \/ mode = 1 /\ operand \in {1, 2, 4}
          \/ mode \in 2 .. 4 /\ operand \in {1, \hFFFF}
    \/ /\ i[1] = \h14
       /\ \/ mode = 1 /\ operand = 0
          \/ mode = 2 /\ operand \in 1 .. 3
          \/ mode = 3 /\ operand \in 0 .. 4
    \/ i[1] \in \h80 .. \hBF

-----------------------------------------------------------------------------
(* code_convert.c                                                          *)

\* code_conversion_table.  A code without counterpart has NoOp or 0 there.
Consumer == { <<\hB2, 0>>, <<\hB3, \hBB>>, <<\hB4, \hBC>>, <<\hB5, \hAB>>, <<\hB6, \hAC>>,
              <<\hB7, \hAD>>, <<\hB8, \hB0>>, <<\hB9, 0>>, <<\hCC, 0>>, <<\hCD, \hAE>>,
              <<\hE2, \hA8>>, <<\hE9, \hA9>>, <<\hEA, \hAA>> }
Pointing == { <<1, 1, \hD1>>, <<1, 2, \hD2>>, <<1, 4, \hD3>>,
              <<3, \hFFFF, \hCD>>, <<3, 1, \hCE>>, <<2, \hFFFF, \hCF>>, <<2, 1, \hD0>>,
              <<4, 1, \hD9>>, <<4, \hFFFF, \hDA>> }
System == { <<1, 0, VialBoot>>, <<2, 1, \h7781>>, <<2, 2, \h7780>>, <<2, 3, \h7786>>,
            <<3, 0, \h7792>>, <<3, 1, \h7793>>, <<3, 2, \h7794>>, <<3, 3, \h7795>>,
            <<3, 4, \h7796>> }
VialOnly == \hD4 .. \hD8 \cup {\hDB, \hDC, \h7797}

Table ==
    { <<(<<\h12, 0, c[1]>>), c[2]>> : c \in Consumer }
    \cup { <<(<<\h13, p[1], p[2]>>), p[3]>> : p \in Pointing }
    \cup { <<(<<\h14, s[1], s[2]>>), s[3]>> : s \in System }
    \cup { <<NoOp, v>> : v \in VialOnly }

\* A code Vial cannot express is shown as 0.
MappedToVial(i) == { row[2] : row \in {r \in Table : r[1] = i /\ i # NoOp} }
MappedToInternal(v) == { row[1] : row \in {r \in Table : r[2] = v /\ v # 0 /\ r[1] # NoOp} }

UserToVial(i) ==
    { IF i[1] = \h80 /\ i[2] = 0 /\ i[3] < UserCount THEN VialUser + i[3] ELSE 0 :
         u \in {i[1]} \cap \h80 .. \hBF }
UserToInternal(v) == { <<\h80, 0, u>> : u \in {v - VialUser} \cap 0 .. UserCount - 1 }

\* A modifier key is the usage E0 and following, in the order of its bit.
ModifierToVial(i) ==
    { \hE0 + n : n \in {m \in 0 .. 7 : i[1] = \h11 /\ i[3] = 0 /\ i[2] = 2 ^ m} }

\* Vial has modifiers of one hand: four bits and a flag for the right.
StandardToVial(i) ==
    { (IF Right(i[2]) # 0 THEN 16 + Right(i[2]) ELSE i[2]) * 256 + base :
         base \in {b \in {IF i[3] > \hA4 THEN 0 ELSE i[3]} :
                      i[1] = \h10 /\ Valid(i) /\ (Left(i[2]) = 0 \/ Right(i[2]) = 0)} }

\* The opcodes of the four kinds are disjoint, so their order is immaterial.
ToVial(i) ==
    IF i = NoOp THEN {0}
    ELSE MappedToVial(i) \cup UserToVial(i) \cup ModifierToVial(i) \cup StandardToVial(i)

\* No modifiers on a modifier key or on nothing.
StandardToInternal(v) ==
    LET mods == v \div 256  base == v % 256 IN
    IF mods > 31 \/ mods = 16 THEN {}
    ELSE IF base \in \hE0 .. \hE7 THEN {<<\h11, 2 ^ (base - \hE0), 0>> : m \in {mods} \cap {0}}
    ELSE IF base \in \h04 .. \hA4
    THEN {<<\h10, IF mods > 16 THEN Left(mods) * 16 ELSE mods, base>>}
    ELSE {}

\* What the table translates the others do not.
ToInternal(v) ==
    IF v = 0 THEN {NoOp}
    ELSE MappedToInternal(v) \cup UserToInternal(v) \cup StandardToInternal(v)

\* code_convert_is_dangerous_vial_code
Dangerous(v) == v = VialBoot

-----------------------------------------------------------------------------
(* Every code of Vial that is accepted becomes one valid internal code and *)
(* is shown as what it was: for all 65536 of them.                         *)
VialRoundTrip ==
    \A v \in VialCode : \A i \in ToInternal(v) :
        ToInternal(v) = {i} /\ Valid(i) /\ ToVial(i) = {v}
=============================================================================
